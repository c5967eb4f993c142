----------------------------- MODULE ErrorModel -----------------------------
(***************************************************************************)
(* The error values of error.go and the internal calls that build and      *)
(* decorate them.  Error values are pointers, so they live in a heap:      *)
(* a slot holds an *AerospikeError, a sentinel *constAerospikeError (the   *)
(* package-level ErrXxx variables), or a foreign Go error (a stdlib error  *)
(* such as an I/O failure) that can only be wrapped.                       *)
(*                                                                         *)
(* A piece of client code holds error values in a few local variables      *)
(* (Handles) and performs any sequence of the package's calls on them;     *)
(* the model explores every such sequence up to the heap bound.  Messages  *)
(* and stack frames are left out: no property is about them.              *)
(***************************************************************************)
EXTENDS Naturals, FiniteSets

CONSTANTS
    Handles,          \* local variables of type Error
    Slots,            \* heap slots for errors built at run time
    Nodes,            \* nodes an error can be attributed to
    MaxIteration,     \* largest retry iteration passed to iter
    AllowRawSentinel, \* may client code use a sentinel itself as an Error?
    Nil,              \* a nil *Node
    NoErr,            \* a nil error
    Free              \* content of an unallocated slot

ASSUME /\ MaxIteration \in Nat \ {0}
       /\ AllowRawSentinel \in BOOLEAN

\* The sentinels modelled, with their result codes (error.go 487-515), and
\* one foreign error.
Sentinels == {"ErrTimeout", "ErrClusterIsEmpty"}
SentinelCode == [s \in Sentinels |->
                    IF s = "ErrTimeout" THEN "TIMEOUT" ELSE "INVALID_NODE_ERROR"]
IOErr == "ioErr"
Ids   == Sentinels \cup {IOErr} \cup Slots

\* Result codes; "OK" is the zero value of types.ResultCode.
Codes    == {"OK", "TIMEOUT", "INVALID_NODE_ERROR", "NETWORK_ERROR", "COMMON_ERROR"}
NewCodes == {"TIMEOUT", "COMMON_ERROR"}   \* codes passed to newError directly

VARIABLES
    errs,     \* Ids -> error record or Free
    local     \* Handles -> Ids \cup {NoErr}

vars == <<errs, local>>

\* An AerospikeError value; kind tells the dynamic type behind the pointer.
AE(code) == [kind |-> "AerospikeError", ResultCode |-> code, wrapped |-> NoErr,
             Node |-> Nil, InDoubt |-> FALSE, Iteration |-> 0]

SentinelInit == [s \in Sentinels |-> [AE(SentinelCode[s]) EXCEPT !.kind = "constAerospikeError"]]

IsError(h, e) == h[e].kind \in {"AerospikeError", "constAerospikeError"}

FreeIn(h) == CHOOSE s \in Slots : h[s] = Free
HasFree(h) == \E s \in Slots : h[s] = Free

\* The ids on e's wrap chain (e included).  `fuel` bounds the walk so that
\* a cyclic chain is a finite value the properties can inspect.
RECURSIVE ChainOf(_, _, _)
ChainOf(h, e, fuel) ==
    IF e = NoErr \/ fuel = 0 THEN {} ELSE {e} \cup ChainOf(h, h[e].wrapped, fuel - 1)

Fuel == Cardinality(Ids) + 1

ChainCodes(h, e) == {h[x].ResultCode : x \in {y \in ChainOf(h, e, Fuel) : IsError(h, y)}}

(***************************************************************************)
(* errors.As(err, &ae) with ae a *AerospikeError: the first link of the    *)
(* chain whose dynamic type is *AerospikeError.  A sentinel link is not    *)
(* assignable, and its promoted As method fails because the target is a    *)
(* **AerospikeError (error.go 367-371); errors.As then unwraps past it.    *)
(***************************************************************************)
RECURSIVE asAerospikeError(_, _, _)
asAerospikeError(h, e, fuel) ==
    IF e = NoErr \/ fuel = 0 THEN NoErr
    ELSE IF h[e].kind = "AerospikeError" THEN e
    ELSE asAerospikeError(h, h[e].wrapped, fuel - 1)

\* Mutant: Matches looks at the error's own code only.
MatchesNoUnwrap(h, e, rcs, fuel) == fuel > 0 /\ h[e].ResultCode \in rcs

\* Matches: own code, else recurse into the *AerospikeError found by As.
RECURSIVE matchesChain(_, _, _, _)
matchesChain(h, e, rcs, fuel) ==
    /\ fuel > 0
    /\ \/ h[e].ResultCode \in rcs
       \/ LET a == IF h[e].wrapped = NoErr THEN NoErr
                   ELSE asAerospikeError(h, h[e].wrapped, fuel)
          IN  a # NoErr /\ matchesChain(h, a, rcs, fuel - 1)

Matches(h, e, rcs) == e # NoErr /\ rcs # {} /\ matchesChain(h, e, rcs, Fuel)

\* Mutant: the node must match even when the target has none.
IsMethodNodeStrict(a, t) ==
    /\ a.ResultCode = t.ResultCode
    /\ a.Node = t.Node
    /\ t.InDoubt => a.InDoubt = t.InDoubt

\* AerospikeError.Is: same code, same node if the target has one, and the
\* same in-doubt flag if the target's is set.
IsMethod(a, t) ==
    /\ a.ResultCode = t.ResultCode
    /\ a.Node = t.Node \/ t.Node = Nil
    /\ t.InDoubt => a.InDoubt = t.InDoubt

\* errors.Is(e, target): identity, or the Is method, at some link of the
\* chain (sentinel links have the promoted Is method).
errorsIs(h, e, target) ==
    \E x \in ChainOf(h, e, Fuel) :
        x = target \/ (IsError(h, x) /\ IsMethod(h[x], h[target]))

(***************************************************************************)
(* Constructors.  Each returns the new heap and the resulting error.       *)
(***************************************************************************)
Result(h, r) == [h |-> h, r |-> r]

Alloc(h, v) == LET s == FreeIn(h) IN Result([h EXCEPT ![s] = v], s)

newError(h, code) == Alloc(h, AE(code))

\* wrap: sets the wrapped error in place.
wrap(h, e, w) == [h EXCEPT ![e].wrapped = w]

\* newErrorAndWrap / newCommonError / newWrapNetworkError: newError + wrap.
newErrorAndWrap(h, e, code) ==
    LET n == newError(h, code) IN Result(wrap(n.h, n.r, e), n.r)

\* constAerospikeError.err(): a copy of the embedded AerospikeError.
err(h, c) == Alloc(h, [h[c] EXCEPT !.kind = "AerospikeError", !.wrapped = NoErr])

\* newInvalidNodeError: ErrClusterIsEmpty for an empty cluster.
newInvalidNodeError(h, clusterSize) ==
    IF clusterSize = 0 THEN err(h, "ErrClusterIsEmpty")
    ELSE newError(h, "INVALID_NODE_ERROR")

\* newNodeError: copy of the first *AerospikeError found by errors.As (the
\* zero AerospikeError if there is none), attributed to node, wrapping err.
newNodeError(h, node, e) ==
    IF e = NoErr THEN Result(h, NoErr)
    ELSE LET a    == asAerospikeError(h, e, Fuel)
             base == IF a = NoErr THEN AE("OK") ELSE h[a]
         IN  Alloc(h, [base EXCEPT !.kind = "AerospikeError", !.Node = node,
                                   !.wrapped = e])

\* Mutant: the outer error is re-used instead of copied.
chainErrorsInPlace(h, outer, inner) ==
    IF inner = NoErr /\ outer = NoErr THEN Result(h, NoErr)
    ELSE IF inner = NoErr THEN Result(h, outer)
    ELSE IF outer = NoErr
         THEN IF IsError(h, inner) THEN Result(h, inner)
              ELSE newErrorAndWrap(h, inner, "COMMON_ERROR")
    ELSE Result([h EXCEPT ![outer].wrapped = inner], outer)

chainErrors(h, outer, inner) ==
    IF inner = NoErr /\ outer = NoErr THEN Result(h, NoErr)
    ELSE IF inner = NoErr THEN Result(h, outer)
    ELSE IF outer = NoErr
         THEN IF IsError(h, inner) THEN Result(h, inner)
              ELSE newErrorAndWrap(h, inner, "COMMON_ERROR")
    ELSE Alloc(h, [h[outer] EXCEPT !.kind = "AerospikeError", !.wrapped = inner])

(***************************************************************************)
(* The in-place setters (pointer receivers, promoted to sentinels too).    *)
(***************************************************************************)
setNode(h, e, node) == [h EXCEPT ![e].Node = node]

\* newCustomNodeError: newError, then setNode on the new error.
newCustomNodeError(h, node, code) ==
    LET n == newError(h, code) IN Result(setNode(n.h, n.r, node), n.r)

iter(h, e, i) == IF e = NoErr THEN h ELSE [h EXCEPT ![e].Iteration = i - 1]

setInDoubt(h, e, isRead, commandWasSent) ==
    IF ~isRead /\ commandWasSent THEN [h EXCEPT ![e].InDoubt = TRUE] ELSE h

markInDoubt(h, e, v) == [h EXCEPT ![e].InDoubt = v]

-----------------------------------------------------------------------------
ForeignRecord == [AE("OK") EXCEPT !.kind = "foreign"]

\* Everything reachable from the sentinels, the foreign error and the locals.
Live(h, loc) ==
    Sentinels \cup {IOErr} \cup UNION {ChainOf(h, loc[v], Fuel) : v \in Handles}

Collect(h, loc) == [x \in Ids |-> IF x \in Live(h, loc) THEN h[x] ELSE Free]

\* The Error values client code can pass: its locals, and the sentinels
\* themselves when it uses them directly.
Operands == {local[v] : v \in Handles} \cup
            (IF AllowRawSentinel THEN Sentinels ELSE {})

Init ==
    /\ errs  = [x \in Ids |-> IF x \in Sentinels THEN SentinelInit[x]
                              ELSE IF x = IOErr THEN ForeignRecord ELSE Free]
    /\ local = [v \in Handles |-> NoErr]

\* t := the result of a call that allocates nothing.
Bind(t, res) ==
    LET loc2 == [local EXCEPT ![t] = res.r] IN
    /\ local' = loc2
    /\ errs'  = Collect(res.h, loc2)

\* t := the result of a constructor; it needs a free slot of the bounded heap.
Assign(t, res) == HasFree(errs) /\ Bind(t, res)

\* chainErrors allocates when both sides are set or inner is not an Error.
chainAllocates(h, outer, inner) ==
    inner # NoErr /\ (outer # NoErr \/ ~IsError(h, inner))

\* A setter called on a local (a method call on a nil Error would panic).
Update(v, h2) ==
    /\ local[v] # NoErr
    /\ errs' = h2
    /\ UNCHANGED local

DoNewError(t, code)        == Assign(t, newError(errs, code))
DoConstErr(t, c)           == Assign(t, err(errs, c))
DoUseSentinel(t, c)        == AllowRawSentinel /\ Bind(t, Result(errs, c))
DoWrapForeign(t, code)     == Assign(t, newErrorAndWrap(errs, IOErr, code))
DoInvalidNode(t, size)     == Assign(t, newInvalidNodeError(errs, size))
DoNodeError(t, n, e)       == e # NoErr /\ Assign(t, newNodeError(errs, n, e))
DoCustomNodeError(t, n, c) == Assign(t, newCustomNodeError(errs, n, c))
DoChain(t, outer, inner)   ==
    /\ HasFree(errs) \/ ~chainAllocates(errs, outer, inner)
    /\ Bind(t, chainErrors(errs, outer, inner))
DoDrop(t)                  == Bind(t, Result(errs, NoErr))
DoSetNode(v, n)            == Update(v, setNode(errs, local[v], n))
DoIter(v, i)               == Update(v, iter(errs, local[v], i))
DoSetInDoubt(v, rd, sent)  == Update(v, setInDoubt(errs, local[v], rd, sent))
DoMarkInDoubt(v, b)        == Update(v, markInDoubt(errs, local[v], b))

Next ==
    \E t \in Handles :
        \/ \E code \in NewCodes : DoNewError(t, code)
        \/ \E c \in Sentinels : DoConstErr(t, c) \/ DoUseSentinel(t, c)
        \/ \E code \in {"TIMEOUT", "NETWORK_ERROR", "COMMON_ERROR"} : DoWrapForeign(t, code)
        \/ \E size \in {0, 1} : DoInvalidNode(t, size)
        \/ \E n \in Nodes, e \in Operands : DoNodeError(t, n, e)
        \/ \E n \in Nodes, code \in NewCodes : DoCustomNodeError(t, n, code)
        \/ \E o \in Operands, i \in Operands \cup {IOErr} : DoChain(t, o, i)
        \/ DoDrop(t)
        \/ \E n \in Nodes : DoSetNode(t, n)
        \/ \E i \in 1..MaxIteration : DoIter(t, i)
        \/ \E rd, sent \in BOOLEAN : DoSetInDoubt(t, rd, sent)
        \/ \E b \in BOOLEAN : DoMarkInDoubt(t, b)

Spec == Init /\ [][Next]_vars

-----------------------------------------------------------------------------
ErrorRecord ==
    [kind : {"AerospikeError", "constAerospikeError", "foreign"},
     ResultCode : Codes, wrapped : Ids \cup {NoErr}, Node : Nodes \cup {Nil},
     InDoubt : BOOLEAN, Iteration : 0..MaxIteration]

TypeOK ==
    /\ errs \in [Ids -> ErrorRecord \cup {Free}]
    /\ local \in [Handles -> Ids \cup {NoErr}]
    /\ \A v \in Handles : local[v] # NoErr => IsError(errs, local[v])

(***************************************************************************)
(* Matches(code) is true exactly when code is the result code of the error *)
(* or of an Aerospike error anywhere down its wrap chain (the contract of  *)
(* Error.Matches), whatever sequence of constructors and chainErrors calls *)
(* built the error.                                                        *)
(***************************************************************************)
MatchesChain ==
    \A v \in Handles, c \in Codes :
        local[v] # NoErr =>
            (Matches(errs, local[v], {c}) <=> c \in ChainCodes(errs, local[v]))

(***************************************************************************)
(* The sentinel check the package documents, errors.Is(err, ErrXxx), holds *)
(* exactly for the errors that carry the sentinel's code somewhere on      *)
(* their chain: no call on any error changes what a sentinel matches.      *)
(***************************************************************************)
SentinelIdentity ==
    \A v \in Handles, c \in Sentinels :
        local[v] # NoErr =>
            (errorsIs(errs, local[v], c) <=> SentinelCode[c] \in ChainCodes(errs, local[v]))

(***************************************************************************)
(* No error wraps itself: every wrap chain ends (Matches, Error() and      *)
(* Trace() recurse down it).  chainErrors and newNodeError copy the outer  *)
(* error for this.                                                         *)
(***************************************************************************)
AcyclicChains ==
    \A x \in Ids :
        errs[x] # Free => x \notin ChainOf(errs, errs[x].wrapped, Fuel)

=============================================================================
