------------------------------ MODULE RandRead ------------------------------
(***************************************************************************)
(* Xor128Rand.Read (types/rand/xor_shift128.go 50-56): fill p with random  *)
(* bytes, as io.Reader.  Each iteration writes binary.PutUvarint(p[i:],    *)
(* r.Uint64()): the varint of a uint64 takes 1 to 10 bytes (7 bits per    *)
(* byte), and PutUvarint panics with an index out of range when p[i:] is   *)
(* shorter than that.  The generator's 128-bit state and its output are    *)
(* abstracted to the varint length of each output, any of 1..10.          *)
(***************************************************************************)
EXTENDS Naturals, FiniteSets

CONSTANTS
    Lens    \* the buffer lengths Read is called with

VARIABLES
    pc,       \* "idle", "loop", "done" or "panic"
    len,      \* len(p) of the current call
    i,        \* the loop index
    written,  \* indices of p written by this call
    n         \* the count Read returned

vars == <<pc, len, i, written, n>>

VarintLens == 1..10

Init ==
    /\ pc = "idle" /\ len = 0 /\ i = 0 /\ written = {} /\ n = 0

\* l := len(p) / 8; i := 0
ReadStart(L) ==
    /\ pc \in {"idle", "done"}
    /\ pc' = "loop" /\ len' = L /\ i' = 0 /\ written' = {} /\ n' = 0

\* One iteration: PutUvarint of a k-byte varint at p[i:], then i += 8.
ReadStep(k) ==
    /\ pc = "loop"
    /\ i < len \div 8
    /\ IF i + k > len
       THEN pc' = "panic" /\ UNCHANGED <<i, written>>
       ELSE written' = written \cup (i..(i + k - 1)) /\ i' = i + 8 /\ UNCHANGED pc
    /\ UNCHANGED <<len, n>>

\* The loop ends; Read returns len(p), nil.
ReadEnd ==
    /\ pc = "loop"
    /\ i >= len \div 8
    /\ pc' = "done" /\ n' = len
    /\ UNCHANGED <<len, i, written>>

Next ==
    \/ \E L \in Lens : ReadStart(L)
    \/ \E k \in VarintLens : ReadStep(k)
    \/ ReadEnd

\* A Read in progress keeps running: its goroutine is not preempted forever.
Spec == Init /\ [][Next]_vars /\ WF_vars(ReadEnd \/ \E k \in VarintLens : ReadStep(k))

-----------------------------------------------------------------------------
(***************************************************************************)
(* io.Reader contract: every call to Read returns, and returns n with the  *)
(* first n bytes of p written by this call.  Both ways the loop can break  *)
(* it are reached: a loop bound (len(p)/8) that disagrees with the step    *)
(* (8), and PutUvarint indexing past p when the varint needs more bytes    *)
(* than are left (a panic, after which the call never returns).            *)
(***************************************************************************)
ReadReturnsFilled == pc = "loop" ~> (pc = "done" /\ written = 0..(n - 1))

=============================================================================
