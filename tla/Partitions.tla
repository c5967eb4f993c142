----------------------------- MODULE Partitions -----------------------------
(***************************************************************************)
(* The per-namespace partition table of partitions.go as a value:          *)
(*                                                                         *)
(*   Replicas[replica][partition] -> Node   (Nil for an unresolved slot)   *)
(*   regimes[partition]                     (fencing counter)              *)
(*   SCMode                                 (strong-consistency flag)      *)
(*                                                                         *)
(* Go slices are TLA+ sequences, so every index is shifted by one:         *)
(* replica 1 here is the master row Replicas[0] of the code, partition 1   *)
(* is partition id 0.  A nil slice is the empty sequence.                  *)
(*                                                                         *)
(* Identity (the *Partitions pointer) is not part of the value: the        *)
(* modules that share tables between goroutines keep them in a heap.       *)
(***************************************************************************)
EXTENDS Naturals, Sequences, FiniteSets

CONSTANTS
    PARTITIONS,   \* _PARTITIONS: partitions per namespace (4096 in the client)
    Nil           \* a nil *Node

ASSUME PARTITIONS \in Nat \ {0}

\* make([]*Node, partitionCount)
NilRow(partitionCount) == [j \in 1..partitionCount |-> Nil]

\* newPartitions: replicaCount rows of partitionCount nil nodes, regimes 0.
newPartitions(partitionCount, replicaCount, cpMode) ==
    [Replicas |-> [i \in 1..replicaCount |-> NilRow(partitionCount)],
     SCMode   |-> cpMode,
     regimes  |-> [j \in 1..partitionCount |-> 0]]

\* Mutant: grows by one row too many.
setReplicaCountOffByOne(p, replicaCount) ==
    IF Len(p.Replicas) < replicaCount
    THEN [p EXCEPT !.Replicas =
             @ \o [i \in 1..(replicaCount - Len(@) + 1) |-> NilRow(PARTITIONS)]]
    ELSE [p EXCEPT !.Replicas = SubSeq(@, 1, replicaCount)]

\* setReplicaCount: grow by appending rows of _PARTITIONS nil nodes (note:
\* the constant, not the table's own partition count), or truncate.
setReplicaCount(p, replicaCount) ==
    IF Len(p.Replicas) < replicaCount
    THEN [p EXCEPT !.Replicas =
             @ \o [i \in 1..(replicaCount - Len(@)) |-> NilRow(PARTITIONS)]]
    ELSE [p EXCEPT !.Replicas = SubSeq(@, 1, replicaCount)]

\* clone: new outer and inner slices with the rows and the regimes copied.
clone(p) ==
    [Replicas |-> [i \in 1..Len(p.Replicas) |->
                      [j \in 1..Len(p.Replicas[i]) |-> p.Replicas[i][j]]],
     SCMode   |-> p.SCMode,
     regimes  |-> [j \in 1..Len(p.regimes) |-> p.regimes[j]]]

(***************************************************************************)
(* One replica assignment reported by a node for one partition: accepted  *)
(* only when its regime is not older than the stored one, and then it     *)
(* replaces the node of that slot and raises the stored regime.  The      *)
(* parser that does this is not among the sources; the rule is the one of *)
(* the spec (section 4.1 step 3, data-model invariant 3).                 *)
(***************************************************************************)
\* Mutant: the regime guard is dropped, every report is applied.
applyRegimeUpdateUnguarded(p, replica, partition, node, regime) ==
    [p EXCEPT !.regimes[partition]           = regime,
              !.Replicas[replica][partition] = node]

applyRegimeUpdate(p, replica, partition, node, regime) ==
    IF regime >= p.regimes[partition]
    THEN [p EXCEPT !.regimes[partition]           = regime,
                   !.Replicas[replica][partition] = node]
    ELSE p

(***************************************************************************)
(* partitionMap.validate over a view of the map (namespace -> table).      *)
(* The result is the set of errors it chains: one per wrong regime count,  *)
(* one per row of wrong length, one per namespace with unresolved masters  *)
(* (with their number), one per namespace with unresolved non-master       *)
(* slots (counting slots, not partitions, as the code does), and, when     *)
(* any of these exists, ErrInvalidPartitionMap on the outside.  The empty  *)
(* set is the nil error.                                                   *)
(***************************************************************************)
NoNamespace == "none"

ValidationError(kind, ns, n) == [kind |-> kind, ns |-> ns, n |-> n]

\* Mutant: unresolved masters alone do not make the result an error.
validateIgnoringMasters(view) ==
    LET nss == DOMAIN view
        rows(ns) == 1..Len(view[ns].Replicas)
        wrongRegimes ==
            {ValidationError("regimes", ns, Len(view[ns].regimes)) :
                ns \in {x \in nss : Len(view[x].regimes) # PARTITIONS}}
        wrongRows ==
            UNION {{ValidationError("partitions", ns, i) :
                       i \in {r \in rows(ns) : Len(view[ns].Replicas[r]) # PARTITIONS}} :
                   ns \in nss}
        nilSlots(ns, rs) ==
            UNION {{<<i, j>> : j \in {k \in 1..Len(view[ns].Replicas[i]) :
                                         view[ns].Replicas[i][k] = Nil}} :
                   i \in rs}
        masterMissing ==
            {ValidationError("master", ns, Cardinality(nilSlots(ns, rows(ns) \cap {1}))) :
                ns \in {x \in nss : nilSlots(x, rows(x) \cap {1}) # {}}}
        replicaMissing ==
            {ValidationError("replica", ns, Cardinality(nilSlots(ns, rows(ns) \ {1}))) :
                ns \in {x \in nss : nilSlots(x, rows(x) \ {1}) # {}}}
        errs == wrongRegimes \cup wrongRows
    IN  IF errs # {} \/ replicaMissing # {}
        THEN errs \cup masterMissing \cup replicaMissing
                  \cup {ValidationError("invalidPartitionMap", NoNamespace, 0)}
        ELSE {}

validate(view) ==
    LET nss == DOMAIN view
        rows(ns) == 1..Len(view[ns].Replicas)
        wrongRegimes ==
            {ValidationError("regimes", ns, Len(view[ns].regimes)) :
                ns \in {x \in nss : Len(view[x].regimes) # PARTITIONS}}
        wrongRows ==
            UNION {{ValidationError("partitions", ns, i) :
                       i \in {r \in rows(ns) : Len(view[ns].Replicas[r]) # PARTITIONS}} :
                   ns \in nss}
        nilSlots(ns, rs) ==
            UNION {{<<i, j>> : j \in {k \in 1..Len(view[ns].Replicas[i]) :
                                         view[ns].Replicas[i][k] = Nil}} :
                   i \in rs}
        masterMissing ==
            {ValidationError("master", ns, Cardinality(nilSlots(ns, rows(ns) \cap {1}))) :
                ns \in {x \in nss : nilSlots(x, rows(x) \cap {1}) # {}}}
        replicaMissing ==
            {ValidationError("replica", ns, Cardinality(nilSlots(ns, rows(ns) \ {1}))) :
                ns \in {x \in nss : nilSlots(x, rows(x) \ {1}) # {}}}
        errs == wrongRegimes \cup wrongRows
    IN  IF errs # {} \/ masterMissing # {} \/ replicaMissing # {}
        THEN errs \cup masterMissing \cup replicaMissing
                  \cup {ValidationError("invalidPartitionMap", NoNamespace, 0)}
        ELSE {}

=============================================================================
