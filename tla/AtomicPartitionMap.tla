------------------------- MODULE AtomicPartitionMap -------------------------
(***************************************************************************)
(* What the partition map promises its readers (spec.md, section 4.1 and   *)
(* the shared-resource policy), with no tend internals: each namespace's  *)
(* table is replaced as a whole by a well-formed table whose regimes are   *)
(* not older than the ones it replaces and whose consistency mode is the   *)
(* namespace's; a command reads one whole published table and is routed   *)
(* to a live node that this table names for its partition, or gets the    *)
(* invalid-node error when there is none.                                  *)
(***************************************************************************)
EXTENDS Naturals, Sequences, FiniteSets

CONSTANTS Namespaces, SCNamespaces, Nodes, Readers,
          PARTITIONS, MaxReplicas, MaxRegime, Nil, NoTable

VARIABLES tables, active, readers

avars == <<tables, active, readers>>

\* Every table a namespace can hold: 1..MaxReplicas full rows.
TableValues ==
    [Replicas : UNION {[1..k -> [1..PARTITIONS -> Nodes \cup {Nil}]] : k \in 1..MaxReplicas},
     SCMode   : BOOLEAN,
     regimes  : [1..PARTITIONS -> 0..MaxRegime]]

\* The new table does not move any partition's regime back.
Fenced(old, new) ==
    old # NoTable => \A pid \in 1..PARTITIONS : new.regimes[pid] >= old.regimes[pid]

\* The nodes a command may be sent to, by policy.
Candidates(v, pid, policy) ==
    IF policy = "MASTER" \/ v.SCMode THEN {v.Replicas[1][pid]}
    ELSE {v.Replicas[i][pid] : i \in 1..Len(v.Replicas)}

Outcomes(v, pid, policy) ==
    LET ok == {n \in Candidates(v, pid, policy) : n # Nil /\ n \in active} IN
    IF ok # {} THEN ok
    ELSE {IF active = {} THEN "ErrClusterIsEmpty" ELSE "INVALID_NODE_ERROR"}

Init ==
    /\ tables  = [ns \in Namespaces |-> NoTable]
    /\ active  = {}
    /\ readers = [r \in Readers |-> [pc |-> "idle", ns |-> "none", pid |-> 1,
                    policy |-> "MASTER", view |-> NoTable, result |-> "none"]]

Discover ==
    /\ \E live \in SUBSET Nodes : active' = live
    /\ UNCHANGED <<tables, readers>>

Publish(ns) ==
    /\ \E v \in TableValues :
          /\ Fenced(tables[ns], v)
          /\ v.SCMode = (ns \in SCNamespaces)
          /\ tables' = [tables EXCEPT ![ns] = v]
    /\ UNCHANGED <<active, readers>>

Fetch(r, ns, pid, policy) ==
    /\ readers[r].pc = "idle"
    /\ tables[ns] # NoTable
    /\ readers' = [readers EXCEPT ![r] = [pc |-> "fetched", ns |-> ns, pid |-> pid,
                     policy |-> policy, view |-> tables[ns], result |-> "none"]]
    /\ UNCHANGED <<tables, active>>

Route(r) ==
    LET rd == readers[r] IN
    /\ rd.pc = "fetched"
    /\ \E res \in Outcomes(rd.view, rd.pid, rd.policy) :
          readers' = [readers EXCEPT ![r].pc = "idle", ![r].view = NoTable,
                                     ![r].result = res]
    /\ UNCHANGED <<tables, active>>

Next ==
    \/ Discover
    \/ \E ns \in Namespaces : Publish(ns)
    \/ \E r \in Readers :
          \/ \E ns \in Namespaces, pid \in 1..PARTITIONS, pol \in {"MASTER", "MASTER_PROLES"} :
                 Fetch(r, ns, pid, pol)
          \/ Route(r)

Spec == Init /\ [][Next]_avars

=============================================================================
