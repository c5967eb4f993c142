---------------------------- MODULE PartitionMap ----------------------------
(***************************************************************************)
(* The cluster's partitionMap (partitions.go) shared by three kinds of     *)
(* goroutine:                                                              *)
(*   - the tend goroutine, which each tick discovers the live nodes,       *)
(*     rebuilds every namespace's table on a private copy, publishes it    *)
(*     with partitionMap.set and validates the map;                        *)
(*   - command goroutines (Readers), which fetch a namespace's *Partitions *)
(*     with partitionMap.get, keep the pointer, and later index it to      *)
(*     route the command (getMasterNode / getMasterProlesNode);            *)
(*   - Cluster.Close, which stops tend and runs partitionMap.cleanup,      *)
(*     clearing every table in place and deleting it from the map.         *)
(*                                                                         *)
(* Tables live in a heap (Objs -> value) so that the model keeps pointer   *)
(* identity: what a reader holds is a slot, and an in-place write to that  *)
(* slot is seen by it.  Unreachable slots are garbage collected (Free).    *)
(***************************************************************************)
EXTENDS Partitions

BoundedSeqOf(S, n) == UNION {[1..k -> S] : k \in 0..n}

CONSTANTS
    Namespaces,     \* namespace names
    SCNamespaces,   \* the namespaces in strong-consistency mode
    Nodes,          \* cluster nodes
    Readers,        \* command goroutines
    Objs,           \* heap slots for *Partitions values
    MaxReplicas,    \* largest replica count a node reports
    MaxRegime,      \* largest regime a node reports
    MaxReports,     \* partition assignments applied per namespace per tick
    NoObj,          \* a nil *Partitions / absent map entry
    Free            \* content of an unallocated heap slot

ASSUME /\ SCNamespaces \subseteq Namespaces
       /\ MaxReplicas \in Nat \ {0}
       /\ MaxRegime \in Nat
       /\ MaxReports \in Nat \ {0}
       \* one table per namespace, one being built, one per reader
       /\ Cardinality(Objs) >= Cardinality(Namespaces) + 1 + Cardinality(Readers)

VARIABLES
    heap,        \* Objs -> Partitions value or Free
    pm,          \* the partitionMap: Namespaces -> Objs \cup {NoObj}
    active,      \* nodes the last tend found alive (cluster.GetNodes())
    tend,        \* the tend goroutine's position in its tick
    readers,     \* Readers -> the command's routing state
    cluster,     \* "running", "closing" (cleanup under way) or "closed"
    closer,      \* cleanup's position: namespace and row being cleared
    validation,  \* result of the last validate (set of chained errors)
    frozen       \* ghost: a published table's value at publication

vars == <<heap, pm, active, tend, readers, cluster, closer, validation, frozen>>

Pids     == 1..PARTITIONS
Regimes  == 0..MaxRegime
Policies == {"MASTER", "MASTER_PROLES"}
NotValidated == {ValidationError("notValidated", NoNamespace, 0)}

\* Outcomes of routing a command: a node, or an error, or a Go runtime panic
\* (index out of range on a nil or short slice).
ErrClusterIsEmpty == "ErrClusterIsEmpty"
InvalidNodeError  == "INVALID_NODE_ERROR"
Panic             == "PANIC"
NoResult          == "none"

(***************************************************************************)
(* Heap bookkeeping: roots, garbage collection, allocation.                *)
(***************************************************************************)
Roots(pmv, tnd, rds) ==
    ({pmv[ns] : ns \in Namespaces} \cup {tnd.obj} \cup {rds[r].obj : r \in Readers})
        \ {NoObj}

Collect(h, roots) == [o \in Objs |-> IF o \in roots THEN h[o] ELSE Free]

FreeSlot == CHOOSE o \in Objs : heap[o] = Free

\* The map as validate sees it: the namespaces present and their tables.
View(pmv, h) == [ns \in {x \in Namespaces : pmv[x] # NoObj} |-> h[pmv[ns]]]

(***************************************************************************)
(* Routing (partition.go is not among the sources; the lookups follow the  *)
(* spec, section 4.2).  The error for an unresolved slot is                *)
(* newInvalidNodeError (error.go), which checks the cluster size first.    *)
(***************************************************************************)
newInvalidNodeError(clusterSize) ==
    IF clusterSize = 0 THEN ErrClusterIsEmpty ELSE InvalidNodeError

Usable(node) == node # Nil /\ node \in active

\* Replicas[0][pid]: the master or an invalid-node error.
getMasterNode(p, pid) ==
    IF Len(p.Replicas) = 0 \/ pid > Len(p.Replicas[1]) THEN Panic
    ELSE IF Usable(p.Replicas[1][pid]) THEN p.Replicas[1][pid]
    ELSE newInvalidNodeError(Cardinality(active))

\* Round robin over master and replicas from row `idx`, `left` rows to try.
RECURSIVE tryReplicas(_, _, _, _)
tryReplicas(p, pid, idx, left) ==
    IF left = 0 THEN newInvalidNodeError(Cardinality(active))
    ELSE IF pid > Len(p.Replicas[idx]) THEN Panic
    ELSE IF Usable(p.Replicas[idx][pid]) THEN p.Replicas[idx][pid]
    ELSE tryReplicas(p, pid, (idx % Len(p.Replicas)) + 1, left - 1)

\* Mutant: strong-consistency mode is not checked, so a replica is used.
getMasterProlesNodeNoSC(p, pid, start) ==
    IF Len(p.Replicas) = 0 THEN newInvalidNodeError(Cardinality(active))
    ELSE tryReplicas(p, pid, ((start - 1) % Len(p.Replicas)) + 1, Len(p.Replicas))

\* In a strong-consistency namespace there is no fallback to a replica.
getMasterProlesNode(p, pid, start) ==
    IF p.SCMode THEN getMasterNode(p, pid)
    ELSE IF Len(p.Replicas) = 0 THEN newInvalidNodeError(Cardinality(active))
    ELSE tryReplicas(p, pid, ((start - 1) % Len(p.Replicas)) + 1, Len(p.Replicas))

Route(p, pid, policy, start) ==
    IF policy = "MASTER" THEN getMasterNode(p, pid)
    ELSE getMasterProlesNode(p, pid, start)

-----------------------------------------------------------------------------
Init ==
    /\ heap       = [o \in Objs |-> Free]
    /\ pm         = [ns \in Namespaces |-> NoObj]
    /\ active     = {}
    /\ tend       = [pc |-> "idle", todo |-> {}, ns |-> NoNamespace,
                     obj |-> NoObj, reports |-> 0]
    /\ readers    = [r \in Readers |-> [pc |-> "idle", ns |-> NoNamespace,
                     pid |-> 1, policy |-> "MASTER", obj |-> NoObj,
                     result |-> NoResult]]
    /\ cluster    = "running"
    /\ closer     = [ns |-> NoNamespace, row |-> 0, phase |-> "none"]
    /\ validation = NotValidated
    /\ frozen     = [o \in Objs |-> Free]

(***************************************************************************)
(* Tend.  A tick discovers the live nodes, then for every namespace takes  *)
(* a private table (a clone of the published one, or a new one), applies   *)
(* the replica count and the nodes' partition assignments to it,           *)
(* publishes it with partitionMap.set, and finally validates the map.      *)
(***************************************************************************)
TendStart ==
    /\ cluster = "running"
    /\ tend.pc = "idle"
    /\ \E live \in SUBSET Nodes : active' = live
    /\ tend' = [tend EXCEPT !.pc = "scan", !.todo = Namespaces]
    /\ UNCHANGED <<heap, pm, readers, cluster, closer, validation, frozen>>

\* The private table for ns: never the published one.
TendBegin(ns, replicaCount) ==
    LET o    == FreeSlot
        base == IF pm[ns] = NoObj
                THEN newPartitions(PARTITIONS, replicaCount, ns \in SCNamespaces)
                ELSE clone(heap[pm[ns]])
    IN  /\ tend.pc = "scan"
        /\ ns \in tend.todo
        /\ heap' = [heap EXCEPT ![o] = setReplicaCount(base, replicaCount)]
        /\ tend' = [tend EXCEPT !.pc = "build", !.todo = @ \ {ns}, !.ns = ns,
                                !.obj = o, !.reports = 0]
        /\ UNCHANGED <<pm, active, readers, cluster, closer, validation, frozen>>

\* A live node reports that it holds `replica` of partition `pid` at `regime`.
TendApply(node, replica, pid, regime) ==
    /\ tend.pc = "build"
    /\ tend.reports < MaxReports
    /\ node \in active
    /\ replica \in 1..Len(heap[tend.obj].Replicas)
    /\ heap' = [heap EXCEPT ![tend.obj] =
                   applyRegimeUpdate(@, replica, pid, node, regime)]
    /\ tend' = [tend EXCEPT !.reports = @ + 1]
    /\ UNCHANGED <<pm, active, readers, cluster, closer, validation, frozen>>

\* partitionMap.set: the whole table replaces the old one in one store.
TendPublish ==
    LET pm2   == [pm EXCEPT ![tend.ns] = tend.obj]
        tend2 == [tend EXCEPT !.pc = "scan", !.ns = NoNamespace, !.obj = NoObj]
    IN  /\ tend.pc = "build"
        /\ pm'     = pm2
        /\ tend'   = tend2
        /\ heap'   = Collect(heap, Roots(pm2, tend2, readers))
        /\ frozen' = Collect([frozen EXCEPT ![tend.obj] = heap[tend.obj]],
                             Roots(pm2, tend2, readers))
        /\ UNCHANGED <<active, readers, cluster, closer, validation>>

TendFinish ==
    /\ tend.pc = "scan"
    /\ tend.todo = {}
    /\ validation' = validate(View(pm, heap))
    /\ tend' = [tend EXCEPT !.pc = "idle"]
    /\ UNCHANGED <<heap, pm, active, readers, cluster, closer, frozen>>

(***************************************************************************)
(* Commands.  A command fetches the namespace's table pointer when it is   *)
(* created, and indexes that same table when it picks its node.  A new    *)
(* command is only started while the cluster is open; one already in      *)
(* flight keeps running through Close.                                     *)
(***************************************************************************)
ReaderGet(r, ns, pid, policy) ==
    /\ cluster = "running"
    /\ readers[r].pc = "idle"
    /\ pm[ns] # NoObj
    /\ readers' = [readers EXCEPT ![r] = [pc |-> "fetched", ns |-> ns,
                      pid |-> pid, policy |-> policy, obj |-> pm[ns],
                      result |-> NoResult]]
    /\ UNCHANGED <<heap, pm, active, tend, cluster, closer, validation, frozen>>

\* `start` stands for the shared round-robin counter, which other commands
\* advance concurrently.
ReaderRoute(r, start) ==
    LET rd   == readers[r]
        rds2 == [readers EXCEPT ![r].pc = "idle", ![r].obj = NoObj,
                     ![r].result = Route(heap[rd.obj], rd.pid, rd.policy, start)]
    IN  /\ rd.pc = "fetched"
        /\ readers' = rds2
        /\ heap'    = Collect(heap, Roots(pm, tend, rds2))
        /\ frozen'  = Collect(frozen, Roots(pm, tend, rds2))
        /\ UNCHANGED <<pm, active, tend, cluster, closer, validation>>

(***************************************************************************)
(* Close: the tend goroutine is stopped between ticks, then cleanup ranges *)
(* over the map and, for each namespace, nils every slot of every row,     *)
(* nils the row, then nils Replicas and regimes and deletes the entry.     *)
(***************************************************************************)
ClusterClose ==
    /\ cluster = "running"
    /\ tend.pc = "idle"
    /\ cluster' = "closing"
    /\ UNCHANGED <<heap, pm, active, tend, readers, closer, validation, frozen>>

CleanupVisit(ns) ==
    /\ cluster = "closing"
    /\ closer.ns = NoNamespace
    /\ pm[ns] # NoObj
    /\ closer' = [ns |-> ns, row |-> 1, phase |-> "slots"]
    /\ UNCHANGED <<heap, pm, active, tend, readers, cluster, validation, frozen>>

CleanupClearSlots ==
    LET o == pm[closer.ns] IN
    /\ closer.ns # NoNamespace
    /\ closer.phase = "slots"
    /\ closer.row <= Len(heap[o].Replicas)
    /\ heap' = [heap EXCEPT ![o].Replicas[closer.row] =
                   [j \in DOMAIN @ |-> Nil]]
    /\ closer' = [closer EXCEPT !.phase = "row"]
    /\ UNCHANGED <<pm, active, tend, readers, cluster, validation, frozen>>

CleanupNilRow ==
    LET o == pm[closer.ns] IN
    /\ closer.phase = "row"
    /\ heap' = [heap EXCEPT ![o].Replicas[closer.row] = <<>>]
    /\ closer' = [closer EXCEPT !.row = @ + 1, !.phase = "slots"]
    /\ UNCHANGED <<pm, active, tend, readers, cluster, validation, frozen>>

CleanupDelete ==
    LET o   == pm[closer.ns]
        pm2 == [pm EXCEPT ![closer.ns] = NoObj]
        h2  == [heap EXCEPT ![o].Replicas = <<>>, ![o].regimes = <<>>]
    IN  /\ closer.ns # NoNamespace
        /\ closer.phase = "slots"
        /\ closer.row > Len(heap[o].Replicas)
        /\ pm'     = pm2
        /\ heap'   = Collect(h2, Roots(pm2, tend, readers))
        /\ frozen' = Collect(frozen, Roots(pm2, tend, readers))
        /\ closer' = [ns |-> NoNamespace, row |-> 0, phase |-> "none"]
        /\ UNCHANGED <<active, tend, readers, cluster, validation>>

CloseDone ==
    /\ cluster = "closing"
    /\ closer.ns = NoNamespace
    /\ \A ns \in Namespaces : pm[ns] = NoObj
    /\ cluster' = "closed"
    /\ UNCHANGED <<heap, pm, active, tend, readers, closer, validation, frozen>>

-----------------------------------------------------------------------------
TendNext ==
    \/ TendStart
    \/ \E ns \in Namespaces, rc \in 1..MaxReplicas : TendBegin(ns, rc)
    \/ \E n \in Nodes, rep \in 1..MaxReplicas, pid \in Pids, g \in Regimes :
           TendApply(n, rep, pid, g)
    \/ TendPublish
    \/ TendFinish

ReaderNext ==
    \E r \in Readers :
        \/ \E ns \in Namespaces, pid \in Pids, pol \in Policies :
               ReaderGet(r, ns, pid, pol)
        \/ \E start \in 1..MaxReplicas : ReaderRoute(r, start)

CloseNext ==
    \/ ClusterClose
    \/ \E ns \in Namespaces : CleanupVisit(ns)
    \/ CleanupClearSlots
    \/ CleanupNilRow
    \/ CleanupDelete
    \/ CloseDone

Next == TendNext \/ ReaderNext \/ CloseNext

\* The tend goroutine runs on a ticker for the cluster's lifetime, a routed
\* command finishes its lookup, and a started Close runs cleanup to the end;
\* nobody is obliged to call Close.
Fairness ==
    /\ WF_vars(TendNext)
    /\ \A r \in Readers : WF_vars(\E start \in 1..MaxReplicas : ReaderRoute(r, start))
    /\ WF_vars(CloseNext /\ ~ClusterClose)

Spec == Init /\ [][Next]_vars /\ Fairness

\* The same system when Close is never called.
NextNoClose == TendNext \/ ReaderNext
SpecNoClose == Init /\ [][NextNoClose]_vars /\ WF_vars(TendNext)

-----------------------------------------------------------------------------
Row == UNION {[1..k -> Nodes \cup {Nil}] : k \in 0..PARTITIONS}
PartitionsValue ==
    [Replicas : BoundedSeqOf(Row, MaxReplicas), SCMode : BOOLEAN,
     regimes  : UNION {[1..k -> Regimes] : k \in {0, PARTITIONS}}]

TypeOK ==
    /\ heap \in [Objs -> PartitionsValue \cup {Free}]
    /\ pm \in [Namespaces -> Objs \cup {NoObj}]
    /\ \A ns \in Namespaces : pm[ns] # NoObj => heap[pm[ns]] # Free
    /\ active \subseteq Nodes
    /\ tend.pc \in {"idle", "scan", "build"}
    /\ tend.reports \in 0..MaxReports
    /\ \A r \in Readers : readers[r].result \in
           Nodes \cup {ErrClusterIsEmpty, InvalidNodeError, Panic, NoResult}
    /\ cluster \in {"running", "closing", "closed"}

(***************************************************************************)
(* Regime fencing: for every namespace that stays in the map, no           *)
(* partition's regime ever goes down from one published table to the      *)
(* next.  This is what keeps a stale node's report, applied by a later    *)
(* tick, from overwriting a fresher assignment; it needs tend to start     *)
(* from a clone that keeps the regimes and to apply the regime guard.      *)
(***************************************************************************)
RegimeMonotone ==
    [][\A ns \in Namespaces :
          (pm[ns] # NoObj /\ pm'[ns] # NoObj) =>
              LET old == heap[pm[ns]].regimes
                  new == heap'[pm'[ns]].regimes
              IN  \A pid \in DOMAIN old \cap DOMAIN new : new[pid] >= old[pid]]_vars

(***************************************************************************)
(* A command that fetched a table with partitionMap.get and has not yet    *)
(* routed sees exactly the table that was published: no write of tend or  *)
(* of anyone else reaches a table after partitionMap.set made it visible   *)
(* (the spec: readers see the old or the fully built new value, never an   *)
(* intermediate one).                                                      *)
(***************************************************************************)
ReadersSeePublishedValue ==
    \A r \in Readers :
        readers[r].pc = "fetched" => heap[readers[r].obj] = frozen[readers[r].obj]

(***************************************************************************)
(* While the cluster runs, once validate has reported no error every       *)
(* namespace in the map has a master for every partition, also after the   *)
(* later ticks that replaced tables since.                                  *)
(***************************************************************************)
ValidateSound ==
    (cluster = "running" /\ validation = {}) =>
        \A ns \in Namespaces : pm[ns] # NoObj =>
            LET p == heap[pm[ns]] IN
            /\ Len(p.Replicas) >= 1
            /\ \A pid \in Pids : pid <= Len(p.Replicas[1]) /\ p.Replicas[1][pid] # Nil

-----------------------------------------------------------------------------
(***************************************************************************)
(* Refinement.  The abstract table of a namespace is the value of the      *)
(* published slot; a command's view is the value of the slot it fetched.   *)
(* Building a table in a private slot, validate, and garbage collection    *)
(* are stuttering steps of the abstract map.                              *)
(***************************************************************************)
Atomic == INSTANCE AtomicPartitionMap WITH
    NoTable <- NoObj,
    tables  <- [ns \in Namespaces |-> IF pm[ns] = NoObj THEN NoObj ELSE heap[pm[ns]]],
    readers <- [r \in Readers |->
                  [pc |-> readers[r].pc, ns |-> readers[r].ns, pid |-> readers[r].pid,
                   policy |-> readers[r].policy, result |-> readers[r].result,
                   view |-> IF readers[r].pc = "fetched" THEN heap[readers[r].obj]
                            ELSE NoObj]]

(***************************************************************************)
(* The tend goroutine, partitionMap.get/set and the routing lookups,       *)
(* interleaved in any order, implement the atomic map: every table a      *)
(* command can fetch is well-formed, regime-fenced and of the namespace's  *)
(* mode, a command keeps seeing the table it fetched, and it is routed to  *)
(* a live node that table names for its partition.                         *)
(***************************************************************************)
AtomicRefinement == Atomic!Spec

=============================================================================
