------------------------ MODULE MCPartitionMapModes -------------------------
(***************************************************************************)
(* Tend and commands on one namespace, without Close, in three settings;  *)
(* the setting is fixed in the initial state and only its instance moves: *)
(*   - TD: tend alone on two partitions, regimes 0..2, two reports a       *)
(*     tick, so that a stale report follows a fresh one within a tick and  *)
(*     across ticks;                                                       *)
(*   - AP: tend and a command, the namespace in AP mode (master-proles     *)
(*     routing falls back to replicas);                                    *)
(*   - SC: the same in strong-consistency mode (no fallback), one report a *)
(*     tick (enough to leave a replica set and the master unset).          *)
(***************************************************************************)
EXTENDS Naturals

CONSTANTS ns1, n1, n2, r1, Nil, NoObj, Free

VARIABLES mode,
          tHeap, tPm, tActive, tTend, tReaders, tCluster, tCloser, tValidation, tFrozen,
          aHeap, aPm, aActive, aTend, aReaders, aCluster, aCloser, aValidation, aFrozen,
          sHeap, sPm, sActive, sTend, sReaders, sCluster, sCloser, sValidation, sFrozen

TD == INSTANCE PartitionMap WITH
        Namespaces <- {ns1}, SCNamespaces <- {}, Nodes <- {n1, n2}, Readers <- {},
        Objs <- 1..2, MaxReplicas <- 2, MaxRegime <- 2, MaxReports <- 2, PARTITIONS <- 2,
        heap <- tHeap, pm <- tPm, active <- tActive, tend <- tTend, readers <- tReaders,
        cluster <- tCluster, closer <- tCloser, validation <- tValidation, frozen <- tFrozen
AP == INSTANCE PartitionMap WITH
        Namespaces <- {ns1}, SCNamespaces <- {}, Nodes <- {n1, n2}, Readers <- {r1},
        Objs <- 1..3, MaxReplicas <- 2, MaxRegime <- 1, MaxReports <- 2, PARTITIONS <- 1,
        heap <- aHeap, pm <- aPm, active <- aActive, tend <- aTend, readers <- aReaders,
        cluster <- aCluster, closer <- aCloser, validation <- aValidation, frozen <- aFrozen
SC == INSTANCE PartitionMap WITH
        Namespaces <- {ns1}, SCNamespaces <- {ns1}, Nodes <- {n1, n2}, Readers <- {r1},
        Objs <- 1..3, MaxReplicas <- 2, MaxRegime <- 1, MaxReports <- 1, PARTITIONS <- 1,
        heap <- sHeap, pm <- sPm, active <- sActive, tend <- sTend, readers <- sReaders,
        cluster <- sCluster, closer <- sCloser, validation <- sValidation, frozen <- sFrozen

tvars == <<tHeap, tPm, tActive, tTend, tReaders, tCluster, tCloser, tValidation, tFrozen>>
avars == <<aHeap, aPm, aActive, aTend, aReaders, aCluster, aCloser, aValidation, aFrozen>>
svars == <<sHeap, sPm, sActive, sTend, sReaders, sCluster, sCloser, sValidation, sFrozen>>

Init == mode \in {"TD", "AP", "SC"} /\ TD!Init /\ AP!Init /\ SC!Init

Next ==
    \/ mode = "TD" /\ TD!NextNoClose /\ UNCHANGED <<mode, avars, svars>>
    \/ mode = "AP" /\ AP!NextNoClose /\ UNCHANGED <<mode, tvars, svars>>
    \/ mode = "SC" /\ SC!NextNoClose /\ UNCHANGED <<mode, tvars, avars>>

Spec == Init /\ [][Next]_<<mode, tvars, avars, svars>>

TypeOK == TD!TypeOK

(***************************************************************************)
(* With stale and fresh reports over many ticks (TD), no partition's      *)
(* regime goes down from one published table of the namespace to the      *)
(* next: a stale node report applied by a later tick never overwrites a   *)
(* fresher assignment (clone keeps the regimes, applyRegimeUpdate fences). *)
(***************************************************************************)
RegimeMonotone == TD!RegimeMonotone

(***************************************************************************)
(* Over two partitions (TD), once validate reported no error, every      *)
(* published table has a master for every partition until the next      *)
(* validate, across the ticks that replace tables meanwhile.              *)
(***************************************************************************)
ValidateSound == TD!ValidateSound

(***************************************************************************)
(* In either mode, tend, partitionMap.get/set and the routing lookups      *)
(* implement the atomic map: whole, regime-fenced tables of the namespace's *)
(* mode, and a command routed on the table it fetched to a live node the   *)
(* table names (the master only in strong-consistency mode).               *)
(***************************************************************************)
AtomicRefinement == AP!AtomicRefinement /\ SC!AtomicRefinement

=============================================================================
