--------------------------- MODULE MCPartitionMap ---------------------------
(* Model-checking instance of PartitionMap, constants from the cfg; the    *)
(* heap has a slot per namespace, one for the table tend is building and  *)
(* one per command.                                                        *)
EXTENDS PartitionMap, TLC

MCObjs == 1..(Cardinality(Namespaces) + 1 + Cardinality(Readers))
=============================================================================
