---------------------------- MODULE MCErrorModel ----------------------------
(* Model-checking instance of ErrorModel; handles, heap slots and whether  *)
(* client code passes sentinels itself come from the cfg.                  *)
EXTENDS ErrorModel, TLC
=============================================================================
