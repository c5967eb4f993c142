----------------------------- MODULE MCRandRead -----------------------------
(* Model-checking instance of RandRead.                                    *)
EXTENDS RandRead, TLC
=============================================================================
