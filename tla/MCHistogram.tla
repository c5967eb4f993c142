---------------------------- MODULE MCHistogram -----------------------------
(* Model-checking instance of Histogram with T = int.                      *)
EXTENDS Histogram, TLC

\* Negatives, zero, both sides of every bucket edge, and overflow.
MCLinearValues == {-7, -3, 0, 4, 5, 12, 20}
=============================================================================
