------------------------- MODULE MCHistogramKinds ---------------------------
(***************************************************************************)
(* A histogram of either kind, Histogram[int] from NewLinear(5, 3) or     *)
(* NewExponential(2, 4), checked in one run: the kind is fixed when the    *)
(* histogram is created and only that histogram's Add and Reset are taken. *)
(***************************************************************************)
EXTENDS Integers

VARIABLES kind,
          lBuckets, lMin, lMax, lSum, lCount, lSamples,
          xBuckets, xMin, xMax, xSum, xCount, xSamples

\* Negatives, zero, both sides of every bucket edge, and overflow.
LinearValues == {-7, -3, 0, 4, 5, 12, 20}
\* Log of a negative value is NaN, of zero -Inf; then 1, the powers and
\* their neighbours, and one value past the last edge.
ExpValues == {-1, 0, 1, 2, 3, 4, 7, 8, 16}

Lin == INSTANCE Histogram WITH HType <- "Linear", Base <- 5, NBuckets <- 3,
         Values <- LinearValues, MaxCount <- 3, LogBelow <- {},
         Buckets <- lBuckets, Min <- lMin, Max <- lMax, Sum <- lSum,
         Count <- lCount, samples <- lSamples
Exp == INSTANCE Histogram WITH HType <- "Exponential", Base <- 2, NBuckets <- 4,
         Values <- ExpValues, MaxCount <- 3, LogBelow <- {},
         Buckets <- xBuckets, Min <- xMin, Max <- xMax, Sum <- xSum,
         Count <- xCount, samples <- xSamples

lvars == <<lBuckets, lMin, lMax, lSum, lCount, lSamples>>
xvars == <<xBuckets, xMin, xMax, xSum, xCount, xSamples>>

Init == kind \in {"Linear", "Exponential"} /\ Lin!Init /\ Exp!Init

Next ==
    \/ kind = "Linear" /\ Lin!Next /\ UNCHANGED <<kind, xvars>>
    \/ kind = "Exponential" /\ Exp!Next /\ UNCHANGED <<kind, lvars>>

Spec == Init /\ [][Next]_<<kind, lvars, xvars>>

TypeOK == Lin!TypeOK /\ Exp!TypeOK

(***************************************************************************)
(* Min and Max of either histogram are its smallest and largest          *)
(* sample since the last Reset (Add initialises them from the first       *)
(* sample after a Reset, then moves one of them).                          *)
(***************************************************************************)
MinMaxTrack == Lin!MinMaxTrack /\ Exp!MinMaxTrack

(***************************************************************************)
(* Every bucket of either histogram counts exactly the samples in the     *)
(* range String prints for it: Add's truncating division, or its float    *)
(* logarithm for base 2, and the clamping at both ends agree with them.   *)
(***************************************************************************)
BucketsMatchSamples == Lin!BucketsMatchSamples /\ Exp!BucketsMatchSamples


=============================================================================
