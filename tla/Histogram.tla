----------------------------- MODULE Histogram ------------------------------
(***************************************************************************)
(* The generic Histogram[T] of package histogram (the second half of      *)
(* types/rand/xor_shift128.go), instantiated with T = int: one histogram   *)
(* and any sequence of Add and Reset calls on it.                          *)
(*                                                                         *)
(* Add's slot computation is kept as the code does it: Go's truncating     *)
(* integer division for a linear histogram, and float64 Log(v)/Log(base)   *)
(* for an exponential one.  The float quotient is the integer logarithm,   *)
(* except at the powers of the base where IEEE-754 rounding puts it just   *)
(* below the integer (LogBelow, e.g. Log(1000)/Log(10) = 2.9999999999999996*)
(* ); Log of zero or of a negative value is -Inf or NaN, whose conversion  *)
(* to int is negative on the supported platforms, hence bucket 0.         *)
(* A ghost sequence `samples` records what was added since the last Reset. *)
(***************************************************************************)
EXTENDS Integers, Sequences, FiniteSets

CONSTANTS
    HType,      \* "Linear" or "Exponential"
    Base,       \* h.base
    NBuckets,   \* len(h.Buckets)
    Values,     \* the values Add may be called with
    MaxCount,   \* bound on the samples added between two Resets
    LogBelow    \* values v with float64 Log(v)/Log(Base) below the true integer log

ASSUME /\ HType \in {"Linear", "Exponential"}
       /\ Base \in Nat /\ Base >= 2
       /\ NBuckets \in Nat \ {0}
       /\ Values \subseteq Int
       /\ MaxCount \in Nat \ {0}
       /\ LogBelow \subseteq Values

VARIABLES Buckets, Min, Max, Sum, Count, samples

vars == <<Buckets, Min, Max, Sum, Count, samples>>

\* Go's integer division truncates toward zero.
GoDiv(a, b) == IF a >= 0 THEN a \div b ELSE -((-a) \div b)

Pow(b, k) == IF k = 0 THEN 1 ELSE b ^ k

\* floor(log_b(v)) for v >= 1.
RECURSIVE ILog(_, _)
ILog(v, b) == IF v < b THEN 0 ELSE 1 + ILog(v \div b, b)

\* Mutant: math.Ceil in place of math.Floor.
slotRoundedUp(v) ==
    IF HType = "Linear" THEN GoDiv(v + Base - 1, Base)
    ELSE IF v <= 0 THEN -1
    ELSE IF v = 1 THEN 0 ELSE ILog(v - 1, Base) + 1

\* The slot Add computes before clamping (Go indices are 0-based).
slot(v) ==
    IF HType = "Linear" THEN GoDiv(v, Base)
    ELSE IF v <= 0 THEN -1
    ELSE ILog(v, Base) - (IF v \in LogBelow THEN 1 ELSE 0)

\* The bucket index Add increments: the slot clamped to the buckets.
clamp(s) == IF s >= NBuckets THEN NBuckets - 1 ELSE IF s < 0 THEN 0 ELSE s

\* Upper edge of bucket i: what Median returns for it.
Edge(i) == IF HType = "Linear" THEN (i + 1) * Base ELSE Pow(Base, i + 1)

\* Median: the first bucket (0-based i) at which the running count reaches
\* Count/2; Max if none does.
RECURSIVE medianFrom(_, _, _)
medianFrom(i, s, c) ==
    IF i >= NBuckets THEN Max
    ELSE LET s2 == s + Buckets[i + 1] IN
         IF s2 >= c THEN Edge(i) ELSE medianFrom(i + 1, s2, c)

Median == medianFrom(0, 0, Count \div 2)

Init ==
    /\ Buckets = [i \in 1..NBuckets |-> 0]
    /\ Min = 0 /\ Max = 0 /\ Sum = 0 /\ Count = 0
    /\ samples = <<>>

\* Mutant: Min and Max are not initialised from the first sample.
AddNoFirstSample(v) ==
    /\ Count < MaxCount
    /\ IF v > Max THEN Max' = v /\ Min' = Min
       ELSE IF v < Min THEN Min' = v /\ Max' = Max
       ELSE UNCHANGED <<Min, Max>>
    /\ Sum' = Sum + v
    /\ Count' = Count + 1
    /\ Buckets' = [Buckets EXCEPT ![clamp(slot(v)) + 1] = @ + 1]
    /\ samples' = Append(samples, v)

Add(v) ==
    /\ Count < MaxCount
    /\ IF Count = 0 THEN Max' = v /\ Min' = v
       ELSE IF v > Max THEN Max' = v /\ Min' = Min
       ELSE IF v < Min THEN Min' = v /\ Max' = Max
       ELSE UNCHANGED <<Min, Max>>
    /\ Sum' = Sum + v
    /\ Count' = Count + 1
    /\ Buckets' = [Buckets EXCEPT ![clamp(slot(v)) + 1] = @ + 1]
    /\ samples' = Append(samples, v)

\* Mutant: Reset leaves Count alone.
ResetKeepCount ==
    /\ Buckets' = [i \in 1..NBuckets |-> 0]
    /\ Min' = 0 /\ Max' = 0 /\ Sum' = 0
    /\ samples' = <<>>
    /\ UNCHANGED Count

Reset ==
    /\ Buckets' = [i \in 1..NBuckets |-> 0]
    /\ Min' = 0 /\ Max' = 0 /\ Sum' = 0 /\ Count' = 0
    /\ samples' = <<>>

Next == Reset \/ \E v \in Values : Add(v)

Spec == Init /\ [][Next]_vars

-----------------------------------------------------------------------------
(* Reference definitions, from the bucket ranges String prints:            *)
(* linear bucket i is [i*base, (i+1)*base), exponential bucket 0 is        *)
(* [0, base) and bucket i is [base^i, base^(i+1)); the last bucket is open *)
(* above and the first takes everything below.                             *)
Lower(i) == IF HType = "Linear" THEN i * Base ELSE IF i = 0 THEN 0 ELSE Pow(Base, i)

BucketOf(v) ==
    LET below == {i \in 0..(NBuckets - 1) : Lower(i) <= v} IN
    IF below = {} THEN 0 ELSE CHOOSE i \in below : \A j \in below : j <= i

SampleSet == {samples[k] : k \in DOMAIN samples}

CountIn(P(_)) == Cardinality({k \in DOMAIN samples : P(samples[k])})

TypeOK ==
    /\ Buckets \in [1..NBuckets -> 0..MaxCount]
    /\ Count \in 0..MaxCount
    /\ samples \in Seq(Values) /\ Len(samples) = Count

(***************************************************************************)
(* Min and Max are the smallest and largest value added since the last     *)
(* Reset, whatever the order of the values (Add initialises them from the  *)
(* first sample and then moves one of them at most).                       *)
(***************************************************************************)
MinMaxTrack ==
    Count > 0 =>
        /\ Min \in SampleSet /\ \A v \in SampleSet : Min <= v
        /\ Max \in SampleSet /\ \A v \in SampleSet : v <= Max

(***************************************************************************)
(* Every bucket counts exactly the samples whose value lies in its range:  *)
(* the slot arithmetic of Add (division or logarithm, then clamping at     *)
(* both ends) agrees with the ranges the histogram reports.                *)
(***************************************************************************)
BucketsMatchSamples ==
    \A i \in 0..(NBuckets - 1) :
        Buckets[i + 1] = CountIn(LAMBDA v : BucketOf(v) = i)

(***************************************************************************)
(* Median, the upper edge of a bucket, is not below the smallest sample:   *)
(* it is at least the value of some bucket the samples reach.  Median      *)
(* starts from c = Count/2, which is 0 for a single sample.                *)
(***************************************************************************)
MedianNotBelowMin ==
    Count > 0 => Median >= Min

=============================================================================
