\* A linear (base 5, 3 buckets) or exponential (base 2, 4 buckets) histogram,
\* up to three samples between Resets.
SPECIFICATION Spec
INVARIANT TypeOK
INVARIANT MinMaxTrack
INVARIANT BucketsMatchSamples
