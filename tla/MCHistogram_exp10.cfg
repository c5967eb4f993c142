\* NewExponential(10, 4): [0,10) [10,100) [100,1000) [1000,inf).
\* float64 Log(1000)/Log(10) = 2.9999999999999996, so 1000 is in LogBelow.
CONSTANTS
    HType = "Exponential"
    Base = 10
    NBuckets = 4
    Values = {0, 10, 100, 999, 1000}
    MaxCount = 2
    LogBelow = {1000}
SPECIFICATION Spec
INVARIANT BucketsMatchSamples
