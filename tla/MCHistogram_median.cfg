\* NewLinear(5, 3) as in the linear run: the median of few samples.
CONSTANTS
    HType = "Linear"
    Base = 5
    NBuckets = 3
    Values <- MCLinearValues
    MaxCount = 3
    LogBelow = {}
SPECIFICATION Spec
INVARIANT MedianNotBelowMin
