\* Client code that also passes a sentinel itself where an Error is expected:
\* two locals, two heap slots, one node, iteration 1.
CONSTANTS
    Handles = {a, b}
    Slots = {s1, s2}
    Nodes = {n1}
    MaxIteration = 1
    AllowRawSentinel = TRUE
    Nil = Nil
    NoErr = NoErr
    Free = Free
SPECIFICATION Spec
INVARIANT AcyclicChains
