\* Client code that takes sentinels only through err(), as the package does:
\* two locals, three heap slots, one node, iteration 1.
CONSTANTS
    Handles = {a, b}
    Slots = {s1, s2, s3}
    Nodes = {n1}
    MaxIteration = 1
    AllowRawSentinel = FALSE
    Nil = Nil
    NoErr = NoErr
    Free = Free
SPECIFICATION Spec
 
INVARIANT MatchesChain
INVARIANT AcyclicChains
