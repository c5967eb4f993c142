\* One namespace, two nodes, replica counts up to two; no Close.  Tend alone
\* (two partitions, regimes 0..2, two reports a tick), or tend and one
\* command on one partition with regimes 0..1, in AP mode (two reports a
\* tick) or strong-consistency mode (one report a tick).
CONSTANTS
    ns1 = ns1
    n1 = n1
    n2 = n2
    r1 = r1
    Nil = Nil
    NoObj = NoObj
    Free = Free
SPECIFICATION Spec
INVARIANT TypeOK
INVARIANT ValidateSound
PROPERTY RegimeMonotone
PROPERTY AtomicRefinement
