\* Close clears tables in place that an in-flight command still holds.
CONSTANTS
    Nodes = {n1, n2}
    MaxReplicas = 2
    Nil = Nil
    NoObj = NoObj
    Free = Free
    Objs <- MCObjs
    Namespaces = {ns1}
    SCNamespaces = {ns1}
    Readers = {r1}
    PARTITIONS = 1
    MaxRegime = 1
    MaxReports = 2
SPECIFICATION Spec
\* After Close the tend goroutine is gone and no command starts: the system stops.
CHECK_DEADLOCK FALSE
INVARIANT ReadersSeePublishedValue
