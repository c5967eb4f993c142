\* Expected violation: context.DeadlineExceeded wrapped by a caller is not
\* recognised by the == comparisons and becomes GRPC_ERROR.
CONSTANTS
    NoErr = NoErr
    Statuses <- MCStatuses
SPECIFICATION Spec
INVARIANT TimeoutClassification
