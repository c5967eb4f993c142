\* Expected violation: statuses -6, -13, -14 and below -16 keep types.OK.
CONSTANTS
    NoErr = NoErr
    Statuses <- MCStatuses
SPECIFICATION Spec
INVARIANT NegativeStatusNotOK
