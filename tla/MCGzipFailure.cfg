SPECIFICATION Spec
CONSTANTS
    Limits = {2, 4, 5}
    MaxInt = 5
    MaxUnits = 4
    Statuses <- MCStatuses
    Codings <- MCHonestCodings
INVARIANT GzipFailurePassesThrough
