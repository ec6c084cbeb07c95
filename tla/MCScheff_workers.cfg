CONSTANTS
    NWorkers = 3
    Tasks = {a, b, c}
    NULL = null
    MaxScheduled = 3
    MaxRequests = 3
SPECIFICATION Spec
SYMMETRY Symmetry
INVARIANT TypeOK
INVARIANT NeverResumesFinished
INVARIANT TasksAtOnePlace
INVARIANT ExitsOnlyWhenDone
