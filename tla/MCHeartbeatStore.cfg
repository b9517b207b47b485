\* Pruning at its smallest setting, the hour of the aggregate; one restart.
SPECIFICATION Spec
\* The clock is bounded, and then nothing more happens.
CHECK_DEADLOCK FALSE
CONSTANTS
    h1 = h1
    h2 = h2
    Households <- MCOneHome
    Registered <- MCOneHome
    Keep = 2
    Window = 2
    PruneEvery = 2
    MaxTime = 8
    MaxCrashes = 1
    MaxInbox = 2
INVARIANTS
    TypeOK
    RowsAreCovered
    OldRowsGo
PROPERTIES
    PruneSparesTheHour
