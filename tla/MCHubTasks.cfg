\* Two outages, one more start.
SPECIFICATION Spec
CONSTANTS
    MaxOutages = 2
    MaxStarts = 1
CHECK_DEADLOCK FALSE
INVARIANTS
    TypeOK
    ReturningIsClean
PROPERTIES
    StopEndsWithoutBroker
    PriceKeepsComing
