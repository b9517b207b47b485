\* Installations of up to three sensors in any order.
SPECIFICATION Spec
CONSTANTS
    None = None
    Entities <- MCEntities
    Flows <- MCFlows
    MaxSensors = 3
CHECK_DEADLOCK FALSE
INVARIANTS
    TypeOK
    EachSensorHasItsPlace
    FoundIsTraded
    OfferedSurplusIsThere
