\* One tab and a reconnect, two households, more matches than the query returns.
SPECIFICATION FairSpec
\* A session that is closed does nothing more, so the bounded system may stop.
CHECK_DEADLOCK FALSE
CONSTANTS
    s1 = s1
    s2 = s2
    h1 = h1
    h2 = h2
    Sessions <- MCOneTab
    Households <- MCTwoHomes
    Recent = 2
    Kept = 4
    MaxBeats = 1
    MaxMatches = 3
    MaxFails = 1
INVARIANTS
    TypeOK
    EveryMatchListedOnce
    NothingUntracked
PROPERTIES
    ReadingsReachTheTab
