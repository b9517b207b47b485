\* Two tabs drain one dirty set.
SPECIFICATION FairSpec
\* A session that is closed does nothing more, so the bounded system may stop.
CHECK_DEADLOCK FALSE
CONSTANTS
    s1 = s1
    s2 = s2
    h1 = h1
    h2 = h2
    Sessions <- MCTwoTabs
    Households <- MCOneHome
    Recent = 2
    Kept = 4
    MaxBeats = 1
    MaxMatches = 0
    MaxFails = 0
PROPERTIES
    ReadingsReachTheTab
