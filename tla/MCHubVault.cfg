\* Three requests over an upgrade and two crashes.
SPECIFICATION FairSpec
\* Each request is made once, and then nothing more happens.
CHECK_DEADLOCK FALSE
CONSTANTS
    None = None
    r1 = r1
    r2 = r2
    r3 = r3
    seedA = seedA
    seedB = seedB
    long1 = long1
    long2 = long2
    short = short
    Requests <- MCRequests
    Secrets <- MCSecrets
    Passphrases <- MCPassphrases
    TooShort <- MCTooShort
    MaxCrashes = 2
INVARIANTS
    TypeOK
    ServingIsComplete
PROPERTIES
    UnlockReturnsStored
    StartupCompletes
