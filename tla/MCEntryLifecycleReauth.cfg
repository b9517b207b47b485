\* A user who only answers the reauth form.
SPECIFICATION FairSpec
CONSTANTS
    None = None
    f1 = f1
    f2 = f2
    Flows <- MCOneFlow
    BadSeeds <- MCNoSeed
    MaxTouches = 0
    MaxRestarts = 0
PROPERTIES
    UnlockedSeedIsPickedUp
