\* Two wizards, the user reloads, edits and removes, one restart.
SPECIFICATION FairSpec
CONSTANTS
    None = None
    f1 = f1
    f2 = f2
    Flows <- MCTwoFlows
    BadSeeds <- MCSecondSeed
    MaxTouches = 4
    MaxRestarts = 1
INVARIANTS
    TypeOK
    PlaintextNeverStored
    CoordinatorIsWhole
PROPERTIES
    EntryNeverReplaced
    RetryEndsWell
