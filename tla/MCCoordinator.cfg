\* Two offers, one restart.
SPECIFICATION FairSpec
CONSTANTS
    None = None
    Devices = {"unreadable", "export", "import"}
    Interval = 1
    MaxOffers = 2
    MaxCopies = 2
    MaxSettled = 1
    MaxRestarts = 1
INVARIANTS
    TypeOK
    SentOnlyAnchored
    MatchNotForgotten
PROPERTIES
    AnchorsSpacedUnlessFailed
    SurplusIsOffered
