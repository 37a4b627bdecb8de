SPECIFICATION FairSpec
CONSTANTS
    None = none
    Torn = torn
    N = 2
    MaxEdits = 1
    MaxCrashes = 2
INVARIANT ForeignKept
INVARIANT StateAgrees
PROPERTY AllOrNothing
PROPERTY Converges
