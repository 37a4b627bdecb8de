SPECIFICATION FairSpec
CONSTANTS
    None = none
    Torn = torn
    Objects = {o1, o2}
    TearWrites = TRUE
    MaxEdits = 2
    MaxCrashes = 3
INVARIANT Ordered
INVARIANT JournalHonest
PROPERTY NeverRegresses
PROPERTY Converges
