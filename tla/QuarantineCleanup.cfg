SPECIFICATION FairSpec
CONSTANTS
    RootCount = 2
    MaxMeddling = 2
    MaxCrashes = 2
INVARIANT TypeOK
PROPERTY OnlyOwnedRemoved
PROPERTY AllRootsFirst
PROPERTY Converges
