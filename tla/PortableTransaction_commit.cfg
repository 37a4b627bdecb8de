SPECIFICATION FairSpec
CONSTANTS
    None = none
    Torn = torn
    Kinds = {"adopt", "repair", "manifest", "lock", "update", "explicit"}
    MaxEdits = 1
    MaxCrashes = 2
INVARIANT Coherent
INVARIANT NoFalseReceipt
PROPERTY CommitsInOrder
PROPERTY NothingLost
PROPERTY Converges
