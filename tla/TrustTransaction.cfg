SPECIFICATION FairSpec
CONSTANTS
    None = none
    Torn = torn
    MaxEdits = 1
    MaxCrashes = 2
INVARIANT OutcomeTrue
PROPERTY Converges
