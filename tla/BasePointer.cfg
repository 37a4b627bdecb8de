SPECIFICATION FairSpec
CONSTANTS
    None = none
    Torn = torn
    Text = {prior, new, f1, f2}
    Prior = prior
    New = new
    MaxEdits = 3
    MaxCrashes = 3
INVARIANT ForeignKept
INVARIANT NeverMissing
INVARIANT PointerNeverDangles
PROPERTY RefinesRegister
PROPERTY Converges
