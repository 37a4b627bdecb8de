SPECIFICATION Spec
CONSTANTS
    None = none
    Torn = torn
    Objects = {o1}
    TearWrites = FALSE
    MaxEdits = 1
    MaxCrashes = 1
INVARIANT ForeignKept
