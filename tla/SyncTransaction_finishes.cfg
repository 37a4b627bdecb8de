SPECIFICATION FairSpec
CONSTANTS
    None = none
    Machines = {m1, m2}
    Assets = {a}
    Contents = {c, d}
    Backends = {"git", "park"}
    MaxHistory = 2
    MaxAdopts = 2
    MaxCrashes = 2
PROPERTY Finishes
PROPERTY EditsKept
