SPECIFICATION Spec
CONSTANTS
    None = none
    Machines = {m1, m2}
    Assets = {a, b}
    Contents = {c, d}
    Backends = {"git", "exchange"}
    MaxHistory = 3
    MaxAdopts = 3
    MaxCrashes = 1
SYMMETRY Symmetry
INVARIANT NoLostUpdate
INVARIANT CommitOrder
INVARIANT BaseIsAncestor
