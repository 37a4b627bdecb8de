SPECIFICATION Spec
CONSTANTS
    None = none
    a = a
    p = p
    q = q
    pi = pi
    c1 = c1
    Ids <- MCIds
    Harnesses = {pi, codex}
    Pi = pi
    Profiles = {}
    Machines = {m1, m2}
    Kinds = {"skill", "extension", "instruction"}
    Contents = {c1}
    Starters <- MCStarters
    MaxHistory = 6
    MaxEdits = 3
CHECK_DEADLOCK FALSE
INVARIANT TypeOK
PROPERTY PublishedStays
PROPERTY NoEditLost
PROPERTY GraftsAreSelective
SYMMETRY Symmetry
