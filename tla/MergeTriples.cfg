SPECIFICATION TripleSpec
CONSTANTS
    None = none
    a = a
    p = p
    q = q
    codex = codex
    pi = pi
    w = w
    x = x
    y = y
    s1 = s1
    s2 = s2
    Ids <- MCIds
    Harnesses <- MCHarnesses
    Pi = pi
    Profiles = {w}
    AssetKinds <- MCKinds
    Revisions = {x, y}
    Sources = {s1, s2}
    Values = {x, y}
    Families <- MCFamilies
CHECK_DEADLOCK FALSE
INVARIANT MergeIsThreeWay
INVARIANT SidesAreEqual
INVARIANT OrderDoesNotMatter
INVARIANT MergedIsFinal
