SPECIFICATION Spec
CONSTANTS
    a = a
    b = b
    big = big
    w1 = w1
    w2 = w2
    g1 = g1
    g2 = g2
    None = None
    BriefingId = BriefingId
    Pages = {g1}
    Ids = {a}
    Heavy = {}
    Writers = {w1, w2}
    MaxEntries = 1
    TopEntries = 2
    MaxCaptures = 2
    MaxCrashes = 1
    MaxTorn = 1
CHECK_DEADLOCK FALSE
SYMMETRY Symmetry
INVARIANTS CatalogBacked
