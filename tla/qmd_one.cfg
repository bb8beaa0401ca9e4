SPECIFICATION Spec
CONSTANTS
    a = a
    b = b
    big = big
    w1 = w1
    w2 = w2
    g1 = g1
    g2 = g2
    None = None
    BriefingId = BriefingId
    Pages = {g1}
    Ids = {a, b, big}
    Heavy = {big}
    Writers = {w1}
    MaxEntries = 2
    TopEntries = 2
    MaxCaptures = 4
    MaxCrashes = 1
    MaxTorn = 1
CHECK_DEADLOCK FALSE
SYMMETRY Symmetry
INVARIANTS CatalogExact AckedKept LimitsKept BriefingFresh
