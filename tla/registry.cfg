CONSTANTS
    w1 = w1  w2 = w2  p1 = p1  p2 = p2  shop = shop  site = site  u1 = u1  u2 = u2
    clone = clone  clone1 = clone1  clone2 = clone2  local = local
    Procs = {w1, w2}
    Ids = {p1, p2}
    Aliases = {shop, site}
    Remotes = {u1, u2}
    Preferred = clone
    ConflictDir <- MCConflictDir
    OtherRoots = {local}
    Named <- MCNamed
    LeafOf <- MCLeafOf
    NameOf <- MCNameOf
    Tasked = {p1, p2}
    None = None
    MaxCalls = 3
    MaxFaults = 1
SYMMETRY MCSymmetry
SPECIFICATION Spec
CHECK_DEADLOCK FALSE
INVARIANTS AliasesBacked 
PROPERTIES AliasMovesByIntent
