CONSTANTS
    w1 = w1  w2 = w2  s1 = s1  s2 = s2  p1 = p1  p2 = p2  f1 = f1  f2 = f2
    run = run  help = help  lib = lib  tick = tick  mod = mod
    Scopes = {s1, s2}
    Projects = {p1, p2}
    ScopeOf <- MCScopeOf
    Files = {f1, f2}
    Contents <- MCContents
    Runs <- MCRuns
    ModuleOf <- MCModuleOf
    HandNames = {run}
    Links <- MCLinks
    Procs = {w1, w2}
    None = None
    MaxIndexes = 2
    MaxCalls = 1
    MaxFaults = 1
SYMMETRY MCSymmetry
SPECIFICATION Spec
CHECK_DEADLOCK FALSE
INVARIANTS EndsInScope StaleGone OwnRelationsKept TraversalIsBall
 
