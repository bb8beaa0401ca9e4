SPECIFICATION Spec
CONSTANTS
    s1 = s1
    s2 = s2
    phase = phase
    hash = hash
    note = note
    v1 = v1
    v2 = v2
    project = project
    custom = custom
    profile = profile
    w1 = w1
    w2 = w2
    None = None
    Scopes = {s1, s2}
    Keys = {phase, hash, note}
    Values = {v1, v2}
    Categories = {project, custom, profile}
    Infer <- MCInfer
    Days <- MCDays
    Project = project
    Volatile = {phase}
    Internal = {hash}
    Readings <- MCReadings
    Named = {None, profile}
    Leases = {1}
    Procs = {w1, w2}
    Forever = 100
    MaxTime = 2
    MaxSets = 2
CHECK_DEADLOCK FALSE
SYMMETRY Symmetry
INVARIANTS OneRowPerKey NothingOverIsRead
PROPERTIES LastingSlotsStay ImplementsSlotMap
