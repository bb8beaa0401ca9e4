SPECIFICATION Spec
CONSTANTS
    p1 = p1
    p2 = p2
    f1 = f1
    f2 = f2
    v1 = v1
    v2 = v2
    b1 = b1
    b2 = b2
    w1 = w1
    w2 = w2
    None = None
    u1 = u1
    u2 = u2
    Projects = {p1}
    Files = {f1, f2}
    Contents = {v1, v2}
    Unreads = {u1, u2}
    Blocks = {b1, b2}
    BlocksOf <- MCBlocksOf
    Procs = {w1}
    MaxRequests = 4
    MaxEdits = 1
    MaxFaults = 1
CHECK_DEADLOCK FALSE
SYMMETRY Symmetry
INVARIANTS   NoOrphans
PROPERTIES ImplementsLifecycle
