CONSTANTS
    Pages = {p1}
    Texts = {t1, t2, t3}
    Writers = {w}
    Readers = {r}
    Backends = {"md", "dual", "qmd"}
    Cutovers <- QmdOnly
    TopEntries = 2
    None = None
    MaxCaptures = 3
    MaxReads = 2
    MaxCrashes = 1
SYMMETRY MCSymmetry
SPECIFICATION Spec
CHECK_DEADLOCK FALSE
INVARIANTS TypeOK AckedFound   
