SPECIFICATION Spec
CONSTANTS
    Readers = {r1}
    Writers = {w1}
    Projects = {p1, p2}
    Files = {src, doc}
    Docs = {doc}
    ReviewFiles = {src}
    Tasks = {t1, t2}
    ReviewTasks = {}
    Keys = {key}
    Cards <- MCCards
    Queries <- MCQueries
    Starts <- MCStarts
    None = None
    MaxQueries = 1
    MaxWrites = 2
    r1 = r1
    w1 = w1
    p1 = p1
    p2 = p2
    src = src
    doc = doc
    t1 = t1
    t2 = t2
    key = key
INVARIANTS
    TypeOK
    ChainHasNoRepeats
    FailsOnlyWhenGone
    ShownWasActive
    LineageFilesFound
CHECK_DEADLOCK FALSE
