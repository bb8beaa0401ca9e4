CONSTANTS
    n1 = n1  n2 = n2
    Points = {n1, n2}
    Keys = {"text", "schema", "state"}
    Required = {"schema", "state"}
    Payloads <- MCPayloads
    None = None
    MaxCommands = 4
    MaxFaults = 2
SYMMETRY MCSymmetry
SPECIFICATION Spec
CHECK_DEADLOCK FALSE
INVARIANTS  RollbackRestores
