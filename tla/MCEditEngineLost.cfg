\* Two overlapping callers, nothing fails: the claim that operations serialize.
CONSTANTS
    Callers = {c1, c2}
    Files = {sch}
    ProjectFiles = {}
    Versions = {v1, v2}
    Partial = Partial
    None = None
    Overlap = TRUE
    MaxUndo = 2
SPECIFICATION OperationsOnly
INVARIANT NoLostUpdate
