\* One caller, two files, nothing fails from outside.
CONSTANTS
    Callers = {c1}
    Files = {sch, pro}
    ProjectFiles = {pro}
    Versions = {v1}
    Partial = Partial
    None = None
    Overlap = FALSE
    MaxUndo = 2
SPECIFICATION LatestSpec
PROPERTY UndoTakesLatest
