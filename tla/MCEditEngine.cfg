\* One call at a time, on a schematic and a project file.
CONSTANTS
    Callers = {c1}
    Files = {sch, pro}
    ProjectFiles = {pro}
    Versions = {v1}
    Partial = Partial
    None = None
    Overlap = FALSE
    MaxUndo = 2
SPECIFICATION Spec
INVARIANT TypeOK
INVARIANT HistoryCoherent
PROPERTY ImplementsHistory
