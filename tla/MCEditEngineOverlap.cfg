\* Two overlapping callers on one file.
CONSTANTS
    Callers = {c1, c2}
    Files = {sch}
    ProjectFiles = {}
    Versions = {v1}
    Partial = Partial
    None = None
    Overlap = TRUE
    MaxUndo = 2
SPECIFICATION Spec
INVARIANT LocksHandedBack
INVARIANT StackBudget
PROPERTY TimelineKept
