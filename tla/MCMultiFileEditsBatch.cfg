\* The claim that a batch applies all of its operations.
CONSTANTS
    Callers = {c1, c2}
    Undoers = {c1}
    Files = {board, sch}
    Boards = {board}
    MaxOps = 2
    Partial = Partial
    None = None
SPECIFICATION Spec
PROPERTY AllMutationsApplied
CHECK_DEADLOCK FALSE
