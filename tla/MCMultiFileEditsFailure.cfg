\* The claim that a failure leaves nothing behind.
CONSTANTS
    Callers = {c1, c2}
    Undoers = {c1}
    Files = {board, sch}
    Boards = {board}
    MaxOps = 1
    Partial = Partial
    None = None
SPECIFICATION Spec
PROPERTY FailureUndone
CHECK_DEADLOCK FALSE
