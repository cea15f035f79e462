\* One thread with an undo stack and one without; a board and a schematic.
CONSTANTS
    Callers = {c1, c2}
    Undoers = {c1}
    Files = {board, sch}
    Boards = {board}
    MaxOps = 2
    Partial = Partial
    None = None
SPECIFICATION Spec
INVARIANT TypeOK
INVARIANT LocksRespected
INVARIANT LocksReturned
INVARIANT NobodyWaits
PROPERTY CallsGoOn
PROPERTY CrossFileAllOrNothing
PROPERTY FailedOpUndone
PROPERTY SuccessKept
PROPERTY EntriesTellTheStep
CHECK_DEADLOCK FALSE
