\* One thread: does every push and pop reach the disk?
CONSTANTS
    Callers = {c1}
    Files = {sch}
    SafeName <- SameName
    Objects = {o1, o2, o3}
    Contents = {v1, v2}
    MaxSeq = 2
    None = None
    MaxUndo = 2
SPECIFICATION Spec
INVARIANT DiskInStep
