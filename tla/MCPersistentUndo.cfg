\* Two threads, one file, three sequence numbers.
CONSTANTS
    Callers = {c1, c2}
    Files = {sch}
    SafeName <- SameName
    Objects = {o1, o2, o3, o4}
    Contents = {v1, v2}
    MaxSeq = 3
    None = None
    MaxUndo = 2
SYMMETRY Symmetry
CONSTRAINT Explored
SPECIFICATION Spec
INVARIANT TypeOK
INVARIANT DiskTracksMemory
INVARIANT SlotsLoadTheirOwn
