\* The same two processes; the claim of the lock file, which the code breaks.
CONSTANTS
    Procs = {p1, p2}
    Inodes = {i1, i2, i3}
    Versions = {v1, v2}
    Partial = Partial
    None = None
SPECIFICATION Spec
INVARIANT MutualExclusion
