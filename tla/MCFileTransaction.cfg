\* Two processes, crashes, failures and commits that fail.
CONSTANTS
    Procs = {p1, p2}
    Inodes = {i1, i2, i3}
    Versions = {v1, v2}
    Partial = Partial
    None = None
SPECIFICATION FairSpec
INVARIANT TypeOK
INVARIANT ExclusionUnlessRobbed
INVARIANT NoSpuriousRefusal
PROPERTY RollbackRestores
PROPERTY ImplementsGuard
PROPERTY AttemptEnds
