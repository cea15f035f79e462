\* Two process ids and a crash loop of two.
CONSTANTS
    Daemons = {d1, d2}
    CrashLimit = 2
    MaxJobs = 1
    None = None
SPECIFICATION FairSpec
INVARIANT TypeOK
INVARIANT OneDaemonUnlessOvertaken
 
INVARIANT DaemonWatched
PROPERTY SpawnsRunOut
PROPERTY CrashLoopEnds
PROPERTY LaunchResolved
