CONSTANTS
    Nobody = Nobody
    Proc = {p1, p2, p3}
SPECIFICATION FairSpec
INVARIANT NoOrphans
PROPERTY ImplementsProvider
PROPERTY LockIsGivenUp
PROPERTY StopEnds
PROPERTY CrashIsSeen
