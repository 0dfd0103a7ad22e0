CONSTANTS
    disk = disk
    replica = replica
    cache = cache
    NoService = NoService
    NoVariant = NoVariant
    RateLimit = 0
    Service <- MCService
    NameSet <- MCNameSet
    Name <- MCName
    Provides <- MCProvides
    Depends <- MCDepends
    Conflicts <- MCConflicts
SPECIFICATION RunningSpec
INVARIANT IInv
INVARIANT RunningSupported
PROPERTY NoNeedlessStop
PROPERTY LockIsReleased
VIEW concreteVars
