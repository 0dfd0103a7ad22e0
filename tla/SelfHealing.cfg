CONSTANTS
    db = db
    app = app
    NoService = NoService
    NoVariant = NoVariant
    RateLimit = 1
    Service <- MCService
    NameSet <- MCNameSet
    Name <- MCName
    Provides <- MCProvides
    Depends <- MCDepends
    Conflicts <- MCConflicts
SPECIFICATION FairSpec
INVARIANT NoneLeftBehind
PROPERTY SelfHeals
VIEW concreteVars
