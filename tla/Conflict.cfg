CONSTANTS
    postfix = postfix
    qmail = qmail
    list = list
    NoService = NoService
    NoVariant = NoVariant
    RateLimit = 0
    Service <- MCService
    NameSet <- MCNameSet
    Name <- MCName
    Provides <- MCProvides
    Depends <- MCDepends
    Conflicts <- MCConflicts
SPECIFICATION Spec
INVARIANT NoConflictEnabled
INVARIANT NoneLeftBehind
INVARIANT GraphMirrors
INVARIANT GraphIsCanonical
INVARIANT StopOrder
PROPERTY ChangesBump
