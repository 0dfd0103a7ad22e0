CONSTANTS
    postfix = postfix
    qmail = qmail
    httpd = httpd
    proxy = proxy
    webmail = webmail
    webmail2 = webmail2
    cron = cron
    report = report
    NoVariant = NoVariant
    Service <- MCService
    NameSet <- MCNameSet
    Name <- MCName
    Provides <- MCProvides
    Depends <- MCDepends
    Conflicts <- MCConflicts
SPECIFICATION GraphSpec
INVARIANT EveryMatchLinked
