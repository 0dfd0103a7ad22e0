CONSTANTS
    poller = poller
    browser = browser
    service = service
    list = list
    List = list
    Free = Free
    Watcher = {poller, browser}
    Source = {service, list}
    MaxSerial = 3
SPECIFICATION HandlesSpec
INVARIANT NoNewsSleptThrough
PROPERTY OldOnlyAfterTimeout
PROPERTY NumbersAreFresh
PROPERTY NewsEndsTheCall
PROPERTY EveryCallReturns
