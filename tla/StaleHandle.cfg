CONSTANTS
    poller = poller
    browser = browser
    service = service
    list = list
    List = list
    Free = Free
    Watcher = {poller}
    Source = {service, list}
    MaxSerial = 2
SPECIFICATION OperatedSpec
INVARIANT LockIsHeldFromWithin
