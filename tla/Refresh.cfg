CONSTANTS
    Service = {s1}
    NoService = NoService
    MaxSerial = 6
    MaxFails = 1
    MaxPosted = 2
SPECIFICATION FairSpec
INVARIANT ConsistentView
INVARIANT EtagTellsAll
INVARIANT NamesMatchTag
PROPERTY NeverBackwards
PROPERTY KeepsUpToDate
