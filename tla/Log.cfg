CONSTANTS
    Reader = {r1, r2}
    MaxRecords = 2
    MaxBatch = 2
    MaxTime = 3
    MaxQueue = 1
    MaxFails = 1
SPECIFICATION FairViewSpec
INVARIANT KeepsTheLatest
INVARIANT EtagTellsAll
INVARIANT NoRecordSleptThrough
INVARIANT NoOtherLog
PROPERTY PanelKeepsUp
