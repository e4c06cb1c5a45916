SPECIFICATION FairSpec
CONSTANTS
    j1 = j1
    j2 = j2
    Jobs <- OneJob
    Crontabs <- Fixed
    Users = {}
    Clients = {"c1"}
    MaxRuns = 2
    EventCap = 4
    HistoryLimit = 0
    StoreFaults = FALSE
INVARIANTS
    RunningIffActive
    ActiveAccounted
    LiveOrRecorded
    InspectorComplete
PROPERTIES
    RunsOnlyAdvance
    LastRunAdvances
    DatabaseCatchesUp
CHECK_DEADLOCK FALSE
