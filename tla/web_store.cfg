SPECIFICATION FairSpec
CONSTANTS
    j1 = j1
    j2 = j2
    Jobs <- OneJob
    Crontabs <- Edited
    Users = {"u1"}
    Clients = {}
    MaxRuns = 1
    EventCap = 2
    HistoryLimit = 1
    StoreFaults = TRUE
INVARIANTS
    RunningIsActive
PROPERTIES
    OnlyUsersSwitch
    NoneActiveForEver
    TableFollows
CHECK_DEADLOCK FALSE
