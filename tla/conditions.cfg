SPECIFICATION FairSpec
CONSTANTS
    Jobs = {"backup", "report", "broken"}
    Wanted <- MCWanted
    Misconfigured = {"broken"}
    Patient = {"backup"}
    MaxConcurrent = 1
    ReadFaults = TRUE
INVARIANTS
    TokensMatch
PROPERTIES
    RunIsJustified
    GateSpec
    DeadlineEnds
    CancelEnds
