SPECIFICATION Spec
CONSTANTS
    Jobs = {"backup", "report", "broken"}
    Wanted <- MCWanted
    Misconfigured = {"broken"}
    Patient = {"backup"}
    MaxConcurrent = 1
    ReadFaults = TRUE
PROPERTIES
    StillProceeds
