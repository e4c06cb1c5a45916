SPECIFICATION FairSpec
CONSTANTS
    Specs <- MCSpecs
    Unschedulable = {"x"}
    Contents <- MCContents
    Broken <- MCBroken
    Missing = Missing
    UpdatesEnabled = FALSE
    MaxEdits = 0
    MaxSignals = 2
    MaxEntries = 2
PROPERTIES
    TermEnds
CHECK_DEADLOCK FALSE
