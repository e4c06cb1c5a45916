SPECIFICATION FairSpec
CONSTANTS
    Specs <- MCSpecs
    Unschedulable = {"x"}
    Contents <- MCContents
    Broken <- MCBroken
    Missing = Missing
    UpdatesEnabled = TRUE
    MaxEdits = 2
    MaxSignals = 2
    MaxEntries = 5
INVARIANTS
    ReloadReplaces
PROPERTIES
    ChangesLoaded
    HupReloads
    TermEnds
CHECK_DEADLOCK FALSE
