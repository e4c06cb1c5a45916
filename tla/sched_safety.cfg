SPECIFICATION Spec
CONSTANTS
    r1 = r1
    r2 = r2
    Runs <- MCRuns
    Crontab <- TwoLines
    Texts <- MCTexts
    Edits = {"backup", "bad"}
    Dates = {1}
    Templated = {"backup"}
    Unparsable = {"bad"}
    Toggleable = {"backup"}
    MaxFiles = 2
    MaxDay = 2
    QueueCap = 1
    Repeats = 1
    ResumeConcurrency = 1
    DeDupEnabled = TRUE
    ResumeEnabled = TRUE
    OnError = TRUE
    OnCompletion = TRUE
    DiskFaults = TRUE
SYMMETRY Symmetry
INVARIANTS
    NoDuplicateRuns
    KeysAreHeld
    SuccessIsEarned
    Journaled
    OneOwnerPerFile
    PendingUntouched
PROPERTIES
    JournalSpec
CHECK_DEADLOCK FALSE
