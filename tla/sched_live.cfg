SPECIFICATION FairSpec
CONSTANTS
    r1 = r1
    r2 = r2
    Runs <- MCRuns
    Crontab <- WaitLine
    Texts <- MCTexts
    Edits = {"backup"}
    Dates = {0, 1}
    Templated = {"backup"}
    Unparsable = {"bad"}
    Toggleable = {}
    MaxFiles = 2
    MaxDay = 1
    QueueCap = 1
    Repeats = 2
    ResumeConcurrency = 1
    DeDupEnabled = TRUE
    ResumeEnabled = TRUE
    OnError = TRUE
    OnCompletion = FALSE
    DiskFaults = TRUE
PROPERTIES
    KeyReleased
    ShutdownCompletes
    InterruptedResumed
CHECK_DEADLOCK FALSE
