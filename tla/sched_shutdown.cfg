SPECIFICATION Spec
CONSTANTS
    r1 = r1
    r2 = r2
    Runs <- MCRuns
    Crontab <- OneLine
    Texts <- MCTexts
    Edits = {"backup"}
    Dates = {0}
    Templated = {"backup"}
    Unparsable = {"bad"}
    Toggleable = {}
    MaxFiles = 2
    MaxDay = 1
    QueueCap = 1
    Repeats = 1
    ResumeConcurrency = 1
    DeDupEnabled = TRUE
    ResumeEnabled = FALSE
    OnError = TRUE
    OnCompletion = FALSE
    DiskFaults = FALSE
INVARIANTS ShutdownWaits
