SPECIFICATION Spec
CONSTANTS
    j1 = j1
    j2 = j2
    Jobs <- MCJobs
    Executions = {1, 2}
    Codes = {0, 1}
    Starts = {0, 1}
    Null = Null
INVARIANT
    SundayLoads
CHECK_DEADLOCK FALSE
