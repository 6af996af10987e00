SPECIFICATION FairSpec
CONSTANTS
    NumTasks = 1
    MaxGen = 4
    MaxCmds = 2
    MaxCrashes = 0
PROPERTY ResumedTaskRuns
CHECK_DEADLOCK FALSE
