SPECIFICATION FairSpec
CONSTANTS
    NumTasks = 2
    MaxGen = 3
    MaxCmds = 2
    MaxCrashes = 1
CHECK_DEADLOCK FALSE
INVARIANT OneLiveThreadPerTask
INVARIANT AtMostOneLateRun
INVARIANT RecordedAreStopped
PROPERTY StopEndsThread
PROPERTY ControllersFinish
