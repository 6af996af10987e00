CONSTANTS
    None = None
    Vehicles <- Fleet
    MaxRequests = 2
    MaxCycles = 2
    MaxAttempts = 1
    Backlog = 1
SPECIFICATION Spec
CHECK_DEADLOCK FALSE
INVARIANT RequestsBounded
INVARIANT SecuredAsSet
INVARIANT PilotFollowsSession
INVARIANT CheckedBeforeDemand
INVARIANT OwnTimer
PROPERTY Settles
