CONSTANTS
    Peers = {ev1, ev2}
    MaxSessions = 3
    None = None
SPECIFICATION FairSpec
CHECK_DEADLOCK FALSE
INVARIANT DiscoveryRecoverable
INVARIANT ListenerOwned
PROPERTY DiscoveryResumes
