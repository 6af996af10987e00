SPECIFICATION FairSpec
CONSTANTS
    Sessions = {s1, s2}
    Datagrams = {d1, d2}
    MaxMessages = 7
    StopCount = 3
    OutageTcp = 3
    OutageUdp = 5
CHECK_DEADLOCK FALSE
INVARIANT CountBelowStop
INVARIANT PortKnown
PROPERTY PortsComeBack
