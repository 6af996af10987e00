SPECIFICATION UdsFairSpec
CONSTANTS
    RequestIds = {t1}
    Messages <- AllServices
    VinLen = 130
    MaxRequests = 4
    MaxLosses = 2
CHECK_DEADLOCK FALSE
INVARIANT StreamIntact
INVARIANT ReassembledIntact
PROPERTY FlowControlCompletes
