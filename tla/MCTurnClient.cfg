SPECIFICATION FairSpec
CONSTANTS
    p1 = p1
    p2 = p2
    c1 = c1
    c2 = c2
    c3 = c3
    Peers <- MCPeers
    Sends <- MCSends
    Lifetime = 6
CHECK_DEADLOCK FALSE
INVARIANTS
    OneVerdict
    InboundIsAttributed
    AllocationIsKept
PROPERTIES
    SendsSettle
