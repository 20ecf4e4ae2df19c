CONSTANTS
    Client = client
    Server = server
    MaxInitRetrans = 2
    MaxAssocRetrans = 1
    PeerMayShutdown = TRUE
SPECIFICATION FairSpec
INVARIANTS TagsAgree WaitIsTimed NoStrayT1
PROPERTIES ClosedIsFinal ImplementsService ClientDecides
CHECK_DEADLOCK FALSE
