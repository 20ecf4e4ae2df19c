SPECIFICATION FairSpec
CONSTANTS
    RetransmitCount = 1
    MaxCookies = 1
PROPERTY HandshakeEnds
CHECK_DEADLOCK FALSE
