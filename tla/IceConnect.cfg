SPECIFICATION FairSpec
CONSTANTS
    NumPaths = 1
    MaxOffers = 0
    Scenarios <- MCOnePath
PROPERTY ConnectEnds
CHECK_DEADLOCK FALSE
