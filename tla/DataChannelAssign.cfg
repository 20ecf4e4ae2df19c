CONSTANTS
    Client = client
    Server = server
    OpenIds = {}
    NegotiatedIds = {}
    SendAfterClose = FALSE
    MaxStreams = 1
    MaxFailures = 1
    MaxId = 3
    MaxChannels = 2
    MaxQueue = 2
    MaxRequests = 2
SPECIFICATION Spec
INVARIANT EstablishedAssignsIds
CHECK_DEADLOCK FALSE
