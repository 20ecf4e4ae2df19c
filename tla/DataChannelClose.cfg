CONSTANTS
    Client = client
    Server = server
    OpenIds = {}
    NegotiatedIds = {1}
    SendAfterClose = FALSE
    MaxStreams = 2
    MaxFailures = 1
    MaxId = 3
    MaxChannels = 1
    MaxQueue = 2
    MaxRequests = 2
SPECIFICATION Spec
PROPERTIES ClosingEnds ClosedStaysClosed
CHECK_DEADLOCK FALSE
