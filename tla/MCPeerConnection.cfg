SPECIFICATION FairSpec
CONSTANTS
    ConsentFailures = 2
    MaxDescriptions = 5
    MaxConnects = 2
INVARIANTS
    OfferIsPending
    NegotiationIsNotForgotten
    ClosedIsNotRevived
    DisconnectedIsMissing
PROPERTIES
    ConnectedIsEarned
    ConsentDecides
CHECK_DEADLOCK FALSE
