SPECIFICATION Spec
CONSTANTS
    NumPaths = 2
    MaxOffers = 2
    Scenarios <- MCScenarios
INVARIANTS
    NominationIsEarned
    
    
PROPERTIES
    WaitingIsServed
    GreaterControls
CHECK_DEADLOCK FALSE
