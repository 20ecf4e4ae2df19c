SPECIFICATION Spec
CONSTANTS
    RetransmitCount = 1
    MaxCookies = 2
INVARIANTS
    TypeOK
    KeysAgree
    OneServerFlight
    FlightIsTimed
CHECK_DEADLOCK FALSE
