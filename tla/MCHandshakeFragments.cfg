SPECIFICATION Spec
CONSTANTS
    Sizes <- MCSizes
    MaxFragment = 2
    MaxBuffer = 6
INVARIANTS
    WholeUnlessTornApart
    OnePassSuffices
CHECK_DEADLOCK FALSE
