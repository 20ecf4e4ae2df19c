CONSTANTS
    Half = 10
    InitialTsns = {7, 17}
    MaxSends = 5
    MaxGap = 15
SPECIFICATION Spec
INVARIANTS TypeOK CumulativeIsEarned ArrivalsAreKept SackIsTruthful NoLagInDecimalOrder
