SPECIFICATION AllocationSpec
CONSTANTS
    a1 = a1
    a2 = a2
    Insureds = {a1, a2}
    UnitSize = 2
    MaxShare <- ShareOfAll
    MinUnits <- NoMinimum
    minUnitsPerRound = 1
    maxUnitsPerRound = 1
    overUnitsPerRound = 1
    minAdvanceUnits = 4
    maxAdvanceUnits = 5
    UnitCounts = {4, 8}
    CancelUnits = {99}
    Rates = {1}
    HasMore = {FALSE}
    Amounts = {4}
    LoopLimits = {1, 9}
    CoverageLoopLimits = {9}
    MaxDemand = 12
    MaxBatches = 4
    MaxTime = 2
SYMMETRY Symmetric
INVARIANTS
    SanityHolds
CHECK_DEADLOCK FALSE
