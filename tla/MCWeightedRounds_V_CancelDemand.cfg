SPECIFICATION DemandSpec
CONSTANTS
    a1 = a1
    a2 = a2
    Insureds = {a1, a2}
    UnitSize = 2
    MaxShare <- ShareOfAll
    MinUnits <- NoMinimum
    minUnitsPerRound = 1
    maxUnitsPerRound = 2
    overUnitsPerRound = 2
    minAdvanceUnits = 6
    maxAdvanceUnits = 12
    UnitCounts = {3}
    CancelUnits = {1}
    Rates = {1}
    HasMore = {FALSE}
    Amounts = {1, 3}
    LoopLimits = {1, 9}
    CoverageLoopLimits = {9}
    MaxDemand = 4
    MaxBatches = 4
    MaxTime = 2
SYMMETRY Symmetric
INVARIANTS
    DemandMatchesLog
    DemandCanBeCancelled
CHECK_DEADLOCK FALSE
