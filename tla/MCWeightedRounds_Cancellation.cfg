SPECIFICATION CancelSpec
CONSTANTS
    a1 = a1
    a2 = a2
    Insureds = {a1, a2}
    UnitSize = 2
    MaxShare <- ShareOfAll
    MinUnits <- NoMinimum
    minUnitsPerRound = 1
    maxUnitsPerRound = 2
    overUnitsPerRound = 2
    minAdvanceUnits = 4
    maxAdvanceUnits = 8
    UnitCounts = {3}
    CancelUnits = {1, 2, 3, 4, 5, 6}
    Rates = {1, 2}
    HasMore = {FALSE}
    Amounts = {3}
    LoopLimits = {9}
    CoverageLoopLimits = {9}
    MaxDemand = 6
    MaxBatches = 4
    MaxTime = 2
INVARIANTS
    CoverageConserved
    CollectedMatchesPool
    DemandMatchesLog
    WholeBatchesCancellable
CHECK_DEADLOCK FALSE
