SPECIFICATION FairSpec
CONSTANTS
    NoAddr = 0
    AssetItems <- MCAssetItems
    Assets <- MCAssets
    EmergencyAdmins <- MCEmergencyAdmins
    HasRanges = TRUE
    HasGlobals = TRUE
    PoolCount = 1
    Script <- FullScript
    Strict = TRUE
    MaxFaults = 1
CHECK_DEADLOCK FALSE
INVARIANT FileMatchesChain
INVARIANT NothingHalfDone
INVARIANT FailsOnlyAfterFaults
PROPERTY NeverRedeployed
PROPERTY PlanSpec
PROPERTY DoneOrDeadEnd
PROPERTY CleanStartHelps
