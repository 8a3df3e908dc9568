SPECIFICATION Spec
CONSTANTS
    NoOne = "0"
    NoAddr = "0"
    Deployer = "owner"
    Accounts = {"owner", "admin"}
    Contracts = {"fund", "pool"}
    Helper = "helper"
    Controller = "ac"
    Caller = "admin"
    Roles = {"m", "s", "p", "f"}
    Multilets = {"m"}
    Singlets = {"s", "p"}
    Protecteds = {"p"}
    Masks <- MCMasks
    Limits <- MCLimits
    Batches <- MCBatches
    Lines <- MCLines
    RoleLists <- MCRoleLists
    File <- MCFile
    MaxOps = 4
INVARIANT HoldersMatchMasks
INVARIANT LentForOneCall
INVARIANT CalledAsWritten
PROPERTY OfficeLeavesNothing
PROPERTY ProtectedStays
CHECK_DEADLOCK FALSE
