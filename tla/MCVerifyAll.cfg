SPECIFICATION FairSpec
CONSTANTS
    NoAddr = 0
    Workers <- MCWorkers
    Args <- MCArgs
    Order <- MCOrder
    ImplOf <- MCImplOf
    Actual <- MCActual
    IdOf <- MCIdOf
    MaxPolls = 1
    MaxTries = 2
    MaxTrouble = 2
CHECK_DEADLOCK FALSE
INVARIANT VerifiedIsTrue
INVARIANT SummaryIsComplete
INVARIANT FirstProxyHasSource
PROPERTY EventuallyVerified
