SPECIFICATION Spec
CONSTANTS
    NoAddr = 0
    Workers <- MCWorkers
    Args <- MCBatches
    Order <- MCOrder
    ImplOf <- MCImplOf
    Actual <- MCActual
    IdOf <- MCIdOf
    MaxPolls = 1
    MaxTries = 2
    MaxTrouble = 2
CHECK_DEADLOCK FALSE
INVARIANT BatchesCoverFile
