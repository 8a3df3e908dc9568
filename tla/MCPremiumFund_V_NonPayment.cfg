SPECIFICATION SourcesSpec
CONSTANTS
    t1 = t1
    t2 = t2
    s1 = s1
    s2 = s2
    s3 = s3
    Tokens = {t1}
    Collateral = CC
    NoToken = NoToken
    Sources = {s1, s2}
    premiumToken <- TokenOf
    WAD = 2
    GENESIS = 100
    LAST_TIME = 102
    Prices = {6}
    AutoReplenish = {FALSE}
    Rates = {1, 2}
    LatePremium = {0, 1}
    Payments = {0, 9}
    Starvation = {0}
    SwapAmounts = {1}
    Fees = {0}
    MaxPremium = 2
    MaxFees = 1
    MaxPaused = 1
INVARIANTS
    NonPaymentTolerated
CHECK_DEADLOCK FALSE
