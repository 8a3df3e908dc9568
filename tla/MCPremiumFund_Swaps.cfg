SPECIFICATION SwapsSpec
CONSTANTS
    t1 = t1
    t2 = t2
    s1 = s1
    s2 = s2
    s3 = s3
    Tokens = {t1, t2}
    Collateral = CC
    NoToken = NoToken
    Sources = {s1, s3}
    premiumToken <- TokenOf
    WAD = 1
    GENESIS = 100
    LAST_TIME = 101
    Prices = {1}
    AutoReplenish = {FALSE}
    Rates = {1}
    LatePremium = {0, 1}
    Payments = {0, 9}
    Starvation = {0}
    SwapAmounts = {0, 1}
    Fees = {1}
    MaxPremium = 1
    MaxFees = 1
    MaxPaused = 1
INVARIANTS
    FundTypeOK
    TotalCoversSupply
    TokensReceived
CHECK_DEADLOCK FALSE
