----------------------------- MODULE PremiumFund -----------------------------
(***************************************************************************)
(* The premium fund (premium/PremiumFundBase.sol) with the balancer of an  *)
(* actuary (premium/BalancerLib2.sol).  An actuary is an insurer, a source *)
(* is an insured of it.  The fund pulls premium tokens from the sources,   *)
(* by the premium the actuary reports and by the supply it expects itself, *)
(* and gives them out in swaps for value of the insurer.                   *)
(*                                                                         *)
(* The model has one actuary, because those share nothing but the records  *)
(* of the tokens.  An action is a transaction; one that reverts changes    *)
(* nothing and is not an action.  The price curve of a swap is left out: a *)
(* swap gives out any amount of what there is, and takes any fee.          *)
(* Timestamps start with GENESIS.                                          *)
(***************************************************************************)
EXTENDS Integers, Sequences, SequencesExt, FiniteSets

CONSTANTS
    Tokens,         \* premium tokens
    Collateral,     \* the collateral currency, which is a token too
    Sources,        \* insureds that may become sources
    NoToken,
    premiumToken,   \* the premium token of a source
    WAD,            \* one, in fixed point
    GENESIS,
    Prices,         \* prices the oracle may answer, in WAD
    AutoReplenish,  \* values of BF_AUTO_REPLENISH that are configured
    Rates,          \* premium rates an actuary reports
    LatePremium,    \* premium an actuary reports on top of its last rate
    Payments,       \* what a source can pay on a call, at most
    Starvation,     \* amounts at a starvation point
    SwapAmounts,    \* amounts a swap gives out, if there is so much
    Fees,           \* fees of a swap
    LAST_TIME,      \* bound: the last timestamp
    MaxPremium,     \* bound: premium allocated to a source
    MaxFees         \* bound: fees in a token

ASSUME FundAssumption ==
    /\ IsFiniteSet(Tokens) /\ IsFiniteSet(Sources)
    /\ Collateral \notin Tokens /\ NoToken \notin Tokens \union {Collateral}
    /\ premiumToken \in [Sources -> Tokens]
    /\ WAD \in Nat \ {0} /\ GENESIS \in Nat \ {0}
    /\ Prices \subseteq Nat \ {0} /\ Rates \subseteq Nat \ {0}
    /\ AutoReplenish \subseteq BOOLEAN /\ AutoReplenish # {}
    /\ LatePremium \subseteq Nat /\ Payments \subseteq Nat /\ Starvation \subseteq Nat
    /\ SwapAmounts \subseteq Nat /\ Fees \subseteq Nat
    /\ LAST_TIME \in Nat /\ GENESIS <= LAST_TIME /\ MaxPremium \in Nat /\ MaxFees \in Nat

VARIABLES
    now,             \* block.timestamp
    state,           \* of the actuary
    suspended,       \* tokens that are suspended for all actuaries
    collectedFees,   \* by token
    knownTokens,     \* tokens ever known
    tokenActuaries,  \* tokens that list the actuary
    sourceToken,     \* token of a registered source
    activeSources,   \* by token, an EnumerableSet
    nextReplenish,   \* by token, index of a source
    sourceBalances,  \* by source: lastPremium, rate, updatedAt
    totalBalance,    \* of the balancer: accum, rate, updatedAt
    balances,        \* of the balancer by token: accumAmount, rateValue, applyFrom
    configs,         \* of the balancer by token: price, suspended, finished, auto
    held,            \* tokens the fund owns
    takenFees,       \* fees sent out so far
    allocated,       \* at the actuary, by source: premium accum, rate, updatedAt
    formerSources    \* sources that have left the actuary

(* Who takes part, the tokens, and what belongs to the balancer. *)
memberVars == <<state, suspended, knownTokens, tokenActuaries, sourceToken, activeSources, formerSources>>
feeVars == <<collectedFees, takenFees>>
balancerVars == <<nextReplenish, sourceBalances, totalBalance, balances, configs>>
vars == <<memberVars, feeVars, balancerVars, now, held, allocated>>

-----------------------------------------------------------------------------
AllTokens == Tokens \union {Collateral}
least(a, b) == IF a < b THEN a ELSE b
most(a, b) == IF a > b THEN a ELSE b

(* WadRayMath: products and quotients are rounded half up, divUp too. *)
wadMul(a, b) == (a * b + WAD \div 2) \div WAD
wadDiv(a, b) == (a * WAD + b \div 2) \div b
divUp(a, b) == (a + b \div 2) \div b

(* Balances.sync *)
sync(b) == [b EXCEPT !.accum = @ + b.rate * (now - b.updatedAt), !.updatedAt = now]

(* A definition named Faulty... is its neighbour with a mistake put in: the *)
(* properties are shown to notice it.                                      *)

(* EnumerableSet: the last element takes the place of a removed one. *)
addSource(s, e) == IF Contains(s, e) THEN s ELSE Append(s, e)
removeSource(s, e) ==
    IF Contains(s, e) THEN Front([k \in DOMAIN s |-> IF s[k] = e THEN Last(s) ELSE s[k]]) ELSE s

NoSourceBalance == [lastPremium |-> 0, rate |-> 0, updatedAt |-> 0]
NoAssetBalance == [accumAmount |-> 0, rateValue |-> 0, applyFrom |-> 0]
NoConfig == [price |-> 0, suspended |-> FALSE, finished |-> FALSE, auto |-> FALSE]
NoSupply == [accum |-> 0, rate |-> 0, updatedAt |-> 0]

isRegistered(s) == sourceToken[s] # NoToken
isKnown == state \in {"Active", "Paused"}

-----------------------------------------------------------------------------
(***************************************************************************)
(* Replenishment.  It works on copies in memory and on storage: a frame f  *)
(* has both.  f.balance and f.total are memory, which the caller stores or *)
(* not; f.sources, f.next, f.price and f.held are changed for good.  The   *)
(* result is f.amount and f.value, what the source provided, and           *)
(* f.expected.  f.reverted is set where a checked subtraction fails.       *)
(***************************************************************************)
frame(t, total) ==
    [token |-> t, balance |-> balances[t], total |-> total, sources |-> sourceBalances, next |-> nextReplenish[t],
     price |-> configs[t].price, held |-> held[t], amount |-> 0, value |-> 0, expected |-> 0, reverted |-> FALSE]

expectedSupply(b) == (now - b.updatedAt) * b.rate

(* The source pays `paid`, and does not pay `unpaid`, of an amount worth *)
(* `required`: _replenishFn after _collectPremium.                       *)
FaultyCollected(f, s, paid, unpaid, required, price) ==
    [f EXCEPT !.amount = paid + unpaid,
              !.value = required - wadMul(unpaid, price),
              !.sources[s].lastPremium = @ + required - wadMul(unpaid, price),
              !.held = @ + paid,
              !.reverted = @ \/ required < wadMul(unpaid, price)]
collected(f, s, paid, unpaid, required, price) ==
    [f EXCEPT !.amount = paid,
              !.value = required - wadMul(unpaid, price),
              !.sources[s].lastPremium = @ + required - wadMul(unpaid, price),
              !.held = @ + paid,
              !.reverted = @ \/ required < wadMul(unpaid, price)]

(* _collectPremium.  The source may fail, or have less than the amount. *)
collectAmount(f, s, required, amount, pay) ==
    collected(f, s, least(pay.most, amount), amount - least(pay.most, amount), required, pay.price)
collectPremium(f, s, required, pay) ==
    IF required = 0 THEN f ELSE collectAmount(f, s, required, wadDiv(required, pay.price), pay)

FaultyExpectSupply(f, s) ==
    [f EXCEPT !.expected = expectedSupply(f.sources[s]), !.amount = 0, !.value = 0]
expectSupply(f, s) ==
    [f EXCEPT !.expected = expectedSupply(f.sources[s]), !.sources[s].updatedAt = now, !.amount = 0, !.value = 0]

(* _replenishFn: nothing is collected twice in a block. *)
replenishFn(f, s, increment, pay) ==
    IF f.sources[s].updatedAt = now THEN [f EXCEPT !.amount = 0, !.value = 0, !.expected = 0]
    ELSE collectPremium(expectSupply(f, s), s, most(increment, expectedSupply(f.sources[s])), pay)

(* _applyRateFromBalanceUpdate *)
balanceAppliesFrom(b, expected) ==
    IF b.applyFrom = 0 \/ b.rateValue = 0 THEN now
    ELSE IF expected > 0 THEN least(b.applyFrom + (expected + b.rateValue - 1) \div b.rateValue, now)
    ELSE b.applyFrom

(* The price is an average over what there is and what has been received. *)
averagePrice(amount, price, newAmount, newValue) ==
    IF amount + newAmount = 0 THEN 0 ELSE divUp(newValue * WAD + amount * price, amount + newAmount)

(* _replenishAsset after the callback *)
FaultyRestocked(f, value) ==
    [f EXCEPT !.value = value,
              !.total.accum = @ - f.expected,
              !.balance.accumAmount = @ + f.amount,
              !.balance.applyFrom =
                  balanceAppliesFrom(f.balance, IF f.balance.accumAmount + f.amount = 0 THEN 0 ELSE f.expected),
              !.price = averagePrice(f.balance.accumAmount, f.price, f.amount, value),
              !.reverted = @ \/ f.total.accum < f.expected]
restocked(f, value) ==
    [f EXCEPT !.value = value,
              !.total.accum = @ - f.expected + value,
              !.balance.accumAmount = @ + f.amount,
              !.balance.applyFrom =
                  balanceAppliesFrom(f.balance, IF f.balance.accumAmount + f.amount = 0 THEN 0 ELSE f.expected),
              !.price = averagePrice(f.balance.accumAmount, f.price, f.amount, value),
              !.reverted = @ \/ f.total.accum < f.expected]

restock(f) ==
    IF f.amount = 0 /\ f.expected = 0 THEN [f EXCEPT !.value = 0]
    ELSE restocked(f, IF f.amount = 0 THEN 0 ELSE f.value)

(* _replenishAsset *)
replenish(f, s, increment, pay) == restock(replenishFn(f, s, increment, pay))

(* _applyRateFrom *)
rateAppliesFrom(oldRate, newRate, applyFrom) ==
    IF oldRate = 0 \/ newRate = 0 \/ applyFrom = 0 THEN now
    ELSE most(1, now - (oldRate * (now - applyFrom) + newRate - 1) \div newRate)

(* _changeRate.  The date is found from the last rate of the source and    *)
(* the difference to the new one.                                          *)
changeRate(f, lastRate, newRate) ==
    IF lastRate = newRate THEN f
    ELSE [f EXCEPT !.balance.rateValue = @ - lastRate + newRate,
                   !.total.rate = @ - lastRate + newRate,
                   !.balance.applyFrom =
                       rateAppliesFrom(lastRate, most(newRate, lastRate) - least(newRate, lastRate), @)]

(* replenishAsset, and what _premiumAllocationUpdated does with its result: *)
(* the rate of a source that provides less than the increment is stopped.  *)
promisedRate(f, increment, newRate) == IF f.value < increment THEN 0 ELSE newRate
setSourceRate(f, s, lastRate, newRate) ==
    [changeRate(f, lastRate, newRate) EXCEPT !.sources[s].rate = newRate, !.sources[s].updatedAt = now]
FaultyRateReplenished(f, s, increment, lastRate, newRate) ==
    [changeRate(f, lastRate, newRate) EXCEPT !.sources[s].rate = promisedRate(f, increment, newRate),
                                             !.sources[s].updatedAt = now]
rateReplenished(f, s, increment, lastRate, newRate) ==
    setSourceRate(f, s, lastRate, promisedRate(f, increment, newRate))
allocationUpdated(f, s, increment, newRate, pay) ==
    rateReplenished(replenish(f, s, increment, pay), s, increment, f.sources[s].rate, newRate)

Pays == [price: Prices, most: Payments]

(* The records of the asset and of the sources after a replenishment. *)
saveFrame(f) ==
    /\ ~f.reverted
    /\ balances' = [balances EXCEPT ![f.token] = f.balance]
    /\ totalBalance' = f.total
    /\ sourceBalances' = f.sources
    /\ held' = [held EXCEPT ![f.token] = f.held]

-----------------------------------------------------------------------------
Init ==
    /\ now = GENESIS
    /\ state = "Unknown"
    /\ suspended = {} /\ knownTokens = {} /\ tokenActuaries = {} /\ formerSources = {}
    /\ collectedFees = [t \in AllTokens |-> 0]
    /\ takenFees = [t \in AllTokens |-> 0]
    /\ held = [t \in AllTokens |-> 0]
    /\ sourceToken = [s \in Sources |-> NoToken]
    /\ activeSources = [t \in Tokens |-> <<>>]
    /\ nextReplenish = [t \in Tokens |-> 0]
    /\ sourceBalances = [s \in Sources |-> NoSourceBalance]
    /\ totalBalance = NoSupply
    /\ balances = [t \in Tokens |-> NoAssetBalance]
    /\ configs = [t \in AllTokens |-> NoConfig]
    /\ allocated = [s \in Sources |-> NoSupply]

(* Time passes between two blocks. *)
Tick ==
    /\ now < LAST_TIME
    /\ now' = now + 1
    /\ UNCHANGED <<memberVars, feeVars, balancerVars, held, allocated>>

-----------------------------------------------------------------------------
(* Administration.                                                         *)

(* registerPremiumActuary(actuary, true) takes the configuration of the    *)
(* collateral currency from the template.                                  *)
RegisterActuary ==
    /\ ~isKnown
    /\ state' = "Active"
    /\ knownTokens' = knownTokens \union {Collateral}
    /\ tokenActuaries' = tokenActuaries \union {Collateral}
    /\ configs' = [configs EXCEPT ![Collateral] = [NoConfig EXCEPT !.price = WAD]]
    /\ UNCHANGED <<suspended, sourceToken, activeSources, formerSources, feeVars, nextReplenish, sourceBalances,
                   totalBalance, balances, now, held, allocated>>

(* registerPremiumActuary(actuary, false) *)
UnregisterActuary ==
    /\ isKnown
    /\ state' = "Inactive"
    /\ tokenActuaries' = tokenActuaries \ {Collateral}
    /\ UNCHANGED <<suspended, knownTokens, sourceToken, activeSources, formerSources, feeVars, balancerVars, now,
                   held, allocated>>

(* setPaused of the actuary *)
PauseActuary(paused) ==
    /\ isKnown
    /\ state' = IF paused THEN "Paused" ELSE "Active"
    /\ UNCHANGED <<suspended, knownTokens, tokenActuaries, sourceToken, activeSources, formerSources, feeVars,
                   balancerVars, now, held, allocated>>

(* setPaused of a token, for all actuaries *)
PauseToken(t, paused) ==
    /\ t \in knownTokens
    /\ suspended' = IF paused THEN suspended \union {t} ELSE suspended \ {t}
    /\ UNCHANGED <<state, knownTokens, tokenActuaries, sourceToken, activeSources, formerSources, feeVars,
                   balancerVars, now, held, allocated>>

(* setPaused of a token of the actuary *)
PauseAsset(t, paused) ==
    /\ state # "Unknown"
    /\ configs' = [configs EXCEPT ![t].suspended = paused]
    /\ UNCHANGED <<memberVars, feeVars, nextReplenish, sourceBalances, totalBalance, balances, now, held, allocated>>

(* setAssetConfig keeps the price, and that the asset is suspended; that   *)
(* the asset is finished is lost.                                          *)
SetAssetConfig(t, auto) ==
    /\ isKnown
    /\ configs' = [configs EXCEPT ![t].auto = auto, ![t].finished = FALSE]
    /\ UNCHANGED <<memberVars, feeVars, nextReplenish, sourceBalances, totalBalance, balances, now, held, allocated>>

(* collectFees *)
CollectFees(t) ==
    /\ collectedFees[t] > 0 /\ held[t] >= collectedFees[t]
    /\ collectedFees' = [collectedFees EXCEPT ![t] = 0]
    /\ takenFees' = [takenFees EXCEPT ![t] = @ + collectedFees[t]]
    /\ held' = [held EXCEPT ![t] = @ - collectedFees[t]]
    /\ UNCHANGED <<memberVars, balancerVars, now, allocated>>

-----------------------------------------------------------------------------
(* Calls of the actuary.                                                   *)

(***************************************************************************)
(* registerPremiumSource(source, true).  The asset gets the default        *)
(* configuration of the actuary, but keeps its price.  An insured joins an *)
(* insurer once.                                                           *)
(***************************************************************************)
FaultyConfigForSource(t, auto) == [NoConfig EXCEPT !.auto = auto]
configForSource(t, auto) == [NoConfig EXCEPT !.price = configs[t].price, !.auto = auto]

RegisterSource(s, auto) ==
    /\ isKnown
    /\ ~isRegistered(s) /\ s \notin formerSources
    /\ sourceToken' = [sourceToken EXCEPT ![s] = premiumToken[s]]
    /\ knownTokens' = knownTokens \union {premiumToken[s]}
    /\ tokenActuaries' = tokenActuaries \union {premiumToken[s]}
    /\ configs' = [configs EXCEPT ![premiumToken[s]] = configForSource(premiumToken[s], auto)]
    /\ UNCHANGED <<state, suspended, activeSources, formerSources, feeVars, nextReplenish, sourceBalances,
                   totalBalance, balances, now, held, allocated>>

(* premiumAllocationUpdated: the actuary reports all premium allocated to  *)
(* the source and the rate from now on.                                    *)
allocatedTotal(s, late) == sync(allocated[s]).accum + late

UpdateAllocation(s, late, rate, pay) ==
    /\ isKnown /\ isRegistered(s)
    /\ sourceBalances[s].lastPremium <= allocatedTotal(s, late) /\ allocatedTotal(s, late) <= MaxPremium
    /\ \E f \in {allocationUpdated(frame(sourceToken[s], sync(totalBalance)), s,
                                   allocatedTotal(s, late) - sourceBalances[s].lastPremium, rate, pay)} :
         /\ saveFrame(f)
         /\ configs' = [configs EXCEPT ![sourceToken[s]].price = f.price]
    /\ activeSources' = [activeSources EXCEPT ![sourceToken[s]] = addSource(@, s)]
    /\ allocated' = [allocated EXCEPT ![s] = [accum |-> allocatedTotal(s, late), rate |-> rate, updatedAt |-> now]]
    /\ UNCHANGED <<state, suspended, knownTokens, tokenActuaries, sourceToken, formerSources, feeVars, nextReplenish,
                   now>>

(* _removePremiumSource.  The last active source finishes the asset.       *)
isLastActive(s, t) == activeSources[t] = <<s>>
withoutSource(s) ==
    /\ sourceToken' = [sourceToken EXCEPT ![s] = NoToken]
    /\ activeSources' = [activeSources EXCEPT ![sourceToken[s]] = removeSource(@, s)]
    /\ formerSources' = formerSources \union {s}
    /\ allocated' = [allocated EXCEPT ![s] = NoSupply]

(***************************************************************************)
(* premiumAllocationFinished.  The source is removed, so its rate is zero  *)
(* after the last replenishment; the records of a source that has not been *)
(* active are kept.  Tokens list the actuary still.                        *)
(***************************************************************************)
FinishAllocation(s, late, pay) ==
    /\ isKnown /\ isRegistered(s)
    /\ sourceBalances[s].lastPremium <= allocatedTotal(s, late) /\ allocatedTotal(s, late) <= MaxPremium
    /\ \E f \in {allocationUpdated(frame(sourceToken[s], sync(totalBalance)), s,
                                   allocatedTotal(s, late) - sourceBalances[s].lastPremium, 0, pay)} :
         /\ f.sources[s].lastPremium <= allocatedTotal(s, late)
         /\ isLastActive(s, sourceToken[s]) => f.balance.rateValue = 0
         /\ saveFrame(IF Contains(activeSources[sourceToken[s]], s)
                      THEN [f EXCEPT !.sources[s] = NoSourceBalance] ELSE f)
         /\ configs' = [configs EXCEPT ![sourceToken[s]].price = f.price,
                                       ![sourceToken[s]].finished = @ \/ isLastActive(s, sourceToken[s])]
    /\ withoutSource(s)
    /\ UNCHANGED <<state, suspended, knownTokens, tokenActuaries, feeVars, nextReplenish, now>>

(* decRate: nothing is replenished before the source is removed. *)
decRate(f, rate) ==
    IF rate = 0 THEN f
    ELSE [f EXCEPT !.total = [sync(f.total) EXCEPT !.rate = @ - rate],
                   !.balance.rateValue = @ - rate,
                   !.balance.applyFrom = rateAppliesFrom(f.balance.rateValue, f.balance.rateValue - rate, @)]

(* registerPremiumSource(source, false) *)
UnregisterSource(s) ==
    /\ isKnown /\ isRegistered(s)
    /\ \E f \in {decRate(frame(sourceToken[s], totalBalance), sourceBalances[s].rate)} :
         /\ isLastActive(s, sourceToken[s]) => f.balance.rateValue = 0
         /\ saveFrame(IF Contains(activeSources[sourceToken[s]], s)
                      THEN [f EXCEPT !.sources[s] = NoSourceBalance] ELSE f)
    /\ configs' = [configs EXCEPT ![sourceToken[s]].finished = @ \/ isLastActive(s, sourceToken[s])]
    /\ tokenActuaries' = IF removeSource(activeSources[sourceToken[s]], s) = <<>>
                         THEN tokenActuaries \ {sourceToken[s]} ELSE tokenActuaries
    /\ withoutSource(s)
    /\ UNCHANGED <<state, suspended, knownTokens, feeVars, nextReplenish, now>>

-----------------------------------------------------------------------------
(* Calls of users.                                                         *)

(* _ensureActiveActuary, _ensureToken and the check of the balancer *)
isUsable(t) == state = "Active" /\ t \in knownTokens \ suspended /\ ~configs[t].suspended

(* Where the pulling of sources goes on, counted from zero. *)
firstIndex(next, n) == IF next >= n THEN 0 ELSE next

(***************************************************************************)
(* syncAsset of a premium token: pulls at most limit sources, one after    *)
(* the other, at the rates they have.  It may be cut by the limit, and the *)
(* next call goes on from there.  syncAssets is a sequence of these.       *)
(***************************************************************************)
syncSource(f, s, pay) == allocationUpdated(f, s, 0, f.sources[s].rate, pay)
sourcesFrom(active, first, limit) ==
    [k \in 1..least(limit, Len(active)) |-> active[((first + k - 1) % Len(active)) + 1]]

SyncAsset(t, limit, price, payments) ==
    /\ isUsable(t) /\ activeSources[t] # <<>> /\ limit > 0
    /\ \E first \in {firstIndex(nextReplenish[t], Len(activeSources[t]))} :
       \E f \in {FoldLeft(LAMBDA g, s : syncSource(g, s, [price |-> price, most |-> payments[s]]),
                          frame(t, sync(totalBalance)), sourcesFrom(activeSources[t], first, limit))} :
         /\ saveFrame(f)
         /\ configs' = [configs EXCEPT ![t].price = f.price]
         /\ nextReplenish' = [nextReplenish EXCEPT
                                ![t] = (first + least(limit, Len(activeSources[t]))) % Len(activeSources[t])]
    /\ UNCHANGED <<memberVars, feeVars, now, allocated>>

(***************************************************************************)
(* A swap, on a frame.  An instruction i names the token, what the source  *)
(* pays if it is asked, the amount at the starvation point, and the amount *)
(* and the fee that the price curve finds.  The amount is 0 where the swap *)
(* cannot give out the minimum that the user wants.                        *)
(***************************************************************************)
Instructions == [token: Tokens, pay: Pays, starvation: Starvation, amount: SwapAmounts, fee: Fees]

needsReplenish(f, i) ==
    configs[i.token].auto \/ (f.balance.rateValue > 0 /\ f.balance.accumAmount <= i.starvation)

(* _sourceForReplenish takes the next source and fails if there is none. *)
pullNext(f, first, i) ==
    replenish([f EXCEPT !.next = first + 1], activeSources[i.token][first + 1], 0, i.pay)
autoReplenish(f, i) ==
    IF ~needsReplenish(f, i) THEN f
    ELSE IF activeSources[i.token] = <<>> THEN [f EXCEPT !.reverted = TRUE]
    ELSE pullNext(f, firstIndex(f.next, Len(activeSources[i.token])), i)

(* _swapAsset, and the transfer of the amount. *)
giveOut(f, amount) ==
    [f EXCEPT !.balance.accumAmount = @ - amount,
              !.total.accum = @ - wadMul(amount, f.price),
              !.held = @ - amount,
              !.amount = amount,
              !.reverted = @ \/ f.total.accum < wadMul(amount, f.price) \/ f.held < amount]
FaultySwapped(f, i) == giveOut(f, i.amount)
swapped(f, i) == giveOut(f, least(i.amount, f.balance.accumAmount))

(***************************************************************************)
(* swapAsset of a premium token.  The total is stored when it has been     *)
(* changed, but the balance of the asset only when an amount is given out. *)
(***************************************************************************)
SwapAsset(i) ==
    /\ isUsable(i.token)
    /\ \E f \in {autoReplenish(frame(i.token, sync(totalBalance)), i)} : \E g \in {swapped(f, i)} :
         /\ ~g.reverted
         /\ balances' = IF g.amount > 0 THEN [balances EXCEPT ![i.token] = g.balance] ELSE balances
         /\ totalBalance' = IF g.amount > 0 \/ needsReplenish(frame(i.token, totalBalance), i)
                            THEN g.total ELSE totalBalance
         /\ sourceBalances' = g.sources
         /\ nextReplenish' = [nextReplenish EXCEPT ![i.token] = g.next]
         /\ configs' = [configs EXCEPT ![i.token].price = g.price]
         /\ held' = [held EXCEPT ![i.token] = g.held]
         /\ collectedFees' = [collectedFees EXCEPT ![i.token] = @ + IF g.amount > 0 THEN i.fee ELSE 0]
    /\ \A t \in Tokens : collectedFees'[t] + takenFees[t] <= MaxFees
    /\ UNCHANGED <<memberVars, takenFees, now, allocated>>

(***************************************************************************)
(* swapAssets of several premium tokens.  Each instruction starts from the *)
(* total before the call, and its changes are added up in b.sum.           *)
(***************************************************************************)
batch ==
    [balances |-> balances, sources |-> sourceBalances, next |-> nextReplenish, configs |-> configs,
     held |-> held, fees |-> collectedFees, sum |-> totalBalance, reverted |-> FALSE]
batchFrame(b, t) ==
    [frame(t, sync(totalBalance)) EXCEPT !.balance = b.balances[t], !.sources = b.sources, !.next = b.next[t],
                                         !.price = b.configs[t].price, !.held = b.held[t]]

(* _mergeTotals; a total below zero is an underflow in _mergeValue. *)
mergeTotals(sum, total) ==
    [sync(sum) EXCEPT !.accum = @ + total.accum - totalBalance.accum,
                      !.rate = @ + total.rate - totalBalance.rate]
addUp(b, f, i) ==
    [b EXCEPT !.balances[i.token] = IF f.amount > 0 THEN f.balance ELSE @,
              !.sources = f.sources,
              !.next[i.token] = f.next,
              !.configs[i.token].price = f.price,
              !.held[i.token] = f.held,
              !.fees[i.token] = @ + IF f.amount > 0 THEN i.fee ELSE 0,
              !.sum = IF f.amount > 0 THEN mergeTotals(@, f.total) ELSE @,
              !.reverted = @ \/ f.reverted \/ (f.amount > 0 /\ mergeTotals(b.sum, f.total).accum < 0)]
swapInBatch(b, i) == addUp(b, swapped(autoReplenish(batchFrame(b, i.token), i), i), i)

SwapAssets(i1, i2) ==
    /\ isUsable(i1.token) /\ isUsable(i2.token)
    /\ \E b \in {swapInBatch(swapInBatch(batch, i1), i2)} :
         /\ ~b.reverted
         /\ balances' = b.balances
         /\ totalBalance' = b.sum
         /\ sourceBalances' = b.sources
         /\ nextReplenish' = b.next
         /\ configs' = b.configs
         /\ held' = b.held
         /\ collectedFees' = b.fees
    /\ \A t \in Tokens : collectedFees'[t] + takenFees[t] <= MaxFees
    /\ UNCHANGED <<memberVars, takenFees, now, allocated>>

(***************************************************************************)
(* A swap for the collateral currency.  The insurer sends collateral for   *)
(* all the value, the fee of which stays with the fund.                    *)
(***************************************************************************)
SwapCollateral(fee) ==
    /\ fee > 0 /\ isUsable(Collateral)
    /\ collectedFees[Collateral] + takenFees[Collateral] + fee <= MaxFees
    /\ collectedFees' = [collectedFees EXCEPT ![Collateral] = @ + fee]
    /\ held' = [held EXCEPT ![Collateral] = @ + fee]
    /\ UNCHANGED <<memberVars, takenFees, balancerVars, now, allocated>>

-----------------------------------------------------------------------------
Administer ==
    \/ RegisterActuary \/ UnregisterActuary
    \/ \E t \in AllTokens : CollectFees(t)
    \/ \E paused \in BOOLEAN : PauseActuary(paused)
    \/ \E t \in AllTokens, paused \in BOOLEAN : PauseToken(t, paused) \/ PauseAsset(t, paused)
    \/ \E t \in Tokens, auto \in AutoReplenish : SetAssetConfig(t, auto)

Reports ==
    \/ \E s \in Sources, auto \in AutoReplenish : RegisterSource(s, auto)
    \/ \E s \in Sources : UnregisterSource(s)
    \/ \E s \in Sources, late \in LatePremium, pay \in Pays :
         \/ \E rate \in Rates : UpdateAllocation(s, late, rate, pay)
         \/ FinishAllocation(s, late, pay)

Pulls ==
    \E t \in Tokens, limit \in 1..Cardinality(Sources), price \in Prices, payments \in [Sources -> Payments] :
        SyncAsset(t, limit, price, payments)

Swaps ==
    \/ \E i \in Instructions : SwapAsset(i)
    \/ \E i1, i2 \in Instructions : SwapAssets(i1, i2)
    \/ \E fee \in Fees : SwapCollateral(fee)

Next == Tick \/ Administer \/ Reports \/ Pulls \/ Swaps

Spec == Init /\ [][Next]_vars
=============================================================================
