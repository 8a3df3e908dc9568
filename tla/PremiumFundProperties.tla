----------------------- MODULE PremiumFundProperties -----------------------
(***************************************************************************)
(* What the premium fund promises to the insureds that pay premium, to the *)
(* investors that swap for it and to the treasury that takes the fees.     *)
(***************************************************************************)
EXTENDS PremiumFund

\* The rates that are kept in three places.
RateOfToken == [t \in Tokens |-> balances[t].rateValue]
RateOfSource == [s \in Sources |-> sourceBalances[s].rate]

\* The value of the tokens of an asset.
ValueOfToken == [t \in Tokens |-> wadMul(balances[t].accumAmount, configs[t].price)]

(* Sources that are pulled for a token. *)
ActiveOf(t) == {activeSources[t][k] : k \in DOMAIN activeSources[t]}

(* Value that sources should have supplied since they were pulled last. *)
Supply(s) == expectedSupply(sourceBalances[s])
SupplyOfSource == [s \in Sources |-> Supply(s)]

Claims(t) == balances[t].accumAmount + collectedFees[t]

-----------------------------------------------------------------------------
(* The type invariant of the storage of the fund and the balancer. *)
FundTypeOK ==
    /\ now \in GENESIS..LAST_TIME
    /\ state \in {"Unknown", "Inactive", "Active", "Paused"}
    /\ suspended \subseteq knownTokens /\ knownTokens \subseteq AllTokens /\ tokenActuaries \subseteq knownTokens
    /\ {collectedFees, takenFees, held} \subseteq [AllTokens -> Nat]
    /\ sourceToken \in [Sources -> Tokens \union {NoToken}]
    /\ activeSources \in [Tokens -> Seq(Sources)]
    /\ nextReplenish \in [Tokens -> 0..Cardinality(Sources)]
    /\ sourceBalances \in [Sources -> [lastPremium : Nat, rate : Rates \union {0}, updatedAt : 0..now]]
    /\ totalBalance \in [accum : Nat, rate : Nat, updatedAt : 0..now]
    /\ balances \in [Tokens -> [accumAmount : Nat, rateValue : Nat, applyFrom : 0..now]]
    /\ configs \in [AllTokens -> [price : Nat, suspended : BOOLEAN, finished : BOOLEAN, auto : BOOLEAN]]

(***************************************************************************)
(* The rate of the balancer is the sum of the rates of its assets, and the *)
(* rate of an asset the sum of the rates of its active sources: the same   *)
(* rate is kept in three places, which are changed by reports, by sources  *)
(* that fail to pay, by removals and by swaps (_changeRate, decRate,       *)
(* _mergeTotals).  A source is removed only if its rate can be taken off.  *)
(***************************************************************************)
RatesAddUp ==
    /\ totalBalance.rate = SumFunction(RateOfToken)
    /\ \A t \in Tokens : balances[t].rateValue = SumFunctionOnSet(RateOfSource, ActiveOf(t))
    /\ \A s \in Sources : sourceBalances[s].rate > 0 => isRegistered(s) /\ s \in ActiveOf(sourceToken[s])

(***************************************************************************)
(* The total value of the balancer, which grows by the total rate, is at   *)
(* least the value of the tokens it has and of the supply that is due from *)
(* the sources.  So neither a swap (total.accum - v) nor a replenishment   *)
(* (total.accum - expectedValue) can fail on the subtraction, whatever     *)
(* sources pay and in whatever order they are pulled.  The total keeps up  *)
(* with the supply because the rates add up.                               *)
(***************************************************************************)
TotalCoversSupply ==
    /\ RatesAddUp
    /\ sync(totalBalance).accum >= SumFunction(ValueOfToken) + SumFunction(SupplyOfSource)

(***************************************************************************)
(* No source is charged for more premium than its insurer has allocated to *)
(* it, though the fund collects by its own estimate between two reports,   *)
(* and both users and insurers make it collect.  Otherwise the next report *)
(* fails (premium -= lastPremium), and so does the cancellation.           *)
(***************************************************************************)
NotOvercharged ==
    \A s \in Sources : isRegistered(s) =>
        sourceBalances[s].lastPremium + Supply(s) <= allocatedTotal(s, 0)

(***************************************************************************)
(* Tokens that an asset is said to have were received from the sources and *)
(* are still there, except for fees that the treasury took.                *)
(***************************************************************************)
TokensReceived == \A t \in Tokens : held[t] + takenFees[t] >= balances[t].accumAmount

(* An asset with tokens has a price: it can be swapped (_calcFlat divides  *)
(* by it), also after its sources are gone and another one has come.       *)
PricedWhenHeld == \A t \in Tokens : balances[t].accumAmount > 0 => configs[t].price > 0

-----------------------------------------------------------------------------
(* What the sources say, and the code does not do.                         *)

(* Fees can be taken out on top of what users can swap. *)
FeesBacked == \A t \in Tokens : held[t] >= Claims(t)

(* A swap that cannot give out the minimum does nothing: in particular all *)
(* tokens that were collected can be swapped.                              *)
TokensAccounted == \A t \in Tokens : held[t] + takenFees[t] <= balances[t].accumAmount

(* The total value grows by nothing but time and what is collected. *)
TotalNotInflated ==
    [][sourceBalances' = sourceBalances => totalBalance'.accum <= sync(totalBalance).accum + totalBalance.rate * (now' - now)]_vars

(* Only an administrator makes an asset usable again that was suspended. *)
PauseIsLiftedByAdmin ==
    [][\A t \in AllTokens : configs[t].suspended /\ ~configs'[t].suspended => UNCHANGED <<sourceToken, state>>]_vars

(* A source that cannot pay is tolerated: the value which is left unpaid   *)
(* is never more than the value that was asked for.                        *)
NonPaymentTolerated ==
    \A s \in Sources, price \in Prices :
        wadMul(wadDiv(Supply(s), price), price) <= Supply(s)

(* The rate of a source is stopped when the source has been asked to pay   *)
(* and failed.                                                             *)
RateStoppedOnFailure ==
    [][\A s \in Sources : sourceBalances[s].rate > 0 /\ sourceBalances'[s].rate = 0 /\ sourceToken'[s] = sourceToken[s]
                          => sourceBalances[s].updatedAt < now]_vars
=============================================================================
