--------------------------- MODULE MCPremiumFund ---------------------------
(* Instances of the premium fund for TLC. *)
EXTENDS PremiumFundProperties

CONSTANTS t1, t2, s1, s2, s3

TokenOf == [s \in Sources |-> IF s = s3 THEN t2 ELSE t1]
SameToken == Permutations({s1, s2})

(* Sources come and go, report, fail to pay and are pulled; no pauses. *)
SourcesNext ==
    \/ Tick
    \/ RegisterActuary
    \/ Reports
    \/ Pulls
    \/ \E i \in Instructions : SwapAsset(i)
SourcesSpec == Init /\ [][SourcesNext]_vars

(***************************************************************************)
(* All swaps, of two assets with a source each that is not removed.  At    *)
(* most MaxPaused of the actuary, the tokens and the assets are paused.    *)
(***************************************************************************)
CONSTANT MaxPaused
Paused == {<<"token", t>> : t \in suspended} \union {<<"asset", t>> : t \in {u \in AllTokens : configs[u].suspended}}
          \union (IF state = "Paused" THEN {<<"actuary", NoToken>>} ELSE {})
SwapsNext ==
    \/ Tick
    \/ Administer /\ Cardinality(Paused') <= MaxPaused
    \/ \E s \in Sources, auto \in AutoReplenish : RegisterSource(s, auto)
    \/ \E s \in Sources, late \in LatePremium, rate \in Rates, pay \in Pays : UpdateAllocation(s, late, rate, pay)
    \/ Pulls
    \/ Swaps
SwapsSpec == Init /\ [][SwapsNext]_vars
=============================================================================
