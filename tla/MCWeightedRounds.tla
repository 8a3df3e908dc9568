-------------------------- MODULE MCWeightedRounds --------------------------
(* Instances of the allocation engine for TLC. *)
EXTENDS WeightedRoundsProperties

CONSTANTS a1, a2

ShareOfAll == [i \in Insureds |-> ONE]
ShareOfSixtyPercent == [i \in Insureds |-> 6000]
SharesDiffer == [i \in Insureds |-> IF i = a1 THEN ONE ELSE 6000]
Symmetric == Permutations(Insureds)

NoMinimum == [i \in Insureds |-> 0]

(***************************************************************************)
(* Without the search for a pull candidate, which touches nothing but the  *)
(* sets of pullable insureds and its own position in the list.             *)
(***************************************************************************)
AllocationWithoutPull ==
    \/ \E i \in Insureds : addCoverageDemand(i)
    \/ addCoverage
    \/ \E i \in Insureds : receiveDemandedCoverage(i)

LimitsSpec == Init /\ [][AllocationWithoutPull]_vars

(***************************************************************************)
(* Coverage is cancelled after the demand that is not covered, and the     *)
(* rounds of the partial batch are shared with an insured that stays; the  *)
(* other cases are the subject of runs of their own.                       *)
(***************************************************************************)
CancelsInOrder(i) ==
    LET c == Collected(i).covered
        left == BatchAt(Storage, partial.batchNo).unitPerRound - demands[i][c.lastUpdateIndex + 1].unitPerRound
    IN  /\ DemandIsCancelled(i)
        /\ c.lastUpdateIndex < Len(demands[i]) =>
              left > 0 /\ partial.roundCoverage \notin 1..(UnitSize * left)

cancelCoverageInOrder == \E i \in Insureds : CancelsInOrder(i) /\ cancelCoverage(i)

(* Demand is cancelled to an end of a batch. *)
cancelWholeDemand ==
    \E i \in Insureds : \E cut \in WholeCuts(i) :
        /\ UnitsAbove(i, cut) \in CancelUnits
        /\ cancelCoverageDemand(i, UnitsAbove(i, cut))

(***************************************************************************)
(* An insured has a rate of its own, which it can change only while it has *)
(* no demand (InsuredPoolMonoRateBase.sol:24-27).  One of them demands up  *)
(* to the limit, the other up to half of it.                               *)
(***************************************************************************)
HasRate(i, rate) == \A k \in DOMAIN demands[i] : demands[i][k].premiumRate = rate

addDemandAtOneRate ==
    \/ addCoverageDemand(a1) /\ HasRate(a1, 1)'
    \/ addCoverageDemand(a2) /\ HasRate(a2, 2)' /\ 2 * insureds'[a2].demandedUnits <= MaxDemand

CancelSpec ==
    Init /\ [][\/ addDemandAtOneRate
              \/ addCoverage
              \/ \E i \in Insureds : receiveDemandedCoverage(i)
              \/ cancelWholeDemand \/ applyPendingAdjustments \/ cancelCoverageInOrder]_vars

CancelAnySpec == Spec

DemandSpec == Init /\ [][Allocation \/ DemandCancellation]_vars
=============================================================================
