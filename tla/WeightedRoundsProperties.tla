---------------------- MODULE WeightedRoundsProperties ----------------------
(***************************************************************************)
(* What the allocation engine promises to insureds and investors, stated   *)
(* over the storage of WeightedRounds.                                     *)
(***************************************************************************)
EXTENDS WeightedRounds

SumOver(Value(_), S) == SumFunctionOnSet([x \in S |-> Value(x)], S)
SumOfSlots(Value(_), log) == SumOver(LAMBDA k : Value(log[k]), DOMAIN log)

(* Batch numbers from n to the head of the list. *)
chainStep(f) ==
    IF f.n = 0 THEN f
    ELSE [seq |-> Append(f.seq, f.n), n |-> BatchAt(Storage, f.n).nextBatchNo]

ChainFrom(n) == Iterate(chainStep, [seq |-> <<>>, n |-> n], batchCount + 1).seq

Chain == IF batchCount = 0 THEN <<>> ELSE ChainFrom(1)
OpenChain == ChainFrom(partial.batchNo)

(* The batches a slot of a demand log runs through; "left" is zero when it *)
(* ends with a batch.                                                      *)
spanStep(f) ==
    LET b == BatchAt(Storage, f.n)
    IN  IF f.left <= 0 THEN f
        ELSE [in |-> f.in \union {f.n}, n |-> b.nextBatchNo, left |-> f.left - b.rounds]

SlotSpan(d) ==
    Iterate(spanStep, [in |-> {}, n |-> d.startBatchNo, left |-> d.rounds], batchCount + 1)

(* Every slot of every insured that has rounds in batch n, by its value. *)
SumOfDemandIn(Value(_), n) ==
    SumOver(LAMBDA i : SumOfSlots(LAMBDA d : IF n \in SlotSpan(d).in THEN Value(d) ELSE 0, demands[i]),
            Insureds)

(* The insured's coverage as a reconcile without a loop limit finds it.    *)
CollectedIn(s, i) == internalGetCoveredDemand(s, i, Len(s.demands[i]) + 1)
Collected(i) == CollectedIn(Storage, i)

(* internalGetCoveredTotals: units of full rounds in the whole pool. *)
CoveredUnits ==
    LET b == BatchAt(Storage, partial.batchNo)
    IN  adjustedTotalUnits(Storage, b.totalUnitsBeforeBatch) + partial.roundNo * b.unitPerRound

(* Coverage in the full rounds and in the partial one. *)
CoverageCounted == UnitSize * CoveredUnits + partial.roundCoverage

-----------------------------------------------------------------------------
BatchNumbers == 0..batchCount

(* The type invariant of the contract's storage. *)
TypeOK ==
    /\ insureds \in [Insureds -> [nextBatchNo : BatchNumbers, demandedUnits : Nat,
                                  status : {"Accepted", "Declined"}]]
    /\ \A i \in Insureds : \A k \in DOMAIN demands[i] :
          demands[i][k] \in [startBatchNo : BatchNumbers \ {0}, premiumRate : Rates,
                             rounds : Nat \ {0}, unitPerRound : Nat \ {0}]
    /\ covered \in [Insureds -> [coveredUnits : Nat, lastUpdateIndex : Nat, lastUpdateBatchNo : BatchNumbers,
                                 lastUpdateRounds : Nat, lastPartialRoundNo : Nat]]
    /\ DOMAIN batches \subseteq 1..batchCount
    /\ \A n \in DOMAIN batches :
          batches[n] \in [nextBatchNo : BatchNumbers, totalUnitsBeforeBatch : Nat, rounds : Nat,
                          unitPerRound : Nat, state : {"Draft", "ReadyMin", "Ready", "Full"},
                          roundPremiumRateSum : Nat]
    /\ DOMAIN marks = 1..batchCount
    /\ {latestBatchNo, firstOpenBatchNo} \subseteq BatchNumbers
    /\ pullableBatchNo \in BatchNumbers \union {1}
    /\ openRounds \in Nat
    /\ partial \in [roundCoverage : Nat, batchNo : BatchNumbers, roundNo : Nat]
    /\ pendingCancelledCoverageUnits \in Nat /\ pendingCancelledDemandUnits \in Nat
    /\ allocated \in Nat

(***************************************************************************)
(* A demand log and the batches describe the same demand: every slot ends  *)
(* with a batch, and a batch asks in each round for the units and the      *)
(* premium rate that the logs put there.  Splits made for one insured      *)
(* while the logs of the others are left alone must not break this.        *)
(* Covered batches keep the units of insureds that left.                   *)
(***************************************************************************)
LogsMatchBatches ==
    /\ \A i \in Insureds : \A k \in DOMAIN demands[i] : SlotSpan(demands[i][k]).left = 0
    /\ \A k \in DOMAIN OpenChain :
          LET n == OpenChain[k]
              b == BatchAt(Storage, n)
          IN  b.rounds > 0 =>
                /\ b.unitPerRound = SumOfDemandIn(LAMBDA d : d.unitPerRound, n)
                /\ b.roundPremiumRateSum = SumOfDemandIn(LAMBDA d : d.unitPerRound * d.premiumRate, n)

(***************************************************************************)
(* The demand is recorded three times, and cancellations change all three: *)
(* the units of an insured are those of its log, and its log agrees with   *)
(* the batches.                                                            *)
(***************************************************************************)
DemandMatchesLog ==
    /\ LogsMatchBatches
    /\ \A i \in Insureds :
          insureds[i].demandedUnits = SumOfSlots(LAMBDA d : d.rounds * d.unitPerRound, demands[i])

(***************************************************************************)
(* The partial round holds no more than a round takes, and nothing when    *)
(* all rounds of the batch are full ("must be zero when roundNo == batch   *)
(* size").                                                                 *)
(***************************************************************************)
PartialRoundNotFull ==
    LET b == BatchAt(Storage, partial.batchNo)
    IN  /\ partial.roundNo <= b.rounds
        /\ partial.roundCoverage > 0 => /\ partial.roundNo < b.rounds
                                        /\ partial.roundCoverage <= UnitSize * b.unitPerRound

(***************************************************************************)
(* The batches make one list without cycles that ends with an empty batch; *)
(* the batches before the partial one are full, none from the partial one  *)
(* on is, and the partial round is in its batch.                           *)
(***************************************************************************)
ListWellFormed ==
    /\ PartialRoundNotFull
    /\ batchCount > 0 =>
        LET tail == SubSeq(Chain, 1, Len(Chain) - Len(OpenChain))
        IN  /\ IsInjective(Chain)
            /\ BatchAt(Storage, Last(Chain)).rounds = 0
            /\ tail \o OpenChain = Chain
            /\ \A k \in DOMAIN tail : isFull(BatchAt(Storage, tail[k]))
            /\ \A k \in DOMAIN OpenChain : ~isFull(BatchAt(Storage, OpenChain[k]))
            /\ firstOpenBatchNo \in Range(OpenChain)

(***************************************************************************)
(* The coverage that investors put in is the coverage of the full rounds   *)
(* plus the coverage of the partial round: none is created or lost by the  *)
(* moves between rounds, batches and loop limits.                          *)
(***************************************************************************)
CoverageConserved == allocated = CoverageCounted

(***************************************************************************)
(* A batch that is filled is closed as well, unless the loop limit ended   *)
(* internalAddCoverage between the two.  Demand that comes then goes to    *)
(* findBatchToAppend, which closes the batch, but makes the next batch the *)
(* partial one with the units before it as they were last written: units   *)
(* that were added to a batch in front since are not in them.              *)
(***************************************************************************)
FilledIsClosed == partial.roundNo = 0 \/ partial.roundNo < BatchAt(Storage, partial.batchNo).rounds
ClosedAllocation ==
    \/ FilledIsClosed /\ \E i \in Insureds : addCoverageDemand(i)
    \/ addCoverage
    \/ \E i \in Insureds : receiveDemandedCoverage(i)
    \/ pullDemandCandidate
    \/ Tick
ClosedSpec == Init /\ [][ClosedAllocation]_vars

(***************************************************************************)
(* What all insureds together can collect is what the pool has covered,    *)
(* and none can collect more than it demanded.                             *)
(***************************************************************************)
CollectedMatchesPool ==
    /\ SumOver(LAMBDA i : Collected(i).covered.coveredUnits, Insureds) = CoveredUnits
    /\ \A i \in Insureds : Collected(i).covered.coveredUnits <= insureds[i].demandedUnits

(***************************************************************************)
(* Reconciling step by step under any loop limits finds the same coverage  *)
(* and the same premium as one reconcile from the beginning of the log.    *)
(***************************************************************************)
ReconcileIsIncremental ==
    \A i \in Insureds :
        LET fresh == internalGetCoveredDemand(
                        [Storage EXCEPT !.covered[i] = NoCoverage, !.premiums[i] = NoPremium],
                        i, Len(demands[i]) + 1)
        IN  insureds[i].status = "Accepted" =>
                /\ Collected(i).covered.coveredUnits = fresh.covered.coveredUnits
                /\ Collected(i).total = fresh.total

(***************************************************************************)
(* No call the pools may make fails a Sanity.require or underflows.        *)
(***************************************************************************)
SanityHolds ==
    /\ \A i \in Insureds : isActive(i) =>
          \A units \in UnitCounts, rate \in Rates, limit \in LoopLimits :
              ~internalAddCoverageDemand(Storage, i, units, rate, FALSE, limit).panic
    /\ \A amount \in Amounts, limit \in CoverageLoopLimits : ~internalAddCoverage(Storage, amount, limit).panic
    /\ \A i \in Insureds : isActive(i) => ~Collected(i).panic

(***************************************************************************)
(* The share of an insured is "a hard limit": in the units of all rounds   *)
(* up to a batch with enough units in its rounds, no insured has more than *)
(* its share.                                                              *)
(***************************************************************************)
ShareLimited ==
    \A k \in DOMAIN Chain :
        LET upTo == Range(SubSeq(Chain, 1, k))
            units(i) == SumOver(LAMBDA n : SumOfSlots(LAMBDA d :
                            IF n \in SlotSpan(d).in THEN d.unitPerRound * BatchAt(Storage, n).rounds ELSE 0,
                            demands[i]), upTo)
            total == SumOver(LAMBDA n : UnitsOf(BatchAt(Storage, n)), upTo)
        IN  BatchAt(Storage, Chain[k]).unitPerRound >= minUnitsPerRound =>
                \A i \in Insureds : units(i) <= percentMul(total, MaxShare[i])

(* A batch without units has no rounds when it can be closed.              *)
ReadyRoundsHaveUnits ==
    \A k \in DOMAIN OpenChain :
        LET b == BatchAt(Storage, OpenChain[k])
        IN  isReady(b) /\ b.unitPerRound = 0 => b.rounds = 0

(* The total before a batch that takes coverage is exact.                  *)
TotalBeforePartialExact ==
    LET tail == SubSeq(Chain, 1, Len(Chain) - Len(OpenChain))
    IN  partial.batchNo # 0 /\ isReady(BatchAt(Storage, partial.batchNo)) =>
            BatchAt(Storage, partial.batchNo).totalUnitsBeforeBatch =
                SumOver(LAMBDA k : UnitsOf(BatchAt(Storage, tail[k])), DOMAIN tail)

(***************************************************************************)
(* No amount makes a cancellation revert.  The insured's own               *)
(* cancelCoverageDemand takes any amount, and relies on this; the code     *)
(* does not keep it: an amount that ends inside a batch makes the call     *)
(* revert (_findUncoveredBatch, :1320-1327).                               *)
(***************************************************************************)
DemandCanBeCancelled ==
    \A i \in Insureds, units \in CancelUnits, limit \in LoopLimits :
        isActive(i) => ~internalCancelCoverageDemand(Storage, i, units, limit).panic

CoveredRounds(d) ==
    SumOver(LAMBDA n : IF n = partial.batchNo THEN PartialRounds(partial)
                       ELSE IF isFull(BatchAt(Storage, n)) THEN BatchAt(Storage, n).rounds ELSE 0,
            SlotSpan(d).in)

(***************************************************************************)
(* Where the log of an insured can be cut and no uncovered batch is cut in *)
(* two: a slot keeps the rounds that are covered, or also the batches that *)
(* follow, up to an end of one of them.                                    *)
(***************************************************************************)
WholeCuts(i) ==
    {cut \in [slot : DOMAIN demands[i], kept : 0..MaxDemand] :
        LET d == demands[i][cut.slot]
            least == CoveredRounds(d)
        IN  /\ cut.kept \in least..(d.rounds - 1)
            /\ cut.kept = least \/ SlotSpan([d EXCEPT !.rounds = cut.kept]).left = 0}

UnitsAbove(i, cut) ==
    LET d == demands[i][cut.slot]
    IN  (d.rounds - cut.kept) * d.unitPerRound
        + SumOfSlots(LAMBDA x : x.rounds * x.unitPerRound,
                     SubSeq(demands[i], cut.slot + 1, Len(demands[i])))

OpenUnits(i) ==
    insureds[i].demandedUnits - SumOfSlots(LAMBDA d : CoveredRounds(d) * d.unitPerRound, demands[i])

(* The amounts that are rounded up to the rounds above a cut; what is more *)
(* than the open demand stands for all of it.                              *)
AmountsOf(i, cut) ==
    LET above == UnitsAbove(i, cut)
        least == above - demands[i][cut.slot].unitPerRound + 1
    IN  (least..above) \cup (IF above = OpenUnits(i) THEN {MaxDemand + 1} ELSE {})

(***************************************************************************)
(* After a slot that is cancelled as a whole _findAndAdjustUncovered goes  *)
(* on to the slot before it, if the loop limit allows, with what is left   *)
(* of the amount: when the slot's last round was rounded up, that is an    *)
(* underflow, and the call reverts.                                        *)
(***************************************************************************)
LooksTooFar(i, cut, units, limit) ==
    /\ cut.kept = 0 /\ cut.slot > 1
    /\ limit > Len(demands[i]) - cut.slot + 1
    /\ units < UnitsAbove(i, cut)

HasOneRate(i) == \A k \in DOMAIN demands[i] : demands[i][k].premiumRate = demands[i][1].premiumRate

(* What every insured has collected, with its premium. *)
Collections(s) ==
    [i \in Insureds |-> LET c == CollectedIn(s, i) IN [units |-> c.covered.coveredUnits, premium |-> c.total]]

(***************************************************************************)
(* An insured whose log has one premium rate can take open demand back to  *)
(* the covered rounds or to any end of a batch, through any number of its  *)
(* slots: unless the search goes too far, the call does not revert under   *)
(* any loop limit that reaches the slot, it takes the units asked for, a   *)
(* part of a round as a round, and nothing that is covered changes, for    *)
(* this insured or another.                                                *)
(***************************************************************************)
WholeBatchesCancellable ==
    LET before == Collections(Storage)
    IN  \A i \in Insureds : isActive(i) /\ HasOneRate(i) => \A cut \in WholeCuts(i) :
          LET above == UnitsAbove(i, cut)
              kept == insureds[i].demandedUnits - above
          IN  \A units \in AmountsOf(i, cut), limit \in (Len(demands[i]) - cut.slot + 1)..(Len(demands[i]) + 1) :
                LooksTooFar(i, cut, units, limit) \/
                \E r \in {internalCancelCoverageDemand(Storage, i, units, limit)} :
                    /\ ~r.panic /\ r.cancelled = above
                    /\ r.s.insureds[i].demandedUnits = kept
                    /\ SumOfSlots(LAMBDA d : d.rounds * d.unitPerRound, r.s.demands[i]) = kept
                    /\ Collections(r.s) = before

(* All demand of the insured beyond the partial round was cancelled. *)
DemandIsCancelled(i) ==
    LET c == Collected(i).covered
        d == demands[i][c.lastUpdateIndex + 1]
    IN  c.lastUpdateIndex < Len(demands[i]) =>
            insureds[i].demandedUnits =
                c.coveredUnits + (PartialRounds(partial) - partial.roundNo) * d.unitPerRound

-----------------------------------------------------------------------------
(* Premium, of the partial batch too. *)
PoolPremium ==
    LET b == BatchAt(Storage, partial.batchNo)
    IN  IF isFull(b) \/ PartialRounds(partial) = 0 THEN poolPremium
        ELSE calcPremium(Storage, partial.batchNo, 1, poolPremium, partial.roundNo,
                         CeilDiv(partial.roundCoverage, b.unitPerRound), b.roundPremiumRateSum, b.unitPerRound)

PaidByInsureds == SumOver(LAMBDA i : PremiumAt(Collected(i).total, now), Insureds)

(* The insureds pay no less premium than the pool pays out. *)
PremiumCoversPool == PaidByInsureds >= PremiumAt(PoolPremium, now)

(***************************************************************************)
(* Premium is integrated forward in time only: the batch that is closed    *)
(* next was updated after the premium of the pool, and every batch that an *)
(* insured has still to collect after the premium of that insured.         *)
(***************************************************************************)
PremiumTimesOrdered ==
    /\ PartialRounds(partial) > 0 => marks[partial.batchNo].timestamp >= poolPremium.lastUpdatedAt
    /\ \A i \in Insureds : insureds[i].status = "Accepted" =>
          /\ Collected(i).premium.lastUpdatedAt >= premiums[i].lastUpdatedAt
          /\ Collected(i).total.lastUpdatedAt >= Collected(i).premium.lastUpdatedAt

(***************************************************************************)
(* Premium is integrated in order, and while no batch is partially covered *)
(* the insureds pay no less than the pool pays out.                        *)
(***************************************************************************)
PremiumCoversFullBatches ==
    /\ PremiumTimesOrdered
    /\ PartialRounds(partial) = 0 => PaidByInsureds >= PremiumAt(poolPremium, now)

-----------------------------------------------------------------------------
(* A full batch never changes: "full rounds are summed up and ignored". *)
FullBatchesFrozen ==
    [][\A n \in 1..batchCount : isFull(BatchAt(Storage, n)) => BatchAt(Storage', n) = BatchAt(Storage, n)]_vars

(***************************************************************************)
(* What a call of addCoverage takes is found in the rounds it leaves: full *)
(* rounds and the partial one, over all batches and loop turns of the call.*)
(***************************************************************************)
CoverageAllPlaced ==
    [][addCoverage => allocated' - allocated = CoverageCounted' - CoverageCounted]_vars

(* Coverage an insured has is not taken away while it stays insured. *)
CoverageNotWithdrawn ==
    [][\A old \in {Storage}, new \in {Storage'}, i \in Insureds :
          new.insureds[i].status = "Accepted" =>
              CollectedIn(new, i).covered.coveredUnits >= CollectedIn(old, i).covered.coveredUnits]_vars

(***************************************************************************)
(* What was covered stays covered, whatever else is added, closed or split *)
(* later: neither a full batch nor the coverage of an insured is touched.  *)
(***************************************************************************)
NothingTakenBack == FullBatchesFrozen /\ CoverageNotWithdrawn
=============================================================================
