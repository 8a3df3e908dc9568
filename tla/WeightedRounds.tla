--------------------------- MODULE WeightedRounds ---------------------------
(***************************************************************************)
(* The allocation engine insurer/WeightedRoundsBase.sol.  Insureds add     *)
(* demand for coverage in units, investors add coverage, and the engine    *)
(* allocates it round by round.  Rounds of the same composition form a     *)
(* batch, and batches form a one-way list: full batches, the partial one,  *)
(* then batches that wait for coverage, and an empty one at the end.       *)
(*                                                                         *)
(* An operation is written as an operator from the contract's storage s    *)
(* (a record of the variables below) to its outcome, a record with the new *)
(* storage, the results, and "panic", TRUE when a Sanity.require or a      *)
(* checked subtraction of the code fails, which reverts the transaction.   *)
(* Solidity loops are iterated frames: a frame holds the local variables.  *)
(* Premium values are per unit of coverage, as in the contract's storage.  *)
(***************************************************************************)
EXTENDS WeightedPoolConfig, Sequences, FiniteSets, SequencesExt, FiniteSetsExt, TLC

CONSTANTS
    Insureds,      \* insured policies
    UnitSize,      \* amount of collateral in a unit
    MaxShare,      \* [Insureds -> basis points of the pool an insured may take]
    MinUnits       \* [Insureds -> units wanted from this insurer at least]

CONSTANTS          \* bounds and inputs of the model
    UnitCounts,    \* units added by one call
    CancelUnits,   \* units cancelled by one call
    Rates,         \* premium rates per unit
    HasMore,       \* values of the hasMore flag
    Amounts,       \* coverage added by one call
    LoopLimits,    \* loop limits of a call
    CoverageLoopLimits, \* loop limits of adding coverage
    MaxDemand,     \* units an insured demands at most
    MaxBatches,    \* batches ever created
    MaxTime        \* last block.timestamp

ASSUME RoundsAssumption ==
    /\ IsFiniteSet(Insureds)
    /\ Rates \subseteq Nat
    /\ UnitSize \in Nat \ {0}
    /\ MaxShare \in [Insureds -> 1..ONE]
    /\ MinUnits \in [Insureds -> Nat]
    /\ UnitCounts \subseteq Nat \ {0} /\ Amounts \subseteq Nat
    /\ LoopLimits \subseteq Nat \ {0} /\ CoverageLoopLimits \subseteq Nat \ {0}

VARIABLES
    insureds, demands, covered, premiums,          \* by insured
    batches, batchCount, latestBatchNo, firstOpenBatchNo, openRounds,
    poolPremium, partial, marks,
    pendingCancelledCoverageUnits, pendingCancelledDemandUnits,
    pullableBatchNo, pullableDemands,
    now,           \* block.timestamp
    allocated      \* coverage the callers have put in and not taken back

storageVars ==
    <<insureds, demands, covered, premiums, batches, batchCount, latestBatchNo,
      firstOpenBatchNo, openRounds, poolPremium, partial, marks,
      pendingCancelledCoverageUnits, pendingCancelledDemandUnits,
      pullableBatchNo, pullableDemands>>
vars == <<storageVars, now, allocated>>

Storage ==
    [insureds |-> insureds, demands |-> demands, covered |-> covered,
     premiums |-> premiums, batches |-> batches, batchCount |-> batchCount,
     latestBatchNo |-> latestBatchNo, firstOpenBatchNo |-> firstOpenBatchNo,
     openRounds |-> openRounds, poolPremium |-> poolPremium, partial |-> partial,
     marks |-> marks, pendingCoverage |-> pendingCancelledCoverageUnits,
     pendingDemand |-> pendingCancelledDemandUnits,
     pullableBatchNo |-> pullableBatchNo, pullableDemands |-> pullableDemands]

Commit(s) ==
    /\ insureds' = s.insureds /\ demands' = s.demands
    /\ covered' = s.covered /\ premiums' = s.premiums
    /\ batches' = s.batches /\ batchCount' = s.batchCount
    /\ latestBatchNo' = s.latestBatchNo /\ firstOpenBatchNo' = s.firstOpenBatchNo
    /\ openRounds' = s.openRounds /\ poolPremium' = s.poolPremium
    /\ partial' = s.partial /\ marks' = s.marks
    /\ pendingCancelledCoverageUnits' = s.pendingCoverage
    /\ pendingCancelledDemandUnits' = s.pendingDemand
    /\ pullableBatchNo' = s.pullableBatchNo /\ pullableDemands' = s.pullableDemands

-----------------------------------------------------------------------------
(* Types of Rounds.sol and the default values of the mappings.             *)

NoBatch    == [nextBatchNo |-> 0, totalUnitsBeforeBatch |-> 0, rounds |-> 0,
               unitPerRound |-> 0, state |-> "Draft", roundPremiumRateSum |-> 0]
NoDemand   == [startBatchNo |-> 0, premiumRate |-> 0, rounds |-> 0, unitPerRound |-> 0]
NoCoverage == [coveredUnits |-> 0, lastUpdateIndex |-> 0, lastUpdateBatchNo |-> 0,
               lastUpdateRounds |-> 0, lastPartialRoundNo |-> 0]
NoPremium  == [coveragePremium |-> 0, coveragePremiumRate |-> 0, lastUpdatedAt |-> 0]

(* A definition named Faulty... is its neighbour with a mistake put in: the *)
(* properties are shown to notice it.                                      *)
FaultyIsReady(b) == b.state # "Full"

isOpen(b)  == b.state \in {"Draft", "ReadyMin"}
isReady(b) == b.state \in {"ReadyMin", "Ready"}
isFull(b)  == b.state = "Full"

Put(mapping, key, value) ==
    [k \in DOMAIN mapping \cup {key} |-> IF k = key THEN value ELSE mapping[k]]
BatchAt(s, n)     == IF n \in DOMAIN s.batches THEN s.batches[n] ELSE NoBatch
PutBatch(s, n, b) == [s EXCEPT !.batches = Put(@, n, b)]
UnitsOf(b)        == b.rounds * b.unitPerRound
FaultyCeilDiv(n, d) == n \div d                            \* rounds down
CeilDiv(n, d)     == (n + d - 1) \div d
FaultyPartialRounds(p) == p.roundNo                       \* no half-filled round
PartialRounds(p)  == p.roundNo + (IF p.roundCoverage > 0 THEN 1 ELSE 0)

(* Step applied n times to a frame; a step leaves a finished frame alone.  *)
Iterate(Step(_), frame, n) ==
    LET after[k \in 0..n] == IF k = 0 THEN frame ELSE Step(after[k - 1])
    IN  after[n]

-----------------------------------------------------------------------------
(* Time marks and premium.                                                 *)

NO_TIMESTAMP == 1
initTimeMark(s, n) ==
    [s EXCEPT !.marks = Put(@, n, [coverageTW |-> 0, timestamp |-> NO_TIMESTAMP])]

(* Extends the coverage-over-time integral of the partial batch to now.    *)
updateTimeMark(s, part, unitPerRound) ==
    LET mark == s.marks[part.batchNo]
        added == (UnitSize * part.roundNo * unitPerRound + part.roundCoverage)
                 * (now - mark.timestamp)
    IN  [s EXCEPT !.marks[part.batchNo] =
            [coverageTW |-> IF mark.timestamp <= NO_TIMESTAMP THEN 0 ELSE mark.coverageTW + added,
             timestamp  |-> now]]

calcTimeMarkPortion(tw, unitPerRound, roundUnits) == CeilDiv(tw * unitPerRound, roundUnits)

calcPremium(s, n, unitPerRound, premium, rounds, pendingCovered, rate, batchUnits) ==
    LET mark    == s.marks[n]
        accrued == IF premium.lastUpdatedAt = 0 THEN 0
                   ELSE premium.coveragePremiumRate * (mark.timestamp - premium.lastUpdatedAt)
        portion == IF mark.coverageTW = 0 THEN 0
                   ELSE calcTimeMarkPortion(rate * mark.coverageTW, unitPerRound, UnitSize * batchUnits)
    IN  [coveragePremium     |-> premium.coveragePremium + accrued + portion,
         coveragePremiumRate |-> premium.coveragePremiumRate + rate * rounds * unitPerRound
                                 + CeilDiv(pendingCovered * rate, UnitSize),
         lastUpdatedAt       |-> mark.timestamp]

addPartialToTotalPremium(s, n, premium, b) ==
    calcPremium(s, n, 1, premium, b.rounds, 0, b.roundPremiumRateSum, b.unitPerRound)

(* What a premium record is worth at time t. *)
PremiumAt(p, t) ==
    p.coveragePremium + (IF p.lastUpdatedAt = 0 THEN 0 ELSE p.coveragePremiumRate * (t - p.lastUpdatedAt))

-----------------------------------------------------------------------------
(* Sets of insureds with more demand, one EnumerableSet per batch.         *)

PullableAt(s, n) == IF n \in DOMAIN s.pullableDemands THEN s.pullableDemands[n] ELSE <<>>

addToPullable(s, insured, n) ==
    [s EXCEPT !.pullableDemands =
        Put(@, n, IF Contains(PullableAt(s, n), insured)
                  THEN PullableAt(s, n) ELSE Append(PullableAt(s, n), insured))]

(* EnumerableSet.remove: the last element takes the place of the removed.  *)
SwapRemove(q, x) ==
    LET i == CHOOSE k \in DOMAIN q : q[k] = x
    IN  IF Contains(q, x) THEN Front([q EXCEPT ![i] = Last(q)]) ELSE q

removeFromPullable(s, insured, n) ==
    IF n \notin DOMAIN s.pullableDemands THEN s
    ELSE [s EXCEPT !.pullableDemands[n] = SwapRemove(@, insured)]

-----------------------------------------------------------------------------
(* Adding demand.                                                          *)

(* The rounds of b that a split moves into batch n. *)
FaultyMovedAll(b, remaining, n) ==                        \* none stay behind
    [b EXCEPT !.totalUnitsBeforeBatch = @ + remaining * b.unitPerRound]
MovedRounds(b, remaining, n) ==
    [b EXCEPT !.totalUnitsBeforeBatch = @ + remaining * b.unitPerRound,
              !.rounds = @ - remaining]

(***************************************************************************)
(* Leaves the first "remaining" rounds in b and moves the rest into a new  *)
(* batch behind it.  The caller stores b.                                  *)
(***************************************************************************)
splitBatch(s, remaining, b) ==
    LET n     == s.batchCount + 1
        moved == MovedRounds(b, remaining, n)
    IN  IF b.rounds = remaining THEN [s |-> s, b |-> b, panic |-> FALSE]
        ELSE [s |-> [initTimeMark(PutBatch(s, n, moved), n) EXCEPT
                        !.batchCount = n,
                        !.latestBatchNo = IF b.nextBatchNo = 0 THEN n ELSE @],
              b |-> [b EXCEPT !.rounds = remaining, !.nextBatchNo = n],
              panic |-> b.rounds < remaining]

splitStoredBatch(s, remaining, n) ==
    LET split == splitBatch(s, remaining, BatchAt(s, n))
    IN  [s |-> PutBatch(split.s, n, split.b), next |-> split.b.nextBatchNo, panic |-> split.panic]

(***************************************************************************)
(* The batch where an insured's demand starts.  A partial batch is split   *)
(* first: the rounds with coverage stay behind, and are closed at once     *)
(* when none of them is half-filled.                                       *)
(***************************************************************************)
findBatchToAppend(s, nextBatchNo) ==
    LET this  == IF nextBatchNo # 0 /\ isOpen(BatchAt(s, nextBatchNo))
                 THEN nextBatchNo ELSE s.firstOpenBatchNo
        b     == BatchAt(s, this)
        part  == s.partial
        split == splitBatch(s, PartialRounds(part), b)
        closed == IF part.roundCoverage # 0 THEN PutBatch(split.s, this, split.b)
                  ELSE [PutBatch(split.s, this, [split.b EXCEPT !.state = "Full"]) EXCEPT
                           !.poolPremium = addPartialToTotalPremium(split.s, this, @, split.b),
                           !.partial = [roundCoverage |-> 0, batchNo |-> split.b.nextBatchNo, roundNo |-> 0]]
        after == [closed EXCEPT !.firstOpenBatchNo = IF @ = this THEN split.b.nextBatchNo ELSE @]
        found(t, n, panic) == [s |-> t, b |-> BatchAt(t, n), batchNo |-> n,
                               isFirstOfOpen |-> n = t.firstOpenBatchNo, panic |-> panic]
    IN  CASE s.firstOpenBatchNo = 0 ->
               found([initTimeMark(s, 1) EXCEPT !.latestBatchNo = 1, !.batchCount = 1,
                                                !.partial.batchNo = 1, !.firstOpenBatchNo = 1],
                     1, s.batchCount # 0 \/ nextBatchNo # 0)
          [] s.firstOpenBatchNo # 0 /\ b.nextBatchNo = 0 ->
               found(s, this, b.rounds # 0)
          [] s.firstOpenBatchNo # 0 /\ b.nextBatchNo # 0 /\ part.batchNo = this /\ PartialRounds(part) > 0 ->
               found(after, split.b.nextBatchNo, split.panic)
          [] OTHER -> found(s, this, FALSE)

FaultyAdjustedTotalUnits(s, units) == units               \* cancelled coverage still in
adjustedTotalUnits(s, units) ==
    IF s.pendingCoverage >= units THEN 0 ELSE units - s.pendingCoverage

(* An empty batch gets rounds; the last one also gets an empty successor.  *)
appendRounds(f) ==
    LET appended == internalBatchAppend(f.openRounds, f.unitCount)
        n        == f.s.batchCount + 1
        isLast   == f.b.nextBatchNo = 0
    IN  CASE f.b.rounds # 0 -> f
          [] f.b.rounds = 0 /\ appended.rounds = 0 ->
               [f EXCEPT !.done = TRUE, !.panic = @ \/ appended.panic]
          [] OTHER ->
               [f EXCEPT !.b.rounds = appended.rounds,
                         !.b.nextBatchNo = IF isLast THEN n ELSE @,
                         !.openRounds = @ + appended.rounds,
                         !.updateBatch = TRUE,
                         !.s = IF isLast THEN [initTimeMark(@, n) EXCEPT !.batchCount = n, !.latestBatchNo = n]
                               ELSE @]

(* Units the insured adds to every round of f.b. *)
unitsToAdd(f, limits) ==
    IF limits.share = 0 \/ f.b.unitPerRound >= limits.max THEN 0
    ELSE Min({limits.max - f.b.unitPerRound, limits.share, f.unitCount \div f.b.rounds})

addUnits(f, limits, add) ==
    LET units == f.b.unitPerRound + add
        state == IF units < limits.min THEN f.b.state
                 ELSE IF f.isFirstOfOpen /\ units >= limits.ready THEN "Ready" ELSE "ReadyMin"
    IN  [f EXCEPT !.b.unitPerRound = units, !.b.roundPremiumRateSum = @ + f.rate * add, !.b.state = state,
                  !.addPerRound = add, !.takeNext = limits.share > 0]

addWithinLimits(f, limits) == addUnits(f, limits, unitsToAdd(f, limits))
addToRounds(f) ==
    addWithinLimits(f, internalRoundLimits(adjustedTotalUnits(f.s, f.b.totalUnitsBeforeBatch), f.b.rounds,
                                           f.b.unitPerRound, f.entry.demandedUnits, MaxShare[f.insured]))

withSplit(f, split) == [f EXCEPT !.s = split.s, !.b = split.b, !.panic = @ \/ split.panic]

(* Units of the insured into every round of the open batch f.b, which is   *)
(* split when there are fewer units than rounds.                           *)
addToBatch(f) ==
    LET splitRounds == internalBatchSplit(f.entry.demandedUnits, MinUnits[f.insured], f.b.rounds, f.unitCount)
    IN  CASE f.unitCount >= f.b.rounds -> addToRounds(f)
          [] f.unitCount < f.b.rounds /\ splitRounds = 0 ->
               [f EXCEPT !.addPerRound = 0, !.takeNext = FALSE]
          [] OTHER -> addToRounds(withSplit(f, splitBatch(f.s, splitRounds, f.b)))

unitsAdded(f) == [f EXCEPT !.updateBatch = (@ \/ f.addPerRound > 0) /\ f.b.unitPerRound # 0,
                           !.done = f.b.unitPerRound = 0]

keepFirstOpen(f) ==
    IF f.done \/ ~f.isFirstOfOpen \/ ~isOpen(f.b) THEN f
    ELSE [f EXCEPT !.s.firstOpenBatchNo = f.batchNo, !.isFirstOfOpen = FALSE]

addToOpenBatch(f) ==
    CASE f.done -> f
      [] ~f.done /\ ~isOpen(f.b) -> [f EXCEPT !.addPerRound = 0]
      [] OTHER -> keepFirstOpen(unitsAdded(addToBatch(f)))

FaultyPushDemand(log, d) == Append(log, d)                \* an empty slot too
PushDemand(log, d) == IF d.unitPerRound = 0 THEN log ELSE Append(log, d)

continuesSlot(f) == f.demand.unitPerRound = f.addPerRound /\ f.demand.premiumRate = f.rate

(* Writes the added units to the insured's log: a slot is a run of batches *)
(* with the same units per round and rate.                                 *)
recordSlot(f) ==
    LET units    == f.addPerRound * f.b.rounds
        slot     == CASE f.b.rounds = 0 -> f
                      [] f.b.rounds > 0 /\ continuesSlot(f) -> [f EXCEPT !.demand.rounds = @ + f.b.rounds]
                      [] OTHER -> [f EXCEPT !.log = PushDemand(@, f.demand),
                                            !.demand = [startBatchNo |-> f.batchNo, premiumRate |-> f.rate,
                                                        rounds |-> f.b.rounds, unitPerRound |-> f.addPerRound]]
    IN  IF f.done THEN f
        ELSE [slot EXCEPT !.unitCount = @ - units, !.entry.demandedUnits = @ + units,
                          !.done = ~f.takeNext]

takeNextBatch(f) ==
    LET s    == PutBatch(f.s, f.batchNo, f.b)
        next == BatchAt(s, f.b.nextBatchNo)
        total == f.b.totalUnitsBeforeBatch + UnitsOf(f.b)
    IN  IF f.done THEN f
        ELSE [f EXCEPT !.s = s, !.batchNo = f.b.nextBatchNo, !.entry.nextBatchNo = f.b.nextBatchNo,
                       !.b = [next EXCEPT !.totalUnitsBeforeBatch = total],
                       !.updateBatch = next.totalUnitsBeforeBatch # total,
                       !.done = f.unitCount = 0 \/ f.loopLimit = 0]

addDemandStep(f) ==
    IF f.done THEN f
    ELSE takeNextBatch(recordSlot(addToOpenBatch(appendRounds([f EXCEPT !.loopLimit = @ - 1]))))

setPullBatch(s, insured, old, pull) ==
    LET unpulled == IF old \in {0, pull} THEN s ELSE removeFromPullable(s, insured, old)
    IN  IF pull \in {0, old} THEN unpulled ELSE addToPullable(unpulled, insured, pull)

(* The local variables at the start, the rounds with coverage set aside.   *)
demandFrame(found, insured, unitCount, rate, loopLimit) ==
    LET partialRounds == PartialRounds(found.s.partial)
    IN  [s |-> found.s, b |-> found.b, batchNo |-> found.batchNo,
         isFirstOfOpen |-> found.isFirstOfOpen, insured |-> insured, rate |-> rate,
         entry |-> found.s.insureds[insured], demand |-> NoDemand, log |-> found.s.demands[insured],
         openRounds |-> found.s.openRounds - partialRounds, partialRounds |-> partialRounds,
         unitCount |-> unitCount, loopLimit |-> loopLimit, addPerRound |-> 0,
         updateBatch |-> FALSE, takeNext |-> FALSE, done |-> FALSE,
         panic |-> found.panic \/ found.s.openRounds < partialRounds]

demandAdded(f, hasMore) ==
    LET stored == IF f.updateBatch THEN PutBatch(f.s, f.batchNo, f.b) ELSE f.s
        more   == hasMore \/ internalIsEnoughForMore(f.entry.demandedUnits, MinUnits[f.insured], f.unitCount)
        pulled == setPullBatch(stored, f.insured, f.s.insureds[f.insured].nextBatchNo,
                               IF more THEN f.batchNo ELSE 0)
    IN  [s |-> [pulled EXCEPT !.openRounds = f.openRounds + f.partialRounds,
                              !.insureds[f.insured] = f.entry,
                              !.demands[f.insured] = PushDemand(f.log, f.demand),
                              !.firstOpenBatchNo = IF f.isFirstOfOpen THEN f.batchNo ELSE @],
         remaining |-> f.unitCount, panic |-> f.panic]

(* The check of params.minPremiumRate at the start is left out: it refuses *)
(* a rate that an insurer would not take, whatever the state.              *)
internalAddCoverageDemand(s, insured, unitCount, rate, hasMore, loopLimit) ==
    demandAdded(Iterate(addDemandStep,
                        demandFrame(findBatchToAppend(s, s.insureds[insured].nextBatchNo),
                                    insured, unitCount, rate, loopLimit),
                        loopLimit),
                hasMore)

-----------------------------------------------------------------------------
(* Adding coverage.                                                        *)

(***************************************************************************)
(* The batch f.b has coverage in all its rounds: it becomes Full and the   *)
(* next one, if any, the partial batch.  The loop ends here when there is  *)
(* no coverage left, no next batch, or the next one is not ready.          *)
(***************************************************************************)
closeFullBatch(f) ==
    LET wasOpen == f.b.state # "Full"
        this  == f.part.batchNo
        s1    == IF wasOpen \/ f.batchUpdated
                 THEN PutBatch(f.s, this, [f.b EXCEPT !.state = "Full"]) ELSE f.s
        next  == BatchAt(s1, f.b.nextBatchNo)
        total == f.b.totalUnitsBeforeBatch + UnitsOf(f.b)
        closed == [f EXCEPT
            !.b.state = "Full", !.batchUpdated = FALSE, !.s = s1,
            !.premium = IF wasOpen /\ f.b.unitPerRound # 0
                        THEN addPartialToTotalPremium(f.s, this, @, f.b) ELSE @,
            !.openBatchNo = IF @ = this THEN f.b.nextBatchNo ELSE @,
            !.panic = \/ @
                      \/ f.part.roundNo # f.b.rounds
                      \/ f.part.roundCoverage # 0
                      \/ wasOpen /\ f.b.unitPerRound = 0 /\ f.b.rounds # 0
                      \/ f.b.nextBatchNo # 0 /\ f.s.openRounds < f.b.rounds]
    IN  IF f.b.nextBatchNo = 0 THEN [closed EXCEPT !.done = TRUE]
        ELSE [closed EXCEPT
            !.part = [batchNo |-> f.b.nextBatchNo, roundNo |-> 0, roundCoverage |-> 0],
            !.s.openRounds = @ - f.b.rounds,
            !.b = [next EXCEPT !.totalUnitsBeforeBatch = total],
            !.batchUpdated = next.totalUnitsBeforeBatch # total,
            !.done = f.amount = 0 \/ ~isReady(next)]

(* Coverage into the vacant rounds of f.b, the last one possibly partial.  *)
fillRounds(f) ==
    LET perRound == UnitSize * f.b.unitPerRound
        rounds   == f.amount \div perRound
        vacant   == f.b.rounds - f.part.roundNo
        g        == [f EXCEPT !.s = updateTimeMark(@, f.part, f.b.unitPerRound)]
    IN  IF perRound = 0 THEN [f EXCEPT !.panic = TRUE, !.done = TRUE]
        ELSE IF rounds < vacant
        THEN [g EXCEPT !.part.roundNo = @ + rounds,
                       !.part.roundCoverage = f.amount - rounds * perRound,
                       !.amount = 0, !.done = TRUE]
        ELSE [g EXCEPT !.part.roundNo = f.b.rounds, !.amount = @ - perRound * vacant]

addCoverageStep(f) ==
    LET g == [f EXCEPT !.loopLimit = @ - 1]
        closed == closeFullBatch(g)
        filled == fillRounds(g)
    IN  CASE f.done -> f
          [] ~f.done /\ f.part.roundNo >= f.b.rounds ->
               [closed EXCEPT !.done = @ \/ closed.loopLimit = 0]
          [] OTHER -> [filled EXCEPT !.done = @ \/ filled.loopLimit = 0]

internalAddCoverage(s, amount, loopLimit) ==
    LET part   == s.partial
        b      == BatchAt(s, part.batchNo)
        vacant == UnitSize * b.unitPerRound - part.roundCoverage
        marked == IF part.roundCoverage = 0 THEN s ELSE updateTimeMark(s, part, b.unitPerRound)
        blocked == part.roundCoverage = 0 /\ ~isReady(b) /\ (b.rounds > 0 \/ b.nextBatchNo = 0)
        full   == part.roundCoverage > 0
        f == Iterate(addCoverageStep,
                [s |-> marked, b |-> b,
                 amount |-> IF full THEN amount - vacant ELSE amount,
                 part |-> IF full THEN [part EXCEPT !.roundCoverage = 0, !.roundNo = @ + 1] ELSE part,
                 premium |-> s.poolPremium, openBatchNo |-> s.firstOpenBatchNo,
                 batchUpdated |-> FALSE, loopLimit |-> loopLimit, done |-> FALSE,
                 panic |-> full /\ ~isReady(b)],
                loopLimit)
        stored == IF f.batchUpdated THEN PutBatch(f.s, f.part.batchNo, f.b) ELSE f.s
    IN  CASE 0 \in {amount, part.batchNo} \/ blocked ->
               [s |-> s, remaining |-> amount, panic |-> FALSE]
          [] 0 \notin {amount, part.batchNo} /\ ~blocked /\ full /\ amount < vacant ->
               [s |-> [marked EXCEPT !.partial.roundCoverage = @ + amount],
                remaining |-> 0, panic |-> ~isReady(b)]
          [] OTHER ->
               [s |-> [stored EXCEPT !.partial = f.part, !.poolPremium = f.premium,
                                     !.firstOpenBatchNo = f.openBatchNo],
                remaining |-> f.amount, panic |-> f.panic \/ f.openBatchNo = 0]

-----------------------------------------------------------------------------
(* Collecting coverage of an insured.                                      *)

(* One full batch of the slot d, its rounds not yet collected.             *)
collectBatch(f) ==
    LET b == BatchAt(f.s, f.d.startBatchNo)
    IN  CASE f.done -> f
          [] ~f.done /\ (f.d.rounds <= f.fullRounds \/ ~isFull(b)) -> [f EXCEPT !.done = TRUE]
          [] OTHER -> [f EXCEPT
                !.fullRounds = @ + b.rounds,
                !.premium = IF b.rounds = 0 THEN @
                            ELSE calcPremium(f.s, f.d.startBatchNo, f.d.unitPerRound, @,
                                             b.rounds, 0, f.d.premiumRate, b.unitPerRound),
                !.d.startBatchNo = b.nextBatchNo,
                !.panic = @ \/ (b.nextBatchNo = 0 /\ f.fullRounds + b.rounds < f.d.rounds)]

(* Collected units of the slot d without those of the partial batch. *)
FaultyWithoutPartial(old, d) == old.coveredUnits
withoutPartial(old, d) == old.coveredUnits - old.lastPartialRoundNo * d.unitPerRound

(* The slot is collected as a whole, and the next one from its beginning. *)
FaultySlotCollected(old, units) ==
    [old EXCEPT !.coveredUnits = units, !.lastUpdateIndex = @ + 1]
slotCollected(old, units) ==
    [NoCoverage EXCEPT !.coveredUnits = units, !.lastUpdateIndex = old.lastUpdateIndex + 1]

(***************************************************************************)
(* Collects the slot d = demands[c.covered.lastUpdateIndex] into c: the    *)
(* full batches behind the last collected one, and the full rounds of the  *)
(* partial batch, which are taken back at the next collection.  "total" is *)
(* the insured's premium including the partial batch.                      *)
(***************************************************************************)
collectCoveredDemandSlot(s, slot, c) ==
    LET old == c.covered
        d   == IF old.lastUpdateRounds = 0 THEN slot
               ELSE [slot EXCEPT !.rounds = @ - old.lastUpdateRounds,
                                 !.startBatchNo = old.lastUpdateBatchNo]
        f   == Iterate(collectBatch,
                  [s |-> s, d |-> d, fullRounds |-> 0, premium |-> c.premium,
                   done |-> FALSE, panic |-> c.panic], s.batchCount + 1)
        units == withoutPartial(old, d) + f.fullRounds * d.unitPerRound
        part  == s.partial
        b     == BatchAt(s, f.d.startBatchNo)
        inPartial == part.batchNo = f.d.startBatchNo
        pending   == (part.roundCoverage * d.unitPerRound) \div b.unitPerRound
    IN  CASE d.rounds <= f.fullRounds ->
               [c EXCEPT !.covered = slotCollected(old, units),
                         !.premium = f.premium, !.total = f.premium,
                         !.panic = f.panic \/ d.rounds # f.fullRounds]
          [] d.rounds > f.fullRounds /\ inPartial /\ PartialRounds(part) > 0 ->
               [c EXCEPT !.covered = [coveredUnits |-> units + part.roundNo * d.unitPerRound,
                                      lastUpdateIndex |-> old.lastUpdateIndex,
                                      lastUpdateBatchNo |-> f.d.startBatchNo,
                                      lastUpdateRounds |-> old.lastUpdateRounds + f.fullRounds,
                                      lastPartialRoundNo |-> part.roundNo],
                         !.premium = f.premium, !.pendingCovered = pending, !.done = TRUE,
                         !.total = calcPremium(s, f.d.startBatchNo, d.unitPerRound, f.premium,
                                               part.roundNo, pending, d.premiumRate, b.unitPerRound),
                         !.panic = f.panic]
          [] OTHER ->
               [c EXCEPT !.covered = [coveredUnits |-> units,
                                      lastUpdateIndex |-> old.lastUpdateIndex,
                                      lastUpdateBatchNo |-> f.d.startBatchNo,
                                      lastUpdateRounds |-> old.lastUpdateRounds + f.fullRounds,
                                      lastPartialRoundNo |-> 0],
                         !.premium = f.premium, !.total = f.premium, !.done = TRUE,
                         !.panic = f.panic]

(* Collects at most loopLimit slots of the insured's log.                  *)
internalGetCoveredDemand(s, insured, loopLimit) ==
    LET log == s.demands[insured]
        collect(c) == IF c.done \/ c.covered.lastUpdateIndex >= Len(log) THEN [c EXCEPT !.done = TRUE]
                      ELSE collectCoveredDemandSlot(s, log[c.covered.lastUpdateIndex + 1], c)
        start == [covered |-> s.covered[insured], premium |-> s.premiums[insured],
                  total |-> s.premiums[insured], pendingCovered |-> 0,
                  done |-> FALSE, panic |-> FALSE]
        c == Iterate(collect, start, Min({loopLimit, Len(log) + 1}))
    IN  IF log = <<>> THEN [start EXCEPT !.covered = NoCoverage, !.done = TRUE] ELSE c

-----------------------------------------------------------------------------
(* Cancelling uncovered demand, from the head of the list (LIFO).          *)

(* Skips a full batch of the slot.                                         *)
skipFullBatch(f) ==
    LET b == BatchAt(f.s, f.batchNo)
        skipped == f.skippedRounds + b.rounds
    IN  CASE f.done -> f
          [] ~f.done /\ skipped >= f.rounds ->
               [f EXCEPT !.skippedRounds = skipped, !.done = TRUE, !.allFull = TRUE,
                         !.panic = skipped # f.rounds]
          [] OTHER -> [f EXCEPT !.skippedRounds = skipped, !.batchNo = b.nextBatchNo,
                                !.done = b.nextBatchNo = f.s.partial.batchNo]

(* Splits a batch of which all rounds are kept.                            *)
FaultySkipExcess(f) ==
    LET b == BatchAt(f.s, f.batchNo)
        split == splitStoredBatch(f.s, b.rounds - f.excess, f.batchNo)
    IN  CASE f.excess = 0 -> f
          [] f.excess > 0 /\ b.rounds < f.excess ->
               [f EXCEPT !.skippedRounds = @ + b.rounds, !.excess = @ - b.rounds,
                         !.batchNo = b.nextBatchNo]
          [] f.excess > 0 /\ b.rounds >= f.excess /\ f.batchNo = f.s.partial.batchNo ->
               [f EXCEPT !.s = split.s, !.batchNo = split.next, !.excess = 0]
          [] OTHER -> [f EXCEPT !.neededRounds = @ + b.rounds - f.excess, !.excess = 0]

(* Skips a batch that keeps the excess rounds, or splits it at the excess. *)
skipExcess(f) ==
    LET b == BatchAt(f.s, f.batchNo)
        split == splitStoredBatch(f.s, b.rounds - f.excess, f.batchNo)
    IN  CASE f.excess = 0 -> f
          [] f.excess > 0 /\ b.rounds <= f.excess ->
               [f EXCEPT !.skippedRounds = @ + b.rounds, !.excess = @ - b.rounds,
                         !.batchNo = b.nextBatchNo]
          [] f.excess > 0 /\ b.rounds > f.excess /\ f.batchNo = f.s.partial.batchNo ->
               [f EXCEPT !.s = split.s, !.batchNo = split.next, !.excess = 0]
          [] OTHER ->                     \* internalCanSplitBatchOnCancel is FALSE
               [f EXCEPT !.neededRounds = @ + b.rounds - f.excess, !.excess = 0]

(***************************************************************************)
(* Finds the batch where unitCount units of the slot d can be cancelled:   *)
(* covered batches and rounds are skipped, then the rounds in excess.      *)
(***************************************************************************)
findUncoveredBatch(s, d, unitCount) ==
    LET part == s.partial
        isFullStart == d.startBatchNo # part.batchNo /\ isFull(BatchAt(s, d.startBatchNo))
        start == [s |-> s, batchNo |-> d.startBatchNo, rounds |-> d.rounds, skippedRounds |-> 0,
                  done |-> FALSE, allFull |-> FALSE, panic |-> FALSE]
        f    == IF isFullStart THEN Iterate(skipFullBatch, start, s.batchCount + 1) ELSE start
        reachesPartial == isFullStart \/ d.startBatchNo = part.batchNo
        partialRounds  == IF reachesPartial THEN PartialRounds(part) ELSE 0
        needed == CeilDiv(unitCount, d.unitPerRound)
        split  == splitStoredBatch(s, partialRounds, f.batchNo)
        g      == Iterate(skipExcess,
                     [s |-> s, batchNo |-> f.batchNo, skippedRounds |-> f.skippedRounds,
                      neededRounds |-> needed, excess |-> d.rounds - f.skippedRounds - needed],
                     s.batchCount + 1)
        whole  == d.rounds <= f.skippedRounds + partialRounds + needed
        result(t, done, n, units, skipped, panic) ==
            [s |-> t, done |-> done, batchNo |-> n, units |-> units,
             skippedRounds |-> skipped, panic |-> panic]
    IN  CASE f.allFull -> result(s, TRUE, f.batchNo, 0, f.skippedRounds, f.panic)
          [] ~f.allFull /\ whole /\ partialRounds > 0 ->
               result(split.s, reachesPartial, split.next,
                      (d.rounds - f.skippedRounds - partialRounds) * d.unitPerRound,
                      f.skippedRounds + partialRounds,
                      split.panic \/ d.rounds < f.skippedRounds + partialRounds)
          [] ~f.allFull /\ whole /\ partialRounds = 0 ->
               result(s, reachesPartial, f.batchNo,
                      (d.rounds - f.skippedRounds) * d.unitPerRound, f.skippedRounds, FALSE)
          [] OTHER -> result(g.s, TRUE, g.batchNo, g.neededRounds * d.unitPerRound, g.skippedRounds, FALSE)

adjustFound(f, d, found) ==
    [f EXCEPT !.s = found.s, !.index = @ - 1, !.loopLimit = @ - 1,
              !.demand = d, !.batchNo = found.batchNo, !.units = @ + found.units,
              !.skippedRounds = found.skippedRounds, !.done = found.done,
              !.rateBands = @ + (IF f.demand.premiumRate # d.premiumRate THEN 1 ELSE 0),
              !.panic = @ \/ f.unitCount < f.units
                            \/ found.panic \/ (~found.done /\ found.skippedRounds # 0)]

(* Nothing to cancel in the slot: the previous one is the first.           *)
backToPrevious(f, next) ==
    IF next.done /\ next.skippedRounds = next.demand.rounds
    THEN [next EXCEPT !.index = f.index, !.demand = f.demand,
                      !.batchNo = f.demand.startBatchNo, !.skippedRounds = 0,
                      !.panic = @ \/ next.units # f.units]
    ELSE next

(* One slot of the log, from the last one down; index counts from 1.       *)
findAndAdjustStep(f) ==
    LET d == f.log[f.index - 1]
    IN  IF f.done \/ f.index = 1 \/ f.loopLimit = 0 THEN [f EXCEPT !.done = TRUE]
        ELSE backToPrevious(f, adjustFound(f, d, findUncoveredBatch(f.s, d, f.unitCount - f.units)))

(* Sum of the premium rates of a round of b without the slot d. *)
rateSumWithout(b, d) ==
    IF b.unitPerRound = d.unitPerRound THEN 0
    ELSE b.roundPremiumRateSum - d.unitPerRound * d.premiumRate

(* Takes the units of the slot d out of a batch that is not covered.       *)
adjustUncoveredBatch(f) ==
    LET b     == BatchAt(f.s, f.batchNo)
        empty == b.unitPerRound = f.d.unitPerRound
        left  == b.unitPerRound - f.d.unitPerRound
        adjusted == [b EXCEPT
            !.rounds = IF empty THEN 0 ELSE @,
            !.unitPerRound = left,
            !.roundPremiumRateSum = rateSumWithout(b, f.d),
            !.totalUnitsBeforeBatch = f.total,
            !.state = IF @ = "Ready" THEN "ReadyMin" ELSE @]
    IN  IF f.rounds = 0 THEN f
        ELSE [f EXCEPT !.s = [PutBatch(@, f.batchNo, adjusted) EXCEPT
                                 !.openRounds = @ - (IF empty THEN b.rounds ELSE 0)],
                       !.rounds = @ - b.rounds,
                       !.total = @ + b.rounds * left,
                       !.batchNo = b.nextBatchNo,
                       !.panic = @ \/ left < 0 \/ b.rounds > f.rounds
                                   \/ (empty /\ f.s.openRounds < b.rounds)]

adjustUncoveredBatches(f, n, rounds, total, d) ==
    Iterate(adjustUncoveredBatch,
            [s |-> f.s, batchNo |-> n, rounds |-> rounds, total |-> total, d |-> d, panic |-> f.panic],
            f.s.batchCount + 1)

(* A slot above the first cancelled one: all its batches are adjusted.     *)
adjustUncoveredSlot(f) ==
    LET d     == f.log[f.index]
        before == BatchAt(f.s, d.startBatchNo).totalUnitsBeforeBatch
        total == IF d.startBatchNo = f.batchNo THEN f.total
                 ELSE IF before > f.adjustment THEN before - f.adjustment ELSE 0
        g     == adjustUncoveredBatches(f, d.startBatchNo, d.rounds, total, d)
    IN  IF f.index > Len(f.log) THEN f
        ELSE [f EXCEPT !.s = g.s, !.batchNo = g.batchNo, !.total = g.total, !.panic = g.panic,
                       !.index = @ + 1, !.adjustment = @ + d.rounds * d.unitPerRound]

(* Number of runs of equal premium rates, which size the returned array.   *)
BandCount(log) ==
    Cardinality({i \in DOMAIN log : i = Len(log) \/ log[i].premiumRate # log[i + 1].premiumRate})

(* The log up to the slot of which "left" remains. *)
FaultyTruncated(kept, left) == kept
truncated(kept, left) == IF left.rounds = 0 THEN kept ELSE Append(kept, left)

(* The first cancelled slot, of which the rounds before f.batchNo remain.  *)
adjustFirstSlot(f, insured) ==
    adjustUncoveredBatches(
        [f EXCEPT !.s.insureds[insured].nextBatchNo = f.batchNo,
                  !.s.insureds[insured].demandedUnits = @ - f.units,
                  !.panic = @ \/ f.demand.rounds <= f.skippedRounds
                               \/ f.s.insureds[insured].demandedUnits < f.units],
        f.batchNo, f.demand.rounds - f.skippedRounds,
        BatchAt(f.s, f.batchNo).totalUnitsBeforeBatch, f.demand)

adjustUncoveredSlots(f, first) ==
    Iterate(adjustUncoveredSlot,
            [s |-> first.s, log |-> f.log, index |-> f.index + 1, batchNo |-> first.batchNo,
             total |-> first.total, panic |-> first.panic,
             adjustment |-> (f.demand.rounds - f.skippedRounds) * f.demand.unitPerRound],
            Len(f.log))

demandCancelled(f, insured, g) ==
    [s |-> [g.s EXCEPT !.pendingDemand = @ + g.adjustment,
                       !.demands[insured] = truncated(SubSeq(f.log, 1, f.index - 1),
                                                      [f.demand EXCEPT !.rounds = f.skippedRounds])],
     cancelled |-> f.units,
     panic |-> g.panic \/ BandCount(SubSeq(f.log, f.index, Len(f.log))) # f.rateBands]

cancelFound(f, insured) ==
    IF f.units = 0 THEN [s |-> f.s, cancelled |-> 0, panic |-> f.panic]
    ELSE demandCancelled(f, insured, adjustUncoveredSlots(f, adjustFirstSlot(f, insured)))

internalCancelCoverageDemand(s0, insured, unitCount, loopLimit) ==
    LET entry == s0.insureds[insured]
        s     == removeFromPullable(s0, insured, entry.nextBatchNo)
        log   == s.demands[insured]
    IN  IF 0 \in {unitCount, loopLimit} \/ entry.demandedUnits = s.covered[insured].coveredUnits
        THEN [s |-> s, cancelled |-> 0, panic |-> FALSE]
        ELSE cancelFound(
                Iterate(findAndAdjustStep,
                    [s |-> s, log |-> log, index |-> Len(log) + 1, loopLimit |-> loopLimit,
                     unitCount |-> unitCount, units |-> 0, demand |-> NoDemand, batchNo |-> 0,
                     skippedRounds |-> 0, rateBands |-> 0, done |-> FALSE, panic |-> FALSE],
                    Min({loopLimit, Len(log) + 1})),
                insured)

-----------------------------------------------------------------------------
(* Cancelling coverage, delayed adjustments, and auto-pull.                *)

(***************************************************************************)
(* Takes the insured's units per round out of the partial batch.  Coverage *)
(* of the partial round that no longer fits is returned as excess.         *)
(***************************************************************************)
cancelPartialCoverage(s0, d) ==
    LET part  == s0.partial
        b     == BatchAt(s0, part.batchNo)
        s     == updateTimeMark(s0, part, b.unitPerRound)
        mark  == s.marks[part.batchNo]
        units == b.unitPerRound - d.unitPerRound
        fits  == UnitSize * units
        kept  == IF units = 0 THEN 0 ELSE Min({part.roundCoverage, fits})
        excess == IF units = 0 THEN part.roundCoverage
                  ELSE IF part.roundCoverage > fits THEN part.roundCoverage - fits
                  ELSE IF part.roundCoverage > 0 THEN fits ELSE 0
        cut   == [PutBatch(s, part.batchNo, [b EXCEPT !.unitPerRound = units,
                      !.roundPremiumRateSum = @ - d.premiumRate * d.unitPerRound]) EXCEPT
                     !.marks[part.batchNo].coverageTW =
                         @ - calcTimeMarkPortion(@, d.unitPerRound, b.unitPerRound),
                     !.partial.roundCoverage = kept,
                     !.partial.roundNo = IF units = 0 THEN 0 ELSE @]
    IN  IF d.unitPerRound = 0 THEN [s |-> s, excess |-> 0, panic |-> FALSE]
        ELSE [s |-> cut, excess |-> excess, panic |-> units < 0]

(* Moves the insured's premium out of the rate of the pool.                *)
cancelPremium(s, insured, premium, finalPremium) ==
    LET pool == s.poolPremium
    IN  [s EXCEPT
            !.poolPremium =
                [coveragePremium     |-> PremiumAt(pool, now) + finalPremium - premium.coveragePremium
                                         - premium.coveragePremiumRate * (now - premium.lastUpdatedAt),
                 coveragePremiumRate |-> pool.coveragePremiumRate - premium.coveragePremiumRate,
                 lastUpdatedAt       |-> now],
            !.premiums[insured] = [coveragePremium |-> finalPremium, coveragePremiumRate |-> 0,
                                   lastUpdatedAt |-> now]]

(* The coverage c of the insured is collected, d is its slot in the        *)
(* partial batch: premium and partial round are settled, the log deleted.  *)
cancelCollected(s, insured, c, d) ==
    LET pending == [s EXCEPT !.pendingCoverage = @ + withoutPartial(c.covered, d)]
        cut     == cancelPartialCoverage(
                      cancelPremium(pending, insured, c.premium, PremiumAt(c.total, now)), d)
    IN  [s |-> [cut.s EXCEPT !.insureds[insured].demandedUnits = 0,
                             !.insureds[insured].nextBatchNo = 0,
                             !.covered[insured] = NoCoverage,
                             !.demands[insured] = <<>>],
         excess   |-> cut.excess,
         provided |-> c.covered.coveredUnits * UnitSize,
         received |-> (c.covered.coveredUnits - s.covered[insured].coveredUnits) * UnitSize,
         refused  |-> FALSE,
         panic    |-> \/ c.panic \/ cut.panic
                      \/ s.poolPremium.coveragePremiumRate < c.premium.coveragePremiumRate
                      \/ d = NoDemand /\ s.insureds[insured].demandedUnits # c.covered.coveredUnits]

nothingCancelled(s, refused) ==
    [s |-> s, excess |-> 0, provided |-> 0, received |-> 0, panic |-> FALSE, refused |-> refused]

(* No demand is left behind the partial round, or DemandMustBeCancelled(). *)
cancelSynced(s, insured, c) ==
    LET log   == s.demands[insured]
        inLog == c.covered.lastUpdateIndex < Len(log)
    IN  IF inLog /\ ~(/\ c.covered.lastUpdateIndex = Len(log) - 1
                     /\ c.covered.lastUpdateBatchNo = s.partial.batchNo
                     /\ c.covered.lastPartialRoundNo = s.partial.roundNo)
        THEN nothingCancelled(s, TRUE)
        ELSE cancelCollected(s, insured, c, IF inLog THEN log[c.covered.lastUpdateIndex + 1] ELSE NoDemand)

internalCancelCoverage(s0, insured) ==
    LET entry == s0.insureds[insured]
        s     == removeFromPullable(s0, insured, entry.nextBatchNo)
    IN  IF entry.demandedUnits = 0 THEN nothingCancelled(s0, FALSE)
        ELSE cancelSynced(s, insured, internalGetCoveredDemand(s, insured, Len(s.demands[insured]) + 1))

applyAdjustment(f) ==
    LET b == BatchAt(f.s, f.batchNo)
    IN  IF f.batchNo = 0 THEN f
        ELSE [s |-> PutBatch(f.s, f.batchNo, [b EXCEPT !.totalUnitsBeforeBatch = f.total]),
              total |-> f.total + UnitsOf(b), batchNo |-> b.nextBatchNo]

internalApplyAdjustmentsToTotals(s) ==
    LET n == s.partial.batchNo
        before == BatchAt(s, n).totalUnitsBeforeBatch
        f == Iterate(applyAdjustment,
                [s |-> [s EXCEPT !.pendingCoverage = 0, !.pendingDemand = 0],
                 batchNo |-> n, total |-> before - s.pendingCoverage], s.batchCount + 1)
    IN  IF s.pendingCoverage = 0 /\ s.pendingDemand = 0 THEN [s |-> s, panic |-> FALSE]
        ELSE [s |-> f.s, panic |-> before < s.pendingCoverage]

(***************************************************************************)
(* One batch of the search for an accepted insured with more demand.  The  *)
(* set is read from its end, insureds that are not accepted are removed,   *)
(* and each removal takes one from the loop limit as well.                 *)
(***************************************************************************)
pullStep(f) ==
    LET q      == PullableAt(f.s, f.batchNo)
        budget == f.loopLimit - 1
        ready  == {i \in DOMAIN q : f.s.insureds[q[i]].status = "Accepted"}
        others == Len(q) - (IF ready = {} THEN 0 ELSE Max(ready))
        found  == ready # {} /\ others <= budget
        kept   == Len(q) - Min({others, budget + 1}) - (IF found /\ ~f.peek THEN 1 ELSE 0)
        b      == BatchAt(f.s, f.batchNo)
        last   == found \/ ~isFull(b) \/ b.nextBatchNo = 0
    IN  IF f.done \/ f.loopLimit = 0 THEN f
        ELSE [f EXCEPT !.s = IF q = <<>> THEN @
                             ELSE [@ EXCEPT !.pullableDemands[f.batchNo] = SubSeq(q, 1, kept)],
                       !.found = IF found THEN {q[Max(ready)]} ELSE {},
                       !.loopLimit = budget - Min({others, budget}),
                       !.done = last, !.batchNo = IF last THEN @ ELSE b.nextBatchNo]

(* The insured to pull demand from next, if there is one.                  *)
internalPullDemandCandidate(s, loopLimit, peek) ==
    LET f == Iterate(pullStep,
                [s |-> s, batchNo |-> IF s.pullableBatchNo = 0 THEN 1 ELSE s.pullableBatchNo,
                 peek |-> peek, found |-> {}, loopLimit |-> loopLimit, done |-> FALSE], loopLimit)
    IN  [s |-> [f.s EXCEPT !.pullableBatchNo = f.batchNo], found |-> f.found]

-----------------------------------------------------------------------------
(* The operations as the pools call them, each one transaction.            *)

Init ==
    /\ insureds = [i \in Insureds |-> [nextBatchNo |-> 0, demandedUnits |-> 0, status |-> "Accepted"]]
    /\ demands = [i \in Insureds |-> <<>>]
    /\ covered = [i \in Insureds |-> NoCoverage]
    /\ premiums = [i \in Insureds |-> NoPremium]
    /\ batches = <<>> /\ marks = <<>> /\ pullableDemands = <<>>
    /\ batchCount = 0 /\ latestBatchNo = 0 /\ firstOpenBatchNo = 0 /\ openRounds = 0
    /\ poolPremium = NoPremium
    /\ partial = [roundCoverage |-> 0, batchNo |-> 0, roundNo |-> 0]
    /\ pendingCancelledCoverageUnits = 0 /\ pendingCancelledDemandUnits = 0
    /\ pullableBatchNo = 0
    /\ now = NO_TIMESTAMP + 1
    /\ allocated = 0

isActive(insured) == insureds[insured].status = "Accepted"

addCoverageDemand(insured) ==
    \E units \in UnitCounts, rate \in Rates, more \in HasMore, limit \in LoopLimits :
        \E r \in {internalAddCoverageDemand(Storage, insured, units, rate, more, limit)} :
            /\ isActive(insured)
            /\ insureds[insured].demandedUnits + units <= MaxDemand
            /\ ~r.panic
            /\ r.s.batchCount <= MaxBatches
            /\ Commit(r.s)
            /\ UNCHANGED <<now, allocated>>

addCoverage ==
    \E amount \in Amounts, limit \in CoverageLoopLimits :
        \E r \in {internalAddCoverage(Storage, amount, limit)} :
            /\ ~r.panic
            /\ Commit(r.s)
            /\ allocated' = allocated + amount - r.remaining
            /\ UNCHANGED now

receiveDemandedCoverage(insured) ==
    \E limit \in LoopLimits :
        \E c \in {internalGetCoveredDemand(Storage, insured, limit)} :
            /\ isActive(insured)
            /\ ~c.panic
            /\ covered' = [covered EXCEPT ![insured] = c.covered]
            /\ premiums' = [premiums EXCEPT ![insured] = c.premium]
            /\ UNCHANGED <<insureds, demands, batches, batchCount, latestBatchNo,
                           firstOpenBatchNo, openRounds, poolPremium, partial, marks,
                           pendingCancelledCoverageUnits, pendingCancelledDemandUnits,
                           pullableBatchNo, pullableDemands, now, allocated>>

cancelCoverageDemand(insured, units) ==
    \E limit \in LoopLimits :
        \E r \in {internalCancelCoverageDemand(Storage, insured, units, limit)} :
            /\ isActive(insured)
            /\ ~r.panic
            /\ r.s.batchCount <= MaxBatches
            /\ r.s.pendingDemand <= MaxDemand           \* bound
            /\ Commit(r.s)
            /\ UNCHANGED <<now, allocated>>

(* WeightedPoolExtension.cancelCoverage also ends the membership.          *)
cancelCoverage(insured) ==
    \E r \in {internalCancelCoverage(Storage, insured)} :
        /\ isActive(insured)
        /\ ~r.panic /\ ~r.refused
        /\ Commit([r.s EXCEPT !.insureds[insured].status = "Declined"])
        /\ allocated' = allocated - r.provided - r.excess
        /\ UNCHANGED now

applyPendingAdjustments ==
    \E r \in {internalApplyAdjustmentsToTotals(Storage)} :
        /\ ~r.panic
        /\ Commit(r.s)
        /\ UNCHANGED <<now, allocated>>

pullDemandCandidate ==
    \E limit \in LoopLimits, peek \in BOOLEAN :
        /\ Commit(internalPullDemandCandidate(Storage, limit, peek).s)
        /\ UNCHANGED <<now, allocated>>

Tick ==
    /\ now < MaxTime
    /\ now' = now + 1
    /\ UNCHANGED <<storageVars, allocated>>

Allocation ==
    \/ \E i \in Insureds : addCoverageDemand(i)
    \/ addCoverage
    \/ \E i \in Insureds : receiveDemandedCoverage(i)
    \/ pullDemandCandidate
    \/ Tick

DemandCancellation ==
    \/ \E i \in Insureds, units \in CancelUnits : cancelCoverageDemand(i, units)
    \/ applyPendingAdjustments

CoverageCancellation == \E i \in Insureds : cancelCoverage(i)

Next == Allocation \/ DemandCancellation \/ CoverageCancellation

Spec == Init /\ [][Next]_vars

(* Nothing is cancelled. *)
AllocationSpec == Init /\ [][Allocation]_vars
=============================================================================
