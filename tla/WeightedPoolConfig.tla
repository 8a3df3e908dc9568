------------------------- MODULE WeightedPoolConfig -------------------------
(***************************************************************************)
(* The strategies that insurer/WeightedPoolConfig.sol plugs into the       *)
(* weighted-rounds engine: when a batch of rounds is appended, how many    *)
(* units a round takes and from whom, when a batch is split, and when an   *)
(* insured is worth pulling demand from.  They are pure functions of the   *)
(* pool parameters, so this module has constants and no variables.         *)
(***************************************************************************)
EXTENDS Integers

CONSTANTS
    minUnitsPerRound,   \* a round can be covered from this many units on
    maxUnitsPerRound,   \* a round with this many units is Ready
    overUnitsPerRound,  \* hard limit of units in a round
    minAdvanceUnits,    \* units of demand appended at least
    maxAdvanceUnits     \* units of open demand kept at most

(* internalSetPoolParams rejects every other combination. *)
ASSUME PoolParamsAssumption ==
    /\ {minUnitsPerRound, maxUnitsPerRound, overUnitsPerRound,
        minAdvanceUnits, maxAdvanceUnits} \subseteq Nat
    /\ 0 < minUnitsPerRound
    /\ minUnitsPerRound <= maxUnitsPerRound
    /\ maxUnitsPerRound <= overUnitsPerRound
    /\ maxUnitsPerRound <= minAdvanceUnits
    /\ minAdvanceUnits <= maxAdvanceUnits

-----------------------------------------------------------------------------

ONE == 10000                                    \* basis points
percentMul(value, factor) == (value * factor + ONE \div 2) \div ONE

(* Rounds of the smallest batch and of all open batches together. *)
minRounds == minAdvanceUnits \div maxUnitsPerRound
maxRounds == maxAdvanceUnits \div maxUnitsPerRound

(***************************************************************************)
(* The number of rounds of a new batch, zero to refuse it.  "panic" is the *)
(* Sanity.require that ends the Solidity function.  The caps at 2^24       *)
(* rounds are left out.                                                    *)
(***************************************************************************)
internalBatchAppend(openRounds, unitCount) ==
    LET refused == /\ openRounds + minRounds > maxRounds
                   /\ \/ minRounds < maxRounds \div 2
                      \/ openRounds > maxRounds \div 2
        wanted  == unitCount \div minRounds
        vacant  == (maxRounds - openRounds) \div minRounds
        factor  == IF vacant < wanted THEN vacant ELSE wanted
    IN  CASE refused     -> [rounds |-> 0, panic |-> FALSE]
          [] ~refused /\ wanted <= 1
                         -> [rounds |-> minRounds, panic |-> FALSE]
          [] OTHER       -> [rounds |-> minRounds * factor, panic |-> factor = 0]

(* Units per round that the units allowed to an insured leave to it.  The  *)
(* faulty one, which the properties must notice, forgets its other units.  *)
FaultyShareLeft(allowed, demandedUnits, rounds) == allowed \div rounds
shareLeft(allowed, demandedUnits, rounds) ==
    IF allowed < demandedUnits + rounds THEN 0 ELSE (allowed - demandedUnits) \div rounds

(***************************************************************************)
(* Limits for adding units of one insured to a batch: the units per round  *)
(* its share still allows, and the sizes from which the round is ReadyMin, *)
(* is Ready, and takes no more.                                            *)
(***************************************************************************)
internalRoundLimits(totalUnitsBeforeBatch, rounds, unitPerRound, demandedUnits, maxShare) ==
    LET fullUnits == totalUnitsBeforeBatch + rounds *
                     (IF unitPerRound < minUnitsPerRound THEN minUnitsPerRound ELSE unitPerRound + 1)
        share     == shareLeft(percentMul(fullUnits, maxShare), demandedUnits, rounds)
        fillsUp   == /\ share > 0
                     /\ unitPerRound + share >= maxUnitsPerRound
                     /\ unitPerRound < minUnitsPerRound
    IN  [share |-> share,
         min   |-> IF fillsUp THEN unitPerRound + 1 ELSE minUnitsPerRound,
         ready |-> maxUnitsPerRound,
         max   |-> overUnitsPerRound]

requiredForMinimumCoverage(demandedUnits, minUnits, remainingUnits) ==
    /\ demandedUnits < minUnits
    /\ demandedUnits + remainingUnits >= minUnits

(* Rounds that stay in a batch too large for the units at hand, or zero. *)
internalBatchSplit(demandedUnits, minUnits, batchRounds, remainingUnits) ==
    IF \/ requiredForMinimumCoverage(demandedUnits, minUnits, remainingUnits)
       \/ remainingUnits > batchRounds \div 4
    THEN remainingUnits ELSE 0

internalIsEnoughForMore(demandedUnits, minUnits, unitCount) ==
    \/ requiredForMinimumCoverage(demandedUnits, minUnits, unitCount)
    \/ unitCount >= minAdvanceUnits
=============================================================================
