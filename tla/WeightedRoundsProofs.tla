------------------------ MODULE WeightedRoundsProofs ------------------------
(***************************************************************************)
(* What the allocation engine keeps true for every number of insureds and  *)
(* batches and for all pool parameters: facts about the strategies of      *)
(* WeightedPoolConfig, then the list of batches, which is changed by       *)
(* adding demand and by adding coverage, loop by loop.                     *)
(***************************************************************************)
EXTENDS WeightedRoundsProperties, FoldLemmas, SequenceTheorems

(* Division of Solidity on natural numbers. *)
LEMMA DivBounds ==
    ASSUME NEW x \in Nat, NEW d \in Nat \ {0}
    PROVE  /\ x \div d \in Nat
           /\ d * (x \div d) <= x
           /\ x < d * (x \div d) + d
  OBVIOUS

\* A product with a natural number grows with the other factor.
LEMMA MulMonotone ==
    ASSUME NEW x \in Nat, NEW y \in Nat, NEW d \in Nat, x <= y
    PROVE  d * x <= d * y /\ d * x \in Nat
  OBVIOUS

\* minRounds and maxRounds of the pool parameters are ordered and at least 1.
LEMMA RoundsArePositive == minRounds \in Nat /\ maxRounds \in Nat /\ 1 <= minRounds /\ minRounds <= maxRounds
  BY PoolParamsAssumption, DivBounds DEF minRounds, maxRounds

\* The share of an amount, rounded to the nearest, grows with the amount.
LEMMA PercentMulMonotone ==
    ASSUME NEW x \in Nat, NEW y \in Nat, NEW share \in Nat, x <= y
    PROVE  /\ percentMul(x, share) \in Nat /\ percentMul(y, share) \in Nat
           /\ percentMul(x, share) <= percentMul(y, share)
<1>1. x * share <= y * share /\ x * share \in Nat /\ y * share \in Nat
  BY MulMonotone
<1>2. \A p \in Nat, q \in Nat : p <= q => (p + 5000) \div 10000 <= (q + 5000) \div 10000
  OBVIOUS
<1>3. \A p \in Nat : (p + 5000) \div 10000 \in Nat
  OBVIOUS
<1>. HIDE DEF percentMul
<1>. QED
  BY <1>1, <1>2, <1>3 DEF percentMul, ONE

-----------------------------------------------------------------------------
(* What an insured may add per round, times the rounds, fits into the      *)
(* units that are allowed to it (internalRoundLimits).                     *)
LEMMA ShareLeftFits ==
    ASSUME NEW allowed \in Nat, NEW demandedUnits \in Nat, NEW rounds \in Nat \ {0},
           shareLeft(allowed, demandedUnits, rounds) > 0
    PROVE  /\ shareLeft(allowed, demandedUnits, rounds) \in Nat
           /\ demandedUnits + rounds * shareLeft(allowed, demandedUnits, rounds) <= allowed
<1>1. allowed >= demandedUnits + rounds
  BY DEF shareLeft
<1>2. allowed - demandedUnits \in Nat
  BY <1>1
<1>3. /\ (allowed - demandedUnits) \div rounds \in Nat
      /\ rounds * ((allowed - demandedUnits) \div rounds) <= allowed - demandedUnits
  BY <1>2, DivBounds
<1>. QED
  BY <1>1, <1>3 DEF shareLeft

(***************************************************************************)
(* The share of an insured is a hard limit: when it adds as many units per *)
(* round as internalRoundLimits lets it, and the rounds get the units they *)
(* need to be covered, it has no more units than its share of all units up *)
(* to and including the batch.                                             *)
(***************************************************************************)
THEOREM ShareIsHardLimit ==
    ASSUME NEW totalUnitsBeforeBatch \in Nat, NEW rounds \in Nat \ {0}, NEW unitPerRound \in Nat,
           NEW demandedUnits \in Nat, NEW maxShare \in Nat,
           NEW add \in Nat \ {0},
           add <= internalRoundLimits(totalUnitsBeforeBatch, rounds, unitPerRound, demandedUnits, maxShare).share,
           unitPerRound + add >= minUnitsPerRound
    PROVE  demandedUnits + rounds * add
              <= percentMul(totalUnitsBeforeBatch + rounds * (unitPerRound + add), maxShare)
<1>. DEFINE perRound  == IF unitPerRound < minUnitsPerRound THEN minUnitsPerRound ELSE unitPerRound + 1
            fullUnits == totalUnitsBeforeBatch + rounds * perRound
            allowed   == percentMul(fullUnits, maxShare)
            share     == shareLeft(allowed, demandedUnits, rounds)
            result    == totalUnitsBeforeBatch + rounds * (unitPerRound + add)
<1>1. add <= share
  BY DEF internalRoundLimits
<1>2. perRound \in Nat /\ perRound <= unitPerRound + add /\ unitPerRound + add \in Nat
  BY PoolParamsAssumption
<1>3. rounds * perRound <= rounds * (unitPerRound + add) /\ rounds * perRound \in Nat
  BY <1>2, MulMonotone
<1>4. rounds * (unitPerRound + add) \in Nat
  BY <1>2, MulMonotone
<1>5. fullUnits \in Nat /\ result \in Nat /\ fullUnits <= result
  BY <1>3, <1>4
<1>6. allowed \in Nat /\ allowed <= percentMul(result, maxShare)
  <2>. HIDE DEF fullUnits, result
  <2>. QED
    BY <1>5, PercentMulMonotone
<1>7. percentMul(result, maxShare) \in Nat
  <2>. HIDE DEF fullUnits, result
  <2>. QED
    BY <1>5, PercentMulMonotone
<1>8. share \in Int
  <2>. HIDE DEF allowed
  <2>1. allowed >= demandedUnits + rounds => (allowed - demandedUnits) \div rounds \in Nat
    BY <1>6, DivBounds
  <2>. QED
    BY <1>6, <2>1 DEF shareLeft
<1>9. share \in Nat /\ demandedUnits + rounds * share <= allowed
  <2>1. share > 0
    BY <1>1, <1>8
  <2>. HIDE DEF allowed
  <2>. QED
    BY <1>6, <2>1, ShareLeftFits
<1>10. rounds * add <= rounds * share /\ rounds * add \in Nat /\ rounds * share \in Nat
  <2>. HIDE DEF share
  <2>1. rounds * add <= rounds * share /\ rounds * add \in Nat
    BY <1>1, <1>9, MulMonotone
  <2>2. rounds * share \in Nat
    BY <1>9, MulMonotone
  <2>. QED
    BY <2>1, <2>2
<1>. HIDE DEF allowed, share, result
<1>11. demandedUnits + rounds * add <= percentMul(result, maxShare)
  BY <1>6, <1>7, <1>9, <1>10
<1>. QED
  BY <1>11 DEF result

(***************************************************************************)
(* A round that internalRoundLimits lets be covered before it has the      *)
(* least units has a unit, and the sizes are in order.                     *)
(***************************************************************************)
THEOREM LimitsAreOrdered ==
    ASSUME NEW totalUnitsBeforeBatch \in Nat, NEW rounds \in Nat \ {0}, NEW unitPerRound \in Nat,
           NEW demandedUnits \in Nat, NEW maxShare \in Nat
    PROVE  LET limits == internalRoundLimits(totalUnitsBeforeBatch, rounds, unitPerRound, demandedUnits, maxShare)
           IN  1 <= limits.min /\ limits.min <= limits.ready /\ limits.ready <= limits.max
  BY PoolParamsAssumption DEF internalRoundLimits

-----------------------------------------------------------------------------
(***************************************************************************)
(* With parameters that keep two of the smallest batches open or more,     *)
(* internalBatchAppend never fails its Sanity.require, and never takes the *)
(* open rounds over the limit.                                             *)
(***************************************************************************)
THEOREM AppendWithinLimit ==
    ASSUME NEW opened \in Nat, NEW unitCount \in Nat, minRounds <= maxRounds \div 2
    PROVE  LET appended == internalBatchAppend(opened, unitCount)
           IN  /\ ~appended.panic
               /\ appended.rounds = 0 \/ appended.rounds >= minRounds
               /\ appended.rounds # 0 => opened + appended.rounds <= maxRounds
<1>. DEFINE min == minRounds
            max == maxRounds
            wanted == unitCount \div min
            vacant == (max - opened) \div min
            factor == IF vacant < wanted THEN vacant ELSE wanted
            refused == /\ opened + min > max
                       /\ min < max \div 2 \/ opened > max \div 2
<1>1. min \in Nat /\ max \in Nat /\ 1 <= min /\ min <= max \div 2
  BY RoundsArePositive
<1>2. CASE refused
  <2>1. internalBatchAppend(opened, unitCount) = [rounds |-> 0, panic |-> FALSE]
    BY <1>2 DEF internalBatchAppend
  <2>. QED
    BY <2>1
<1>3. CASE ~refused /\ wanted <= 1
  <2>1. internalBatchAppend(opened, unitCount) = [rounds |-> min, panic |-> FALSE]
    BY <1>3 DEF internalBatchAppend
  <2>. QED
    BY <1>1, <1>3, <2>1
<1>4. CASE ~refused /\ ~(wanted <= 1)
  <2>1. internalBatchAppend(opened, unitCount) = [rounds |-> min * factor, panic |-> factor = 0]
    BY <1>4 DEF internalBatchAppend
  <2>2. max - opened \in Nat /\ min <= max - opened
    <3>1. max \div 2 \in Nat /\ 2 * (max \div 2) <= max
      BY <1>1
    <3>2. opened + min <= max \/ opened <= max \div 2
      BY <1>4, <3>1, <1>1
    <3>. HIDE DEF max, min
    <3>. QED
      BY <1>1, <3>1, <3>2
  <2>3. /\ wanted \in Nat /\ vacant \in Nat
        /\ min * vacant <= max - opened /\ max - opened < min * vacant + min
    <3>. HIDE DEF min, max
    <3>. QED
      BY <1>1, <2>2, DivBounds
  <2>. HIDE DEF wanted, vacant, min, max
  <2>4. vacant # 0
    BY <1>1, <2>2, <2>3
  <2>5. factor \in Nat /\ 1 <= factor /\ factor <= vacant
    BY <1>4, <2>3, <2>4
  <2>. HIDE DEF factor
  <2>6. min * 1 <= min * factor /\ min * factor <= min * vacant /\ min * factor \in Nat /\ min * vacant \in Nat
    BY <1>1, <2>3, <2>5, MulMonotone
  <2>7. min <= min * factor /\ opened + min * factor <= max /\ factor # 0
    BY <1>1, <2>2, <2>3, <2>5, <2>6
  <2>. DEFINE rounds == min * factor
  <2>8. /\ internalBatchAppend(opened, unitCount) = [rounds |-> rounds, panic |-> FALSE]
        /\ minRounds <= rounds /\ opened + rounds <= maxRounds
    BY <2>1, <2>7 DEF min, max
  <2>. HIDE DEF rounds
  <2>. QED
    BY <2>8
<1>. QED
  BY <1>2, <1>3, <1>4

-----------------------------------------------------------------------------
(* The list of batches.  A set L of batches is what the links reach: a     *)
(* batch that was split off and then dropped stays out of it.              *)

StoreFields == {"insureds", "demands", "covered", "premiums", "batches", "batchCount",
                "latestBatchNo", "firstOpenBatchNo", "openRounds", "poolPremium", "partial",
                "marks", "pendingCoverage", "pendingDemand", "pullableBatchNo", "pullableDemands"}
IsStore(s) == DOMAIN s = StoreFields

BatchFields == {"nextBatchNo", "totalUnitsBeforeBatch", "rounds", "unitPerRound", "state",
                "roundPremiumRateSum"}
IsBatch(b) ==
    /\ DOMAIN b = BatchFields /\ b = [k \in BatchFields |-> b[k]]
    /\ b.nextBatchNo \in Nat /\ b.totalUnitsBeforeBatch \in Nat
    /\ b.rounds \in Nat /\ b.unitPerRound \in Nat
    /\ b.state \in {"Draft", "ReadyMin", "Ready", "Full"}

(* The last batch has no rounds yet. *)
LastIsEmpty(b) == b.nextBatchNo = 0 => b.state = "Draft" /\ b.rounds = 0

NextOf(s, n) == BatchAt(s, n).nextBatchNo
FullAt(s, n) == isFull(BatchAt(s, n))

NoOthers(s) == \A k \in Nat : k \notin 1..s.batchCount => BatchAt(s, k) = NoBatch

(* Every batch of L is reached from the first one. *)
Reached(s, L) ==
    \A S \in SUBSET L : 1 \in S /\ (\A n \in S : NextOf(s, n) \in S \cup {0}) => S = L

Linked(s, L) ==
    /\ s.batchCount \in Nat /\ L \subseteq 1..s.batchCount
    /\ NoOthers(s)
    /\ \A n \in L : IsBatch(BatchAt(s, n)) /\ LastIsEmpty(BatchAt(s, n))
    /\ \A n \in L : NextOf(s, n) \in L \cup {0} /\ NextOf(s, n) # 1
    /\ \A n \in L, m \in L : NextOf(s, n) = NextOf(s, m) /\ NextOf(s, n) # 0 => n = m
    /\ \A n \in L : NextOf(s, n) # 0 /\ FullAt(s, NextOf(s, n)) => FullAt(s, n)
    /\ s.batchCount > 0 => 1 \in L
    /\ Reached(s, L)

(* Only batch n differs. *)
Elsewhere(s, t, n) == \A k \in Nat : k # n => BatchAt(t, k) = BatchAt(s, k)

(* Full batches of s are the same in t. *)
Frozen(s, t) == \A n \in Nat : FullAt(s, n) => BatchAt(t, n) = BatchAt(s, n)

(* What is in the store besides the batches. *)
SameHeads(s, t) ==
    /\ t.partial = s.partial /\ t.firstOpenBatchNo = s.firstOpenBatchNo /\ t.openRounds = s.openRounds
    /\ t.insureds = s.insureds /\ t.demands = s.demands /\ t.pendingCoverage = s.pendingCoverage

\* A slot of the mapping that was never written reads as an open, empty, last batch.
LEMMA NoBatchIsBatch == IsBatch(NoBatch) /\ LastIsEmpty(NoBatch) /\ ~isFull(NoBatch)
<1>1. DOMAIN NoBatch = BatchFields /\ NoBatch = [k \in BatchFields |-> NoBatch[k]]
  BY DEF NoBatch, BatchFields
<1>. QED
  BY <1>1 DEF NoBatch, IsBatch, LastIsEmpty, isFull

\* The numbers of the live batches are positive.
LEMMA LinksAreNumbers ==
    ASSUME NEW s, NEW L, Linked(s, L)
    PROVE  L \subseteq Nat /\ 0 \notin L /\ s.batchCount \in Nat
<1>1. s.batchCount \in Nat /\ L \subseteq 1..s.batchCount
  BY DEF Linked
<1>2. \A c \in Nat : 1..c \subseteq Nat /\ 0 \notin 1..c
  OBVIOUS
<1>. QED
  BY <1>1, <1>2

\* A batch is stored: only this one differs.
LEMMA PutBatchStores ==
    ASSUME NEW s, IsStore(s), NEW n \in Nat, NEW b
    PROVE  LET t == PutBatch(s, n, b)
           IN  /\ IsStore(t) /\ SameHeads(s, t) /\ t.batchCount = s.batchCount
               /\ BatchAt(t, n) = b /\ Elsewhere(s, t, n)
<1>. DEFINE t == PutBatch(s, n, b)
            q == Put(s.batches, n, b)
<1>1. t = [s EXCEPT !.batches = q]
  BY DEF PutBatch
<1>2. DOMAIN q = {n} \cup DOMAIN s.batches /\ q[n] = b /\ \A k \in DOMAIN s.batches : k # n => q[k] = s.batches[k]
  BY DEF Put
<1>. HIDE DEF q
<1>3. IsStore(t) /\ SameHeads(s, t) /\ t.batchCount = s.batchCount /\ t.batches = q
  BY <1>1 DEF IsStore, StoreFields, SameHeads
<1>. HIDE DEF t
<1>4. BatchAt(t, n) = b /\ Elsewhere(s, t, n)
  BY <1>2, <1>3 DEF BatchAt, Elsewhere
<1>. QED
  BY <1>3, <1>4 DEF t

(* A time mark touches nothing else. *)
OnlyMarked(s, t) ==
    IsStore(t) /\ SameHeads(s, t) /\ t.batchCount = s.batchCount /\ t.batches = s.batches

\* updateTimeMark writes time marks only.
LEMMA TimeMarked ==
    ASSUME NEW s, IsStore(s), NEW part, NEW u
    PROVE  OnlyMarked(s, updateTimeMark(s, part, u))
  BY DEF OnlyMarked, updateTimeMark, IsStore, StoreFields, SameHeads

\* initTimeMark writes time marks only.
LEMMA InitMarked ==
    ASSUME NEW s, IsStore(s), NEW n
    PROVE  OnlyMarked(s, initTimeMark(s, n))
  BY DEF OnlyMarked, initTimeMark, IsStore, StoreFields, SameHeads

\* The number after batchCount is free, and it leaves the others in range.
LEMMA NextNumber ==
    ASSUME NEW c \in Nat, NEW L, L \subseteq 1..c, NEW n \in L
    PROVE  /\ c + 1 \in Nat /\ c + 1 # 0 /\ c + 1 # 1 /\ c + 1 \notin L /\ n \in Nat /\ n # c + 1 /\ n # 0
           /\ L \cup {c + 1} \subseteq 1..(c + 1) /\ c > 0
           /\ \A k \in Nat : k \notin 1..(c + 1) => k \notin 1..c /\ k # c + 1
           /\ \A d \in Nat : c <= d => L \subseteq 1..d /\ d > 0
  OBVIOUS

\* Full batches that stay over two steps stay over both.
LEMMA FrozenSteps ==
    ASSUME NEW s, NEW t, NEW u, Frozen(s, t), Frozen(t, u)
    PROVE  Frozen(s, u)
  BY DEF Frozen, FullAt

\* Writing a batch that was not full leaves the full ones alone.
LEMMA FrozenPut ==
    ASSUME NEW s, NEW t, NEW n \in Nat, Elsewhere(s, t, n), ~FullAt(s, n)
    PROVE  Frozen(s, t)
  BY DEF Frozen, Elsewhere, FullAt

-----------------------------------------------------------------------------
(* How an operation may change the list.                                   *)

\* A batch that keeps its link is changed, and maybe closed.
LEMMA PutKeepsLinks ==
    ASSUME NEW s, NEW t, NEW L, Linked(s, L), NEW n \in L, NEW b,
           t.batchCount = s.batchCount, BatchAt(t, n) = b, Elsewhere(s, t, n),
           IsBatch(b), LastIsEmpty(b), b.nextBatchNo = NextOf(s, n),
           FullAt(s, n) => isFull(b),
           isFull(b) => \A m \in L : NextOf(s, m) = n => FullAt(s, m)
    PROVE  Linked(t, L)
<1>1. \A k \in L : k \in Nat /\ NextOf(t, k) = NextOf(s, k) /\ (k # n => BatchAt(t, k) = BatchAt(s, k))
  BY DEF Linked, NextOf, Elsewhere
<1>2. n \in 1..s.batchCount /\ s.batchCount \in Nat
  BY DEF Linked
<1>3. NoOthers(t)
  BY <1>2 DEF Linked, NoOthers, Elsewhere
<1>4. \A m \in L : IsBatch(BatchAt(t, m)) /\ LastIsEmpty(BatchAt(t, m))
  BY <1>1 DEF Linked
<1>5. \A m \in L : NextOf(t, m) # 0 /\ FullAt(t, NextOf(t, m)) => FullAt(t, m)
  <2> SUFFICES ASSUME NEW m \in L, NextOf(s, m) # 0, FullAt(t, NextOf(s, m)) PROVE FullAt(t, m)
    BY <1>1
  <2>1. NextOf(s, m) \in L
    BY DEF Linked
  <2>2. FullAt(s, m) => FullAt(t, m)
    BY <1>1 DEF FullAt
  <2>3. CASE NextOf(s, m) = n
    BY <2>2, <2>3 DEF FullAt
  <2>4. CASE NextOf(s, m) # n
    <3>1. FullAt(s, NextOf(s, m))
      BY <1>1, <2>1, <2>4 DEF FullAt
    <3> QED
      BY <2>2, <3>1 DEF Linked
  <2> QED
    BY <2>3, <2>4
<1>6. Reached(t, L)
  BY <1>1 DEF Linked, Reached
<1>. QED
  BY <1>1, <1>3, <1>4, <1>5, <1>6 DEF Linked

\* A new batch m takes its place behind n, and n is not full.
LEMMA InsertKeepsLinks ==
    ASSUME NEW s, NEW t, NEW L, Linked(s, L), NEW n \in L, NEW m, NEW b, NEW c,
           m = s.batchCount + 1, t.batchCount = m,
           BatchAt(t, n) = b, BatchAt(t, m) = c,
           \A k \in Nat : k # n /\ k # m => BatchAt(t, k) = BatchAt(s, k),
           IsBatch(b), b.nextBatchNo = m, ~isFull(b), ~FullAt(s, n),
           IsBatch(c), LastIsEmpty(c), c.nextBatchNo = NextOf(s, n), ~isFull(c)
    PROVE  Linked(t, L \cup {m})
<1>1. /\ s.batchCount \in Nat /\ m \in Nat /\ m # 0 /\ m # 1 /\ m \notin L /\ n \in Nat /\ n # m /\ n # 0
      /\ L \cup {m} \subseteq 1..t.batchCount
  <2>. DEFINE count == s.batchCount
  <2>1. count \in Nat /\ L \subseteq 1..count /\ m = count + 1 /\ t.batchCount = m
    BY DEF Linked
  <2>. HIDE DEF count
  <2>2. /\ count + 1 \in Nat /\ count + 1 # 0 /\ count + 1 # 1 /\ count + 1 \notin L /\ n \in Nat
        /\ n # count + 1 /\ n # 0 /\ L \cup {count + 1} \subseteq 1..(count + 1)
    BY <2>1, NextNumber
  <2>. QED
    BY <2>1, <2>2 DEF count
<1>2. /\ \A k \in L : k # n => BatchAt(t, k) = BatchAt(s, k) /\ NextOf(t, k) = NextOf(s, k)
      /\ NextOf(t, n) = m /\ NextOf(t, m) = NextOf(s, n)
      /\ \A k \in L : NextOf(s, k) # m
  BY <1>1 DEF Linked, NextOf
<1>3. NoOthers(t)
  BY <1>1 DEF Linked, NoOthers
<1>4. \A k \in L \cup {m} : IsBatch(BatchAt(t, k)) /\ LastIsEmpty(BatchAt(t, k))
  BY <1>1, <1>2 DEF Linked, LastIsEmpty
<1>5. \A k \in L \cup {m} : NextOf(t, k) \in L \cup {m} \cup {0} /\ NextOf(t, k) # 1
  BY <1>1, <1>2 DEF Linked
<1>6. \A k \in L \cup {m}, j \in L \cup {m} : NextOf(t, k) = NextOf(t, j) /\ NextOf(t, k) # 0 => k = j
  BY <1>1, <1>2 DEF Linked
<1>7. \A k \in L \cup {m} : NextOf(t, k) # 0 /\ FullAt(t, NextOf(t, k)) => FullAt(t, k)
  <2> SUFFICES ASSUME NEW k \in L \cup {m}, NextOf(t, k) # 0, FullAt(t, NextOf(t, k)) PROVE FullAt(t, k)
    OBVIOUS
  <2>1. ~FullAt(t, n) /\ ~FullAt(t, m)
    BY DEF FullAt
  <2>2. NextOf(t, k) \in L /\ NextOf(t, k) # n /\ FullAt(s, NextOf(t, k)) /\ k # n
    BY <1>2, <1>5, <2>1 DEF FullAt
  <2>3. CASE k = m
    BY <1>2, <2>2, <2>3 DEF Linked
  <2>4. CASE k # m
    <3>1. FullAt(s, k)
      BY <1>2, <2>2, <2>4 DEF Linked
    <3> QED
      BY <1>2, <2>2, <2>4, <3>1 DEF FullAt
  <2> QED
    BY <2>3, <2>4
<1>8. Reached(t, L \cup {m})
  <2> SUFFICES ASSUME NEW S \in SUBSET (L \cup {m}), 1 \in S, \A k \in S : NextOf(t, k) \in S \cup {0}
               PROVE  S = L \cup {m}
    BY DEF Reached
  <2>1. \A k \in S \cap L : NextOf(s, k) \in (S \cap L) \cup {0}
    <3> SUFFICES ASSUME NEW k \in S \cap L PROVE NextOf(s, k) \in (S \cap L) \cup {0}
      OBVIOUS
    <3>1. NextOf(s, k) \in L \cup {0}
      BY DEF Linked
    <3>2. NextOf(s, k) \in S \cup {0}
      <4>1. CASE k = n
        <5>1. m \in S
          BY <1>1, <1>2, <4>1
        <5> QED
          BY <1>2, <4>1, <5>1
      <4>2. CASE k # n
        BY <1>2, <4>2
      <4> QED
        BY <4>1, <4>2
    <3> QED
      BY <3>1, <3>2
  <2>2. S \cap L = L
    BY <1>1, <2>1 DEF Linked, Reached
  <2>3. m \in S
    BY <1>1, <1>2, <2>2
  <2> QED
    BY <2>2, <2>3
<1>. QED
  BY <1>1, <1>3, <1>4, <1>5, <1>6, <1>7, <1>8 DEF Linked

\* Batches were created that no link reaches.
LEMMA DroppedKeepsLinks ==
    ASSUME NEW s, NEW t, NEW L, Linked(s, L), t.batchCount \in Nat, s.batchCount <= t.batchCount, L # {},
           NoOthers(t), \A k \in L : BatchAt(t, k) = BatchAt(s, k)
    PROVE  Linked(t, L)
<1>1. \A k \in L : NextOf(t, k) = NextOf(s, k) /\ (FullAt(t, k) <=> FullAt(s, k))
  BY DEF NextOf, FullAt
<1>2. Reached(t, L)
  BY <1>1 DEF Linked, Reached
<1>3. s.batchCount > 0 /\ t.batchCount > 0 /\ L \subseteq 1..t.batchCount /\ 1 \in L
  <2>. DEFINE count == s.batchCount
              d == t.batchCount
  <2>1. count \in Nat /\ L \subseteq 1..count /\ (count > 0 => 1 \in L) /\ d \in Nat /\ count <= d
    BY DEF Linked
  <2>2. PICK n \in L : TRUE
    OBVIOUS
  <2>. HIDE DEF count, d
  <2>3. count > 0 /\ L \subseteq 1..d /\ d > 0
    BY <2>1, NextNumber
  <2>. QED
    BY <2>1, <2>3 DEF count, d
<1>4. \A n \in L : NextOf(t, n) # 0 /\ FullAt(t, NextOf(t, n)) => FullAt(t, n)
  BY <1>1 DEF Linked
<1>. QED
  BY <1>1, <1>2, <1>3, <1>4 DEF Linked

-----------------------------------------------------------------------------
(* The loop of internalAddCoverage.                                        *)

CoverageFields == {"s", "b", "amount", "part", "premium", "openBatchNo", "batchUpdated",
                   "loopLimit", "done", "panic"}
IsCoverageFrame(f) == DOMAIN f = CoverageFields

PartFields == {"roundCoverage", "batchNo", "roundNo"}
IsPart(p) == DOMAIN p = PartFields /\ p.roundCoverage \in Nat /\ p.roundNo \in Nat

(* The rounds and the partial round are in the batch b. *)
PartFits(p, b) ==
    /\ p.roundNo <= b.rounds
    /\ p.roundCoverage > 0 => p.roundNo < b.rounds /\ p.roundCoverage <= UnitSize * b.unitPerRound

SameButTotal(b, c) ==
    /\ b.nextBatchNo = c.nextBatchNo /\ b.rounds = c.rounds
    /\ b.unitPerRound = c.unitPerRound /\ b.state = c.state

(* The frame f of a call that began with the store s0. *)
CoverageStore(f, L, s0) ==
    /\ IsStore(f.s) /\ Linked(f.s, L) /\ Frozen(s0, f.s)
    /\ f.s.insureds = s0.insureds /\ f.s.pendingCoverage = s0.pendingCoverage /\ f.s.openRounds \in Nat
    /\ f.openBatchNo \in L /\ ~FullAt(f.s, f.openBatchNo)
    /\ f.part.batchNo \in L
    /\ \A n \in L : NextOf(f.s, n) = f.part.batchNo => FullAt(f.s, n)

CoverageBatch(f) ==
    /\ f.amount \in Nat /\ f.done \in BOOLEAN /\ f.batchUpdated \in BOOLEAN
    /\ IsPart(f.part) /\ IsBatch(f.b) /\ ~isFull(f.b) /\ PartFits(f.part, f.b)
    /\ SameButTotal(f.b, BatchAt(f.s, f.part.batchNo))
    /\ ~f.batchUpdated => f.b = BatchAt(f.s, f.part.batchNo)
    /\ ~f.done => f.b.nextBatchNo # 0 /\ f.part.roundCoverage = 0

(* Coverage in the rounds up to the frame's, and what is left of the call's. *)
CoverageSum(f) ==
    UnitSize * (f.b.totalUnitsBeforeBatch + f.part.roundNo * f.b.unitPerRound) + f.part.roundCoverage + f.amount

CoverageKept(f, L, s0, sum) == CoverageStore(f, L, s0) /\ CoverageBatch(f) /\ CoverageSum(f) = sum

\* What closeFullBatch does with a batch that is not the last one.
LEMMA CloseEffects ==
    ASSUME NEW f, IsCoverageFrame(f), IsStore(f.s), IsBatch(f.b), f.b.nextBatchNo # 0, ~isFull(f.b),
           NEW full, full = [f.b EXCEPT !.state = "Full"],
           NEW s1, s1 = PutBatch(f.s, f.part.batchNo, full),
           NEW next, next = BatchAt(s1, f.b.nextBatchNo), IsStore(s1),
           NEW g, g = closeFullBatch(f)
    PROVE  /\ IsCoverageFrame(g)
           /\ g.s = [s1 EXCEPT !.openRounds = s1.openRounds - f.b.rounds]
           /\ g.part = [batchNo |-> f.b.nextBatchNo, roundNo |-> 0, roundCoverage |-> 0]
           /\ g.b = [next EXCEPT !.totalUnitsBeforeBatch = f.b.totalUnitsBeforeBatch + UnitsOf(f.b)]
           /\ g.batchUpdated = (next.totalUnitsBeforeBatch # f.b.totalUnitsBeforeBatch + UnitsOf(f.b))
           /\ g.amount = f.amount /\ g.loopLimit = f.loopLimit
           /\ g.done = (f.amount = 0 \/ ~isReady(next))
           /\ g.openBatchNo = IF f.openBatchNo = f.part.batchNo THEN f.b.nextBatchNo ELSE f.openBatchNo
           /\ f.panic => g.panic
           /\ f.s.openRounds < f.b.rounds => g.panic
<1>1. f.b.state # "Full"
  BY DEF isFull
<1>. DEFINE premium == addPartialToTotalPremium(f.s, f.part.batchNo, f.premium, f.b)
<1>. HIDE DEF premium
<1>2. premium = addPartialToTotalPremium(f.s, f.part.batchNo, f.premium, f.b)
  BY DEF premium
<1>. QED
  BY <1>1, <1>2 DEF closeFullBatch, IsCoverageFrame, CoverageFields, IsStore, StoreFields

(* What fillRounds does, for the coverage of a round and the rounds there is coverage for. *)
FillResult(f, g, perRound, rounds) ==
    /\ IsCoverageFrame(g) /\ g.s = updateTimeMark(f.s, f.part, f.b.unitPerRound)
    /\ g.b = f.b /\ g.batchUpdated = f.batchUpdated /\ g.openBatchNo = f.openBatchNo
    /\ g.panic = f.panic /\ g.loopLimit = f.loopLimit
    /\ g.part.batchNo = f.part.batchNo /\ DOMAIN g.part = PartFields
    /\ rounds < f.b.rounds - f.part.roundNo =>
          /\ g.part.roundNo = f.part.roundNo + rounds
          /\ g.part.roundCoverage = f.amount - rounds * perRound
          /\ g.amount = 0 /\ g.done = TRUE
    /\ ~(rounds < f.b.rounds - f.part.roundNo) =>
          /\ g.part.roundNo = f.b.rounds
          /\ g.part.roundCoverage = f.part.roundCoverage
          /\ g.amount = f.amount - perRound * (f.b.rounds - f.part.roundNo) /\ g.done = f.done

\* What fillRounds writes, when the batch takes at least one unit per round.
LEMMA FillEffects ==
    ASSUME NEW f, IsCoverageFrame(f), IsStore(f.s), IsPart(f.part),
           NEW perRound, perRound = UnitSize * f.b.unitPerRound, perRound # 0,
           NEW rounds, rounds = f.amount \div perRound,
           NEW g, g = fillRounds(f)
    PROVE  FillResult(f, g, perRound, rounds)
<1>. DEFINE marked == updateTimeMark(f.s, f.part, f.b.unitPerRound)
<1>1. marked = updateTimeMark(f.s, f.part, f.b.unitPerRound)
  OBVIOUS
<1>. HIDE DEF marked
<1>2. UnitSize * f.b.unitPerRound # 0
  OBVIOUS
<1>3. CASE rounds < f.b.rounds - f.part.roundNo
  BY <1>1, <1>2, <1>3 DEF FillResult, fillRounds, IsCoverageFrame, CoverageFields, IsPart, PartFields
<1>4. CASE ~(rounds < f.b.rounds - f.part.roundNo)
  BY <1>1, <1>2, <1>4 DEF FillResult, fillRounds, IsCoverageFrame, CoverageFields, IsPart, PartFields
<1>. QED
  BY <1>3, <1>4

\* Sums of coverage, factor by factor.
LEMMA RoundsAdd ==
    ASSUME NEW u \in Nat, NEW t \in Nat, NEW r \in Nat, NEW q \in Nat, NEW x \in Nat
    PROVE  /\ u * (t + (r + q) * x) = u * (t + r * x) + q * (u * x)
           /\ u * (t + (r + q) * x) = u * (t + r * x) + (u * x) * q
           /\ u * (t + r * x) \in Nat /\ q * (u * x) \in Nat /\ (u * x) * q \in Nat /\ u * x \in Nat
           /\ t + r * x \in Nat
<1>1. (r + q) * x = r * x + q * x /\ r * x \in Nat /\ q * x \in Nat
  OBVIOUS
<1>2. \A a \in Nat, b \in Nat : u * (a + b) = u * a + u * b /\ u * a \in Nat
  OBVIOUS
<1>3. q * (u * x) = u * (q * x) /\ (u * x) * q = u * (q * x)
  OBVIOUS
<1>4. u * ((t + r * x) + q * x) = u * (t + r * x) + u * (q * x)
  <2>. DEFINE a == t + r * x
              b == q * x
  <2>1. a \in Nat /\ b \in Nat
    BY <1>1
  <2>. HIDE DEF a, b
  <2>2. u * (a + b) = u * a + u * b
    BY <1>2, <2>1
  <2>. QED
    BY <2>2 DEF a, b
<1>5. t + (r + q) * x = (t + r * x) + q * x
  BY <1>1
<1>6. u * x \in Nat /\ q * (u * x) \in Nat /\ (u * x) * q \in Nat
  OBVIOUS
<1>. QED
  BY <1>1, <1>2, <1>3, <1>4, <1>5, <1>6

\* A full batch is closed and the next one becomes the partial batch.
LEMMA CloseKeeps ==
    ASSUME NEW f, IsCoverageFrame(f), NEW L, NEW s0, NEW sum, CoverageKept(f, L, s0, sum), ~f.done,
           f.part.roundNo >= f.b.rounds,
           NEW g, g = closeFullBatch(f), ~g.panic
    PROVE  CoverageKept(g, L, s0, sum)
<1>. DEFINE this == f.part.batchNo
            n    == f.b.nextBatchNo
            full == [f.b EXCEPT !.state = "Full"]
            s1   == PutBatch(f.s, this, full)
            next == BatchAt(s1, n)
            total == f.b.totalUnitsBeforeBatch + UnitsOf(f.b)
<1>1. /\ IsStore(f.s) /\ Linked(f.s, L) /\ Frozen(s0, f.s) /\ this \in L /\ IsBatch(f.b) /\ ~isFull(f.b)
      /\ n # 0 /\ f.part.roundCoverage = 0 /\ IsPart(f.part) /\ f.part.roundNo <= f.b.rounds
      /\ f.amount \in Nat /\ f.s.openRounds \in Nat
      /\ f.openBatchNo \in L /\ ~FullAt(f.s, f.openBatchNo)
      /\ f.s.insureds = s0.insureds /\ f.s.pendingCoverage = s0.pendingCoverage
      /\ \A k \in L : NextOf(f.s, k) = this => FullAt(f.s, k)
  BY DEF CoverageKept, CoverageStore, CoverageBatch, PartFits
<1>2. this \in Nat /\ n = NextOf(f.s, this) /\ ~FullAt(f.s, this)
  <2>1. this \in Nat
    BY <1>1, LinksAreNumbers
  <2>2. SameButTotal(f.b, BatchAt(f.s, this))
    BY DEF CoverageKept, CoverageBatch
  <2>. QED
    BY <1>1, <2>1, <2>2 DEF SameButTotal, NextOf, FullAt, isFull
<1>3. IsBatch(full) /\ isFull(full) /\ full.nextBatchNo = n /\ LastIsEmpty(full)
  BY <1>1 DEF IsBatch, BatchFields, isFull, LastIsEmpty
<1>4. /\ IsStore(s1) /\ SameHeads(f.s, s1) /\ s1.batchCount = f.s.batchCount
      /\ BatchAt(s1, this) = full /\ Elsewhere(f.s, s1, this)
  <2>. HIDE DEF full
  <2>. QED
    BY <1>1, <1>2, PutBatchStores
<1>. HIDE DEF full, s1
<1>5. Linked(s1, L) /\ Frozen(s0, s1)
  <2>1. Linked(s1, L)
    BY <1>1, <1>2, <1>3, <1>4, PutKeepsLinks
  <2>2. Frozen(f.s, s1)
    BY <1>2, <1>4, FrozenPut
  <2>. QED
    BY <1>1, <2>1, <2>2, FrozenSteps
<1>6. n \in L /\ n # this /\ ~FullAt(f.s, n) /\ next = BatchAt(f.s, n) /\ IsBatch(next) /\ LastIsEmpty(next) /\ ~isFull(next)
  <2>1. n \in L /\ n \in Nat
    <3>1. NextOf(f.s, this) \in L \cup {0}
      BY <1>1 DEF Linked
    <3> QED
      BY <1>1, <1>2, <3>1, LinksAreNumbers
  <2>2. ~FullAt(f.s, n)
    BY <1>1, <1>2 DEF Linked
  <2>3. n # this
    BY <1>1, <1>2
  <2>4. next = BatchAt(f.s, n)
    BY <1>4, <2>1, <2>3 DEF Elsewhere
  <2>. QED
    BY <1>1, <2>1, <2>2, <2>3, <2>4 DEF Linked, FullAt
<1>7. /\ g.s = [s1 EXCEPT !.openRounds = s1.openRounds - f.b.rounds]
      /\ g.part = [batchNo |-> n, roundNo |-> 0, roundCoverage |-> 0]
      /\ g.b = [next EXCEPT !.totalUnitsBeforeBatch = total]
      /\ g.batchUpdated = (next.totalUnitsBeforeBatch # total)
      /\ g.amount = f.amount
      /\ g.done = (f.amount = 0 \/ ~isReady(next))
      /\ g.openBatchNo = IF f.openBatchNo = this THEN n ELSE f.openBatchNo
      /\ f.s.openRounds < f.b.rounds => g.panic
  <2>1. full = [f.b EXCEPT !.state = "Full"] /\ s1 = PutBatch(f.s, f.part.batchNo, full) /\ next = BatchAt(s1, f.b.nextBatchNo)
    BY DEF full, s1
  <2>. HIDE DEF next, total
  <2>. QED
    BY <1>1, <1>4, <2>1, CloseEffects DEF total
<1>. HIDE DEF next
<1>8. f.b.rounds \in Nat /\ f.b.unitPerRound \in Nat /\ f.b.totalUnitsBeforeBatch \in Nat
  BY <1>1 DEF IsBatch
<1>9. total \in Nat
  <2>1. f.b.rounds * f.b.unitPerRound \in Nat
    BY <1>8
  <2>. QED
    BY <1>8, <2>1 DEF UnitsOf
<1>10. IsStore(g.s) /\ g.s.batches = s1.batches /\ g.s.batchCount = s1.batchCount /\ g.s.openRounds = s1.openRounds - f.b.rounds
       /\ g.s.insureds = s1.insureds /\ g.s.pendingCoverage = s1.pendingCoverage
  BY <1>4, <1>7 DEF IsStore, StoreFields
<1>11. \A k : BatchAt(g.s, k) = BatchAt(s1, k) /\ NextOf(g.s, k) = NextOf(s1, k) /\ (FullAt(g.s, k) <=> FullAt(s1, k))
  BY <1>10 DEF BatchAt, NextOf, FullAt
<1>12. CoverageStore(g, L, s0)
  <2>1. Linked(g.s, L) /\ Frozen(s0, g.s)
    BY <1>5, <1>10, <1>11 DEF Linked, NoOthers, Reached, Frozen
  <2>2. g.s.openRounds \in Nat
    <3>1. g.s.openRounds = f.s.openRounds - f.b.rounds
      BY <1>4, <1>10 DEF SameHeads
    <3>2. ~(f.s.openRounds < f.b.rounds)
      BY <1>7
    <3> QED
      BY <1>1, <1>8, <3>1, <3>2
  <2>3. g.s.insureds = s0.insureds /\ g.s.pendingCoverage = s0.pendingCoverage
    BY <1>1, <1>4, <1>10 DEF SameHeads
  <2>4. g.openBatchNo \in L /\ ~FullAt(g.s, g.openBatchNo)
    <3>1. CASE f.openBatchNo = this
      <4>1. g.openBatchNo = n
        BY <1>7, <3>1
      <4>2. BatchAt(g.s, n) = next
        BY <1>11 DEF next
      <4> QED
        BY <1>6, <4>1, <4>2 DEF FullAt
    <3>2. CASE f.openBatchNo # this
      <4>1. f.openBatchNo \in Nat
        BY <1>1, LinksAreNumbers
      <4>2. BatchAt(s1, f.openBatchNo) = BatchAt(f.s, f.openBatchNo)
        BY <1>4, <3>2, <4>1 DEF Elsewhere
      <4> QED
        BY <1>1, <1>7, <1>11, <3>2, <4>2 DEF FullAt
    <3> QED
      BY <3>1, <3>2
  <2>5. g.part.batchNo = n
    BY <1>7
  <2>6. ASSUME NEW k \in L, NextOf(g.s, k) = n PROVE FullAt(g.s, k)
    <3>1. NextOf(s1, k) = NextOf(s1, this)
      BY <1>3, <1>4, <1>11, <2>6 DEF NextOf
    <3>2. k = this
      BY <1>1, <1>5, <1>11, <2>6, <3>1 DEF Linked
    <3> QED
      BY <1>3, <1>4, <1>11, <3>2 DEF FullAt
  <2>. QED
    BY <1>6, <1>10, <2>1, <2>2, <2>3, <2>4, <2>5, <2>6 DEF CoverageStore
<1>13. /\ IsBatch(g.b) /\ SameButTotal(g.b, next) /\ g.b.totalUnitsBeforeBatch = total
       /\ (next.totalUnitsBeforeBatch = total => g.b = next)
  BY <1>6, <1>7, <1>9 DEF IsBatch, BatchFields, SameButTotal
<1>14. BatchAt(g.s, g.part.batchNo) = next /\ IsPart(g.part) /\ g.part.roundNo = 0 /\ g.part.roundCoverage = 0
  BY <1>7, <1>11 DEF next, IsPart, PartFields
<1>15. CoverageBatch(g)
  <2>1. ~g.done => g.b.nextBatchNo # 0 /\ g.part.roundCoverage = 0
    BY <1>6, <1>7, <1>13, <1>14 DEF LastIsEmpty, isReady, SameButTotal
  <2>2. ~isFull(g.b) /\ PartFits(g.part, g.b)
    BY <1>6, <1>13, <1>14 DEF isFull, SameButTotal, PartFits, IsBatch
  <2>. QED
    BY <1>1, <1>7, <1>13, <1>14, <2>1, <2>2 DEF CoverageBatch
<1>16. CoverageSum(g) = CoverageSum(f)
  <2>1. f.part.roundNo = f.b.rounds
    BY <1>1, <1>8 DEF IsPart
  <2>2. CoverageSum(g) = UnitSize * (total + 0 * g.b.unitPerRound) + 0 + f.amount
    BY <1>7, <1>13, <1>14 DEF CoverageSum
  <2>3. CoverageSum(f) = UnitSize * total + 0 + f.amount
    BY <1>1, <2>1 DEF CoverageSum, UnitsOf
  <2>4. g.b.unitPerRound \in Nat
    BY <1>13 DEF IsBatch
  <2>. HIDE DEF total
  <2>5. total + 0 * g.b.unitPerRound = total
    BY <1>9, <2>4
  <2>. QED
    BY <2>2, <2>3, <2>5
<1>. QED
  BY <1>12, <1>15, <1>16 DEF CoverageKept

\* Coverage goes into the vacant rounds of the batch.
LEMMA FillKeeps ==
    ASSUME NEW f, IsCoverageFrame(f), NEW L, NEW s0, NEW sum, CoverageKept(f, L, s0, sum), ~f.done,
           f.part.roundNo < f.b.rounds, UnitSize * f.b.unitPerRound # 0,
           NEW g, g = fillRounds(f)
    PROVE  CoverageKept(g, L, s0, sum)
<1>. DEFINE u == f.b.unitPerRound
            perRound == UnitSize * u
            vacant == f.b.rounds - f.part.roundNo
            rounds == f.amount \div perRound
            marked == updateTimeMark(f.s, f.part, u)
<1>1. /\ IsStore(f.s) /\ IsBatch(f.b) /\ f.part.roundCoverage = 0 /\ IsPart(f.part)
      /\ f.amount \in Nat
  BY DEF CoverageKept, CoverageStore, CoverageBatch
<1>2. /\ f.b.rounds \in Nat /\ u \in Nat /\ f.b.totalUnitsBeforeBatch \in Nat /\ f.part.roundNo \in Nat
      /\ UnitSize \in Nat \ {0}
  BY <1>1, RoundsAssumption DEF IsBatch, IsPart
<1>3. perRound \in Nat \ {0} /\ vacant \in Nat
  BY <1>2
<1>4. rounds \in Nat /\ perRound * rounds <= f.amount /\ f.amount < perRound * rounds + perRound
  <2>. HIDE DEF perRound
  <2>. QED
    BY <1>1, <1>3, DivBounds
<1>5. IsStore(marked) /\ SameHeads(f.s, marked) /\ marked.batchCount = f.s.batchCount /\ marked.batches = f.s.batches
  BY <1>1, TimeMarked DEF OnlyMarked
<1>6. /\ g.s = marked
      /\ g.b = f.b /\ g.batchUpdated = f.batchUpdated /\ g.openBatchNo = f.openBatchNo
      /\ g.part.batchNo = f.part.batchNo /\ DOMAIN g.part = PartFields
      /\ rounds < vacant =>
            /\ g.part.roundNo = f.part.roundNo + rounds
            /\ g.part.roundCoverage = f.amount - rounds * perRound
            /\ g.amount = 0 /\ g.done = TRUE
      /\ ~(rounds < vacant) =>
            /\ g.part.roundNo = f.b.rounds
            /\ g.part.roundCoverage = f.part.roundCoverage
            /\ g.amount = f.amount - perRound * vacant /\ g.done = f.done
  <2>1. perRound = UnitSize * f.b.unitPerRound /\ perRound # 0 /\ rounds = f.amount \div perRound
    BY <1>3
  <2>. HIDE DEF perRound, rounds
  <2>2. FillResult(f, g, perRound, rounds)
    BY <1>1, <2>1, FillEffects
  <2>. QED
    BY <2>2 DEF FillResult
<1>. HIDE DEF perRound, rounds, vacant
<1>7. \A k : BatchAt(g.s, k) = BatchAt(f.s, k) /\ NextOf(g.s, k) = NextOf(f.s, k) /\ (FullAt(g.s, k) <=> FullAt(f.s, k))
  BY <1>5, <1>6 DEF BatchAt, NextOf, FullAt
<1>8. CoverageStore(g, L, s0)
  <2>1. Linked(g.s, L) /\ Frozen(s0, g.s)
    <3>1. Linked(f.s, L) /\ Frozen(s0, f.s) /\ g.s.batchCount = f.s.batchCount
      BY <1>5, <1>6 DEF CoverageKept, CoverageStore
    <3> QED
      BY <1>7, <3>1 DEF Linked, NoOthers, Reached, Frozen
  <2>. QED
    BY <1>5, <1>6, <1>7, <2>1 DEF CoverageKept, CoverageStore, SameHeads
<1>9. CASE rounds < vacant
  <2>. DEFINE left == f.amount - rounds * perRound
  <2>1. left \in Nat /\ left <= perRound
    BY <1>1, <1>3, <1>4
  <2>2. f.part.roundNo + rounds \in Nat /\ f.part.roundNo + rounds < f.b.rounds
    BY <1>2, <1>4, <1>9 DEF vacant
  <2>3. IsPart(g.part) /\ PartFits(g.part, g.b) /\ g.amount = 0 /\ g.done = TRUE
    <3>1. g.part.roundNo = f.part.roundNo + rounds /\ g.part.roundCoverage = left /\ g.amount = 0 /\ g.done = TRUE
      BY <1>6, <1>9
    <3>2. perRound = UnitSize * g.b.unitPerRound /\ g.b = f.b /\ DOMAIN g.part = PartFields
      BY <1>6 DEF perRound
    <3> HIDE DEF left
    <3>3. IsPart(g.part)
      BY <1>2, <2>1, <2>2, <3>1, <3>2 DEF IsPart
    <3>4. PartFits(g.part, g.b)
      BY <1>2, <2>1, <2>2, <3>1, <3>2 DEF PartFits
    <3> QED
      BY <3>1, <3>3, <3>4
  <2>4. CoverageSum(g) = UnitSize * (f.b.totalUnitsBeforeBatch + (f.part.roundNo + rounds) * u) + (f.amount - rounds * perRound) + 0
    BY <1>6, <1>9 DEF CoverageSum
  <2>5. /\ UnitSize * (f.b.totalUnitsBeforeBatch + (f.part.roundNo + rounds) * u)
            = UnitSize * (f.b.totalUnitsBeforeBatch + f.part.roundNo * u) + rounds * perRound
        /\ UnitSize * (f.b.totalUnitsBeforeBatch + f.part.roundNo * u) \in Nat /\ rounds * perRound \in Nat
    BY <1>2, <1>4, RoundsAdd DEF perRound
  <2>6. CoverageSum(f) = UnitSize * (f.b.totalUnitsBeforeBatch + f.part.roundNo * u) + 0 + f.amount
    BY <1>1 DEF CoverageSum
  <2>7. CoverageSum(g) = CoverageSum(f)
    <3>. DEFINE moved == rounds * perRound
                base == UnitSize * (f.b.totalUnitsBeforeBatch + f.part.roundNo * u)
    <3>1. /\ CoverageSum(g) = (base + moved) + (f.amount - moved) + 0
          /\ CoverageSum(f) = base + 0 + f.amount /\ base \in Nat /\ moved \in Nat
      BY <2>4, <2>5, <2>6
    <3>. HIDE DEF moved, base
    <3>. QED
      BY <1>1, <3>1
  <2>8. CoverageBatch(g)
    <3>1. CoverageBatch(f) /\ BatchAt(g.s, g.part.batchNo) = BatchAt(f.s, f.part.batchNo)
      BY <1>6, <1>7 DEF CoverageKept
    <3>2. g.b = f.b /\ g.batchUpdated = f.batchUpdated
      BY <1>6
    <3>3. g.done \in BOOLEAN /\ g.done /\ g.amount \in Nat
      <4>1. g.amount \in Nat
        BY <2>3
      <4>2. g.done \in BOOLEAN
        BY <2>3
      <4>3. g.done
        BY <2>3
      <4>. QED
        BY <4>1, <4>2, <4>3
    <3>4. IsPart(g.part) /\ PartFits(g.part, g.b)
      BY <2>3
    <3>5. IsBatch(f.b) /\ ~isFull(f.b) /\ SameButTotal(f.b, BatchAt(f.s, f.part.batchNo)) /\ f.batchUpdated \in BOOLEAN
      BY <3>1 DEF CoverageBatch
    <3>6. ~f.batchUpdated => f.b = BatchAt(f.s, f.part.batchNo)
      BY <3>1 DEF CoverageBatch
    <3>7. ~g.batchUpdated => g.b = BatchAt(g.s, g.part.batchNo)
      BY <3>1, <3>2, <3>6
    <3>8. SameButTotal(g.b, BatchAt(g.s, g.part.batchNo)) /\ IsBatch(g.b) /\ ~isFull(g.b) /\ g.batchUpdated \in BOOLEAN
      BY <3>1, <3>2, <3>5
    <3>. QED
      BY <3>3, <3>4, <3>7, <3>8 DEF CoverageBatch
  <2>. QED
    BY <1>8, <2>7, <2>8 DEF CoverageKept
<1>10. CASE ~(rounds < vacant)
  <2>1. perRound * vacant <= f.amount /\ perRound * vacant \in Nat
    <3>1. vacant \in Nat /\ vacant <= rounds
      BY <1>3, <1>4, <1>10
    <3>2. perRound * vacant <= perRound * rounds /\ perRound * vacant \in Nat
      BY <1>3, <1>4, <3>1, MulMonotone
    <3>3. perRound * rounds \in Nat
      BY <1>3, <1>4
    <3> QED
      BY <1>1, <1>4, <3>2, <3>3
  <2>2. g.amount = f.amount - perRound * vacant /\ g.amount \in Nat
    BY <1>1, <1>6, <1>10, <2>1
  <2>3. IsPart(g.part) /\ PartFits(g.part, g.b) /\ g.part.roundCoverage = 0 /\ g.done = f.done
    BY <1>1, <1>2, <1>6, <1>10 DEF IsPart, PartFits
  <2>4. CoverageSum(g) = UnitSize * (f.b.totalUnitsBeforeBatch + f.b.rounds * u) + 0 + (f.amount - perRound * vacant)
    BY <1>1, <1>6, <1>10 DEF CoverageSum
  <2>5. f.b.rounds = f.part.roundNo + vacant
    BY <1>2 DEF vacant
  <2>6. /\ UnitSize * (f.b.totalUnitsBeforeBatch + (f.part.roundNo + vacant) * u)
            = UnitSize * (f.b.totalUnitsBeforeBatch + f.part.roundNo * u) + perRound * vacant
        /\ UnitSize * (f.b.totalUnitsBeforeBatch + f.part.roundNo * u) \in Nat
    BY <1>2, <1>3, RoundsAdd DEF perRound
  <2>7. CoverageSum(f) = UnitSize * (f.b.totalUnitsBeforeBatch + f.part.roundNo * u) + 0 + f.amount
    BY <1>1 DEF CoverageSum
  <2>8. CoverageSum(g) = CoverageSum(f)
    BY <1>1, <2>1, <2>4, <2>5, <2>6, <2>7
  <2>. QED
    BY <1>6, <1>7, <1>8, <2>2, <2>3, <2>8 DEF CoverageKept, CoverageBatch
<1>. QED
  BY <1>9, <1>10

(* What one step of the loop keeps, unless the call fails. *)
CoverageGood(f, L, s0, sum) == IsCoverageFrame(f) /\ (f.panic \/ CoverageKept(f, L, s0, sum))

\* The steps of the coverage loop take a failed call to a failed call.
LEMMA CoverageStepsKeepPanic ==
    ASSUME NEW f, IsCoverageFrame(f)
    PROVE  /\ IsCoverageFrame(closeFullBatch(f)) /\ (f.panic => closeFullBatch(f).panic)
           /\ IsCoverageFrame(fillRounds(f)) /\ (f.panic => fillRounds(f).panic)
<1>1. IsCoverageFrame(closeFullBatch(f)) /\ (f.panic => closeFullBatch(f).panic)
  BY DEF closeFullBatch, IsCoverageFrame, CoverageFields
<1>2. IsCoverageFrame(fillRounds(f)) /\ (f.panic => fillRounds(f).panic)
  BY DEF fillRounds, IsCoverageFrame, CoverageFields
<1>. QED
  BY <1>1, <1>2

(* The loop may end earlier. *)
SameButDone(f, g) ==
    /\ g.s = f.s /\ g.b = f.b /\ g.amount = f.amount /\ g.part = f.part
    /\ g.openBatchNo = f.openBatchNo /\ g.batchUpdated = f.batchUpdated

\* Ending the loop changes nothing of what the coverage loop keeps.
LEMMA DoneKeeps ==
    ASSUME NEW f, NEW L, NEW s0, NEW sum, CoverageKept(f, L, s0, sum),
           NEW g, SameButDone(f, g), g.done \in BOOLEAN, f.done => g.done
    PROVE  CoverageKept(g, L, s0, sum)
  BY DEF SameButDone, CoverageKept, CoverageStore, CoverageBatch, CoverageSum

\* One turn of the coverage loop fails or keeps the list and the sum of coverage.
LEMMA CoverageStepKeeps ==
    ASSUME NEW f, NEW L, NEW s0, NEW sum, CoverageGood(f, L, s0, sum)
    PROVE  CoverageGood(addCoverageStep(f), L, s0, sum)
<1>. DEFINE h == [f EXCEPT !.loopLimit = @ - 1]
            c == closeFullBatch(h)
            r == fillRounds(h)
            g == addCoverageStep(f)
<1>1. IsCoverageFrame(f) /\ (f.panic \/ CoverageKept(f, L, s0, sum))
  BY DEF CoverageGood
<1>2. /\ IsCoverageFrame(h) /\ h.s = f.s /\ h.b = f.b /\ h.amount = f.amount /\ h.part = f.part
      /\ h.openBatchNo = f.openBatchNo /\ h.batchUpdated = f.batchUpdated /\ h.done = f.done /\ h.panic = f.panic
  BY <1>1 DEF IsCoverageFrame, CoverageFields
<1>3. CoverageKept(f, L, s0, sum) => CoverageKept(h, L, s0, sum)
  BY <1>2 DEF CoverageKept, CoverageStore, CoverageBatch, CoverageSum
<1>4. CASE f.done
  <2>1. g = f
    BY <1>4 DEF addCoverageStep
  <2>. QED
    BY <2>1 DEF CoverageGood
<1>5. /\ IsCoverageFrame(c) /\ (h.panic => c.panic)
      /\ IsCoverageFrame(r) /\ (h.panic => r.panic)
  BY <1>2, CoverageStepsKeepPanic
<1>. HIDE DEF h, c, r
<1>6. CASE ~f.done /\ f.part.roundNo >= f.b.rounds
  <2>. DEFINE e == c.done \/ c.loopLimit = 0
  <2>1. g = [c EXCEPT !.done = e]
    BY <1>6 DEF addCoverageStep, c, h
  <2>. HIDE DEF e, g
  <2>2. IsCoverageFrame(g) /\ g.panic = c.panic /\ SameButDone(c, g)
    BY <1>5, <2>1 DEF IsCoverageFrame, CoverageFields, SameButDone
  <2>3. CASE f.panic
    BY <1>2, <1>5, <2>2, <2>3 DEF CoverageGood, g
  <2>4. CASE ~f.panic /\ ~c.panic
    <3>1. CoverageKept(h, L, s0, sum)
      BY <1>1, <1>3, <2>4
    <3>2. CoverageKept(c, L, s0, sum)
      BY <1>2, <1>6, <2>4, <3>1, CloseKeeps DEF c
    <3>3. g.done \in BOOLEAN /\ (c.done => g.done)
      <4>1. c.done \in BOOLEAN /\ "done" \in DOMAIN c
        BY <1>5, <3>2 DEF CoverageKept, CoverageBatch, IsCoverageFrame, CoverageFields
      <4>2. g.done = e
        BY <2>1, <4>1
      <4>3. e \in BOOLEAN /\ (c.done => e)
        BY <4>1 DEF e
      <4>. QED
        BY <4>2, <4>3
    <3>. QED
      BY <2>2, <3>2, <3>3, DoneKeeps DEF CoverageGood, g
  <2>. QED
    BY <2>2, <2>3, <2>4 DEF CoverageGood, g
<1>7. CASE ~f.done /\ ~(f.part.roundNo >= f.b.rounds)
  <2>. DEFINE e == r.done \/ r.loopLimit = 0
  <2>1. g = [r EXCEPT !.done = e]
    BY <1>7 DEF addCoverageStep, r, h
  <2>. HIDE DEF e, g
  <2>2. IsCoverageFrame(g) /\ g.panic = r.panic /\ SameButDone(r, g)
    BY <1>5, <2>1 DEF IsCoverageFrame, CoverageFields, SameButDone
  <2>3. CASE f.panic
    BY <1>2, <1>5, <2>2, <2>3 DEF CoverageGood, g
  <2>4. CASE ~f.panic /\ UnitSize * f.b.unitPerRound # 0
    <3>1. CoverageKept(h, L, s0, sum)
      BY <1>1, <1>3, <2>4
    <3>2. h.part.roundNo < h.b.rounds
      <4>1. h.part.roundNo \in Nat /\ h.b.rounds \in Nat
        BY <3>1 DEF CoverageKept, CoverageBatch, IsPart, IsBatch
      <4>. QED
        BY <1>2, <1>7, <4>1
    <3>3. CoverageKept(r, L, s0, sum)
      BY <1>2, <1>7, <2>4, <3>1, <3>2, FillKeeps DEF r
    <3>4. g.done \in BOOLEAN /\ (r.done => g.done)
      <4>1. r.done \in BOOLEAN /\ "done" \in DOMAIN r
        BY <1>5, <3>3 DEF CoverageKept, CoverageBatch, IsCoverageFrame, CoverageFields
      <4>2. g.done = e
        BY <2>1, <4>1
      <4>3. e \in BOOLEAN /\ (r.done => e)
        BY <4>1 DEF e
      <4>. QED
        BY <4>2, <4>3
    <3>. QED
      BY <2>2, <3>3, <3>4, DoneKeeps DEF CoverageGood, g
  <2>5. CASE ~f.panic /\ UnitSize * f.b.unitPerRound = 0
    <3>1. r.panic
      BY <1>2, <2>5 DEF r, fillRounds, IsCoverageFrame, CoverageFields
    <3>. QED
      BY <2>2, <3>1 DEF CoverageGood, g
  <2>. QED
    BY <2>3, <2>4, <2>5
<1>. QED
  BY <1>4, <1>6, <1>7

(* The frames of the engine's loops. *)
LoopStep(loop, f) ==
    IF loop = "coverage" THEN addCoverageStep(f)
    ELSE IF loop = "demand" THEN addDemandStep(f)
    ELSE IF loop = "pull" THEN pullStep(f)
    ELSE IF loop = "chain" THEN chainStep(f) ELSE spanStep(f)

LoopFrames(loop, it, frame, n) ==
    it = [k \in 0..n |-> IF k = 0 THEN frame ELSE LoopStep(loop, it[k - 1])]

\* The frames of a loop, turn by turn, make a function.
LEMMA FramesExist ==
    ASSUME NEW n \in Nat, NEW frame, NEW loop
    PROVE  \E it : LoopFrames(loop, it, frame, n)
<1>. DEFINE G == {m \in 0..n : \E it : LoopFrames(loop, it, frame, m)}
<1>1. 0 \in G
  <2>1. LoopFrames(loop, [k \in 0..0 |-> frame], frame, 0)
    BY DEF LoopFrames
  <2>. QED
    BY <2>1
<1>2. ASSUME NEW m \in 0..(n - 1), m \in G PROVE m + 1 \in G
  <2>1. PICK it : LoopFrames(loop, it, frame, m)
    BY <1>2
  <2>. DEFINE more == [k \in 0..(m + 1) |-> IF k = 0 THEN frame ELSE LoopStep(loop, it[k - 1])]
  <2>2. /\ m \in Nat /\ m + 1 \in 0..n
        /\ \A k \in 0..(m + 1) : k # 0 => k - 1 \in 0..m /\ k - 1 \in 0..(m + 1)
        /\ \A k \in 0..m : k \in 0..(m + 1)
    BY <1>2
  <2>3. \A k \in 0..m : it[k] = IF k = 0 THEN frame ELSE LoopStep(loop, it[k - 1])
    BY <2>1 DEF LoopFrames
  <2>4. \A k \in 0..m : more[k] = it[k]
    BY <2>2, <2>3
  <2>5. more = [k \in 0..(m + 1) |-> IF k = 0 THEN frame ELSE LoopStep(loop, more[k - 1])]
    BY <2>2, <2>4
  <2>. HIDE DEF more
  <2>6. LoopFrames(loop, more, frame, m + 1)
    BY <2>5 DEF LoopFrames
  <2>. QED
    BY <2>2, <2>6
<1>3. n \in G
  <2>. HIDE DEF G
  <2>1. 0..n \subseteq G
    BY <1>1, <1>2, UpToInduction
  <2>. QED
    BY <2>1
<1>. QED
  BY <1>3

\* Iterating the turn of the coverage loop gives the last of its frames.
LEMMA CoverageLoopRuns ==
    ASSUME NEW n \in Nat, NEW frame
    PROVE  \E it : LoopFrames("coverage", it, frame, n) /\ Iterate(addCoverageStep, frame, n) = it[n]
<1>. DEFINE it == CHOOSE after : after = [k \in 0..n |-> IF k = 0 THEN frame ELSE addCoverageStep(after[k - 1])]
<1>1. \E after : after = [k \in 0..n |-> IF k = 0 THEN frame ELSE addCoverageStep(after[k - 1])]
  <2>1. PICK after : LoopFrames("coverage", after, frame, n)
    BY FramesExist
  <2>2. \A f : LoopStep("coverage", f) = addCoverageStep(f)
    BY DEF LoopStep
  <2>3. after = [k \in 0..n |-> IF k = 0 THEN frame ELSE addCoverageStep(after[k - 1])]
    BY <2>1, <2>2 DEF LoopFrames
  <2>. QED
    BY <2>3
<1>2. it = [k \in 0..n |-> IF k = 0 THEN frame ELSE addCoverageStep(it[k - 1])]
  BY <1>1
<1>3. Iterate(addCoverageStep, frame, n) = it[n]
  BY DEF Iterate
<1>. HIDE DEF it
<1>4. LoopFrames("coverage", it, frame, n)
  BY <1>2 DEF LoopFrames, LoopStep
<1>. QED
  BY <1>3, <1>4

\* All turns of the coverage loop fail or keep the list and the sum of coverage.
LEMMA CoverageLoopKeeps ==
    ASSUME NEW n \in Nat, NEW frame, NEW L, NEW s0, NEW sum, CoverageGood(frame, L, s0, sum)
    PROVE  CoverageGood(Iterate(addCoverageStep, frame, n), L, s0, sum)
<1>1. PICK it : LoopFrames("coverage", it, frame, n) /\ Iterate(addCoverageStep, frame, n) = it[n]
  BY CoverageLoopRuns
<1>. DEFINE G == {k \in 0..n : CoverageGood(it[k], L, s0, sum)}
<1>2. \A k \in 0..n : it[k] = IF k = 0 THEN frame ELSE addCoverageStep(it[k - 1])
  BY <1>1 DEF LoopFrames, LoopStep
<1>3. 0 \in G
  BY <1>2
<1>4. ASSUME NEW k \in 0..(n - 1), k \in G PROVE k + 1 \in G
  <2>1. k + 1 \in 0..n /\ k + 1 # 0 /\ (k + 1) - 1 = k /\ CoverageGood(it[k], L, s0, sum)
    BY <1>4
  <2>2. it[k + 1] = addCoverageStep(it[k])
    BY <1>2, <2>1
  <2>3. CoverageGood(it[k + 1], L, s0, sum)
    BY <2>1, <2>2, CoverageStepKeeps
  <2>. QED
    BY <2>1, <2>3
<1>5. n \in G
  <2>. HIDE DEF G
  <2>1. 0..n \subseteq G
    BY <1>3, <1>4, UpToInduction
  <2>. QED
    BY <2>1
<1>. QED
  BY <1>1, <1>5

-----------------------------------------------------------------------------
(* internalAddCoverage as a whole.                                         *)

InsuredsIn(entries, L) ==
    entries \in [Insureds -> [nextBatchNo : L \cup {0}, demandedUnits : Nat, status : {"Accepted", "Declined"}]]

(* The partial batch is where the full batches end, and the partial round is in it. *)
PartialPlaced(s, L) ==
    /\ IsPart(s.partial) /\ s.partial.batchNo \in L \cup {0}
    /\ s.batchCount > 0 => s.partial.batchNo # 0
    /\ PartFits(s.partial, BatchAt(s, s.partial.batchNo))
    /\ s.partial.batchNo # 0 =>
          /\ ~FullAt(s, s.partial.batchNo)
          /\ \A n \in L : NextOf(s, n) = s.partial.batchNo => FullAt(s, n)

FirstOpenPlaced(s, L) ==
    /\ s.firstOpenBatchNo \in L \cup {0}
    /\ s.batchCount > 0 => s.firstOpenBatchNo # 0
    /\ s.firstOpenBatchNo # 0 => ~FullAt(s, s.firstOpenBatchNo)

EngineStore(s, L) ==
    /\ IsStore(s) /\ Linked(s, L)
    /\ PartialPlaced(s, L)
    /\ FirstOpenPlaced(s, L)
    /\ InsuredsIn(s.insureds, L)
    /\ s.openRounds \in Nat /\ s.pendingCoverage = 0

(* Coverage in the rounds up to the partial one. *)
SumIn(part, b) ==
    UnitSize * (b.totalUnitsBeforeBatch + part.roundNo * b.unitPerRound) + part.roundCoverage
StoreSum(s) == SumIn(s.partial, BatchAt(s, s.partial.batchNo))

(* The local variables of internalAddCoverage before its loop. *)
coverageFrame(s, amount, loopLimit) ==
    LET part   == s.partial
        b      == BatchAt(s, part.batchNo)
        vacant == UnitSize * b.unitPerRound - part.roundCoverage
        full   == part.roundCoverage > 0
    IN  [s |-> IF part.roundCoverage = 0 THEN s ELSE updateTimeMark(s, part, b.unitPerRound), b |-> b,
         amount |-> IF full THEN amount - vacant ELSE amount,
         part |-> IF full THEN [part EXCEPT !.roundCoverage = 0, !.roundNo = @ + 1] ELSE part,
         premium |-> s.poolPremium, openBatchNo |-> s.firstOpenBatchNo,
         batchUpdated |-> FALSE, loopLimit |-> loopLimit, done |-> FALSE,
         panic |-> full /\ ~isReady(b)]

coverageLoop(s, amount, loopLimit) ==
    Iterate(addCoverageStep, coverageFrame(s, amount, loopLimit), loopLimit)

(* ... and what it stores after the loop, which ended with the frame f. *)
coverageStored(f) ==
    [IF f.batchUpdated THEN PutBatch(f.s, f.part.batchNo, f.b) ELSE f.s EXCEPT
        !.partial = f.part, !.poolPremium = f.premium, !.firstOpenBatchNo = f.openBatchNo]

CoverageBlocked(s, amount) ==
    LET b == BatchAt(s, s.partial.batchNo)
    IN  \/ 0 \in {amount, s.partial.batchNo}
        \/ s.partial.roundCoverage = 0 /\ ~isReady(b) /\ (b.rounds > 0 \/ b.nextBatchNo = 0)

CoverageFits(s, amount) ==
    /\ s.partial.roundCoverage > 0
    /\ amount < UnitSize * BatchAt(s, s.partial.batchNo).unitPerRound - s.partial.roundCoverage

(* All coverage goes into the partial round. *)
roundFilled(s, amount) ==
    [updateTimeMark(s, s.partial, BatchAt(s, s.partial.batchNo).unitPerRound)
        EXCEPT !.partial.roundCoverage = @ + amount]

\* The three ways through internalAddCoverage.
LEMMA AddCoverageCases ==
    ASSUME NEW s, NEW amount, NEW limit, s.partial.roundCoverage \in Nat,
           NEW r, r = internalAddCoverage(s, amount, limit)
    PROVE  /\ CoverageBlocked(s, amount) => r.s = s /\ r.remaining = amount /\ ~r.panic
           /\ ~CoverageBlocked(s, amount) /\ CoverageFits(s, amount) =>
                 /\ r.remaining = 0
                 /\ r.s = roundFilled(s, amount)
                 /\ r.panic => ~isReady(BatchAt(s, s.partial.batchNo))
           /\ ~CoverageBlocked(s, amount) /\ ~CoverageFits(s, amount) =>
                 \E f : /\ f = coverageLoop(s, amount, limit)
                        /\ r.s = coverageStored(f) /\ r.remaining = f.amount
                        /\ f.panic => r.panic
                        /\ r.panic => f.panic \/ f.openBatchNo = 0
<1>. DEFINE f == coverageLoop(s, amount, limit)
            u == BatchAt(s, s.partial.batchNo).unitPerRound
            marked == updateTimeMark(s, s.partial, u)
            vacant == UnitSize * u - s.partial.roundCoverage
            b == BatchAt(s, s.partial.batchNo)
            blocked == s.partial.roundCoverage = 0 /\ ~isReady(b) /\ (b.rounds > 0 \/ b.nextBatchNo = 0)
            blockedNow == 0 \in {amount, s.partial.batchNo} \/ blocked
            fitsNow == /\ 0 \notin {amount, s.partial.batchNo} /\ ~blocked
                       /\ s.partial.roundCoverage > 0 /\ amount < vacant
            nothing == [s |-> s, remaining |-> amount, panic |-> FALSE]
            filled == [s |-> [(IF s.partial.roundCoverage = 0 THEN s ELSE marked) EXCEPT !.partial.roundCoverage = @ + amount],
                       remaining |-> 0, panic |-> ~isReady(b)]
            looped == [s |-> coverageStored(f), remaining |-> f.amount, panic |-> f.panic \/ f.openBatchNo = 0]
<1>1. r = CASE blockedNow -> nothing [] fitsNow -> filled [] OTHER -> looped
  BY DEF internalAddCoverage, coverageLoop, coverageFrame, coverageStored
<1>2. /\ blockedNow <=> CoverageBlocked(s, amount)
      /\ fitsNow <=> ~CoverageBlocked(s, amount) /\ CoverageFits(s, amount)
  BY DEF CoverageBlocked, CoverageFits
<1>3. /\ nothing.s = s /\ nothing.remaining = amount /\ ~nothing.panic
      /\ looped.s = coverageStored(f) /\ looped.remaining = f.amount /\ (f.panic => looped.panic)
      /\ looped.panic => f.panic \/ f.openBatchNo = 0
  <2>. HIDE DEF f
  <2>. QED
    OBVIOUS
<1>4. fitsNow => filled.s = roundFilled(s, amount) /\ filled.remaining = 0
  BY DEF roundFilled
<1>8. filled.panic => ~isReady(BatchAt(s, s.partial.batchNo))
  OBVIOUS
<1>. HIDE DEF blockedNow, fitsNow, nothing, filled, looped
<1>5. CASE CoverageBlocked(s, amount)
  <2>1. blockedNow /\ ~fitsNow
    BY <1>2, <1>5
  <2>2. r = nothing
    BY <1>1, <2>1
  <2>. QED
    BY <1>3, <1>5, <2>2
<1>6. CASE ~CoverageBlocked(s, amount) /\ CoverageFits(s, amount)
  <2>1. ~blockedNow /\ fitsNow
    BY <1>2, <1>6
  <2>2. r = filled
    BY <1>1, <2>1
  <2>. QED
    BY <1>4, <1>6, <1>8, <2>1, <2>2
<1>7. CASE ~CoverageBlocked(s, amount) /\ ~CoverageFits(s, amount)
  <2>1. ~blockedNow /\ ~fitsNow
    BY <1>2, <1>7
  <2>2. r = looped
    BY <1>1, <2>1
  <2>3. /\ f = coverageLoop(s, amount, limit) /\ r.s = coverageStored(f) /\ r.remaining = f.amount
        /\ f.panic => r.panic
        /\ r.panic => f.panic \/ f.openBatchNo = 0
    BY <1>3, <2>2 DEF f
  <2>. QED
    BY <1>7, <2>3
<1>. QED
  BY <1>5, <1>6, <1>7

(* Facts about the partial batch b while there is one. *)
PartialFacts(s, L, b) ==
    /\ s.partial.batchNo \in L /\ s.partial.batchNo \in Nat /\ IsStore(s)
    /\ IsBatch(b) /\ LastIsEmpty(b) /\ ~isFull(b) /\ IsPart(s.partial) /\ PartFits(s.partial, b)
    /\ b.unitPerRound \in Nat /\ b.rounds \in Nat /\ b.totalUnitsBeforeBatch \in Nat
    /\ UnitSize \in Nat /\ UnitSize * b.unitPerRound \in Nat

\* The partial batch is live and not full, and the partial round fits it.
LEMMA PartialBatch ==
    ASSUME NEW s, NEW L, EngineStore(s, L), s.partial.batchNo # 0,
           NEW b, b = BatchAt(s, s.partial.batchNo)
    PROVE  PartialFacts(s, L, b)
<1>1. s.partial.batchNo \in L
  BY DEF EngineStore, PartialPlaced
<1>2. IsBatch(b) /\ LastIsEmpty(b) /\ ~isFull(b) /\ IsPart(s.partial) /\ PartFits(s.partial, b)
  BY <1>1 DEF EngineStore, PartialPlaced, Linked, FullAt
<1>3. s.partial.batchNo \in Nat
  BY <1>1, LinksAreNumbers DEF EngineStore
<1>4. UnitSize \in Nat /\ b.unitPerRound \in Nat
  BY <1>2, RoundsAssumption DEF IsBatch
<1>5. UnitSize * b.unitPerRound \in Nat
  BY <1>4
<1>6. IsStore(s) /\ b.rounds \in Nat /\ b.totalUnitsBeforeBatch \in Nat
  BY <1>2 DEF EngineStore, IsBatch
<1>. QED
  BY <1>1, <1>2, <1>3, <1>4, <1>5, <1>6 DEF PartialFacts

(* A store with the same batches and the same places of the partial and the open batch. *)
SameList(s, t, L) ==
    /\ IsStore(t) /\ t.batches = s.batches /\ t.batchCount = s.batchCount
    /\ t.partial.batchNo = s.partial.batchNo /\ IsPart(t.partial)
    /\ PartFits(t.partial, BatchAt(s, s.partial.batchNo))
    /\ t.firstOpenBatchNo = s.firstOpenBatchNo /\ InsuredsIn(t.insureds, L)
    /\ t.openRounds \in Nat /\ t.pendingCoverage = s.pendingCoverage

\* Moving the partial round within its batch, or writing insureds, keeps the list.
LEMMA SameListKeeps ==
    ASSUME NEW s, NEW L, EngineStore(s, L), NEW t, SameList(s, t, L)
    PROVE  EngineStore(t, L) /\ Frozen(s, t)
<1>. USE DEF SameList
<1>1. \A k : BatchAt(t, k) = BatchAt(s, k) /\ NextOf(t, k) = NextOf(s, k) /\ (FullAt(t, k) <=> FullAt(s, k))
  BY DEF BatchAt, NextOf, FullAt
<1>2. Linked(t, L) /\ Frozen(s, t)
  <2>1. Linked(s, L)
    BY DEF EngineStore
  <2>. QED
    BY <1>1, <2>1 DEF Linked, NoOthers, Reached, Frozen
<1>3. PartialPlaced(t, L) /\ FirstOpenPlaced(t, L)
  BY <1>1 DEF EngineStore, PartialPlaced, FirstOpenPlaced
<1>. QED
  BY <1>1, <1>2, <1>3 DEF EngineStore

\* All coverage goes into the partial round.
LEMMA FilledKeeps ==
    ASSUME NEW s, NEW L, EngineStore(s, L), NEW amount \in Nat,
           s.partial.batchNo # 0, CoverageFits(s, amount)
    PROVE  /\ EngineStore(roundFilled(s, amount), L) /\ Frozen(s, roundFilled(s, amount))
           /\ StoreSum(roundFilled(s, amount)) = StoreSum(s) + amount
<1>. DEFINE t == roundFilled(s, amount)
            b == BatchAt(s, s.partial.batchNo)
            marked == updateTimeMark(s, s.partial, b.unitPerRound)
            size == UnitSize * b.unitPerRound
<1>1. /\ IsPart(s.partial) /\ PartFits(s.partial, b) /\ IsStore(s)
      /\ b.unitPerRound \in Nat /\ b.rounds \in Nat /\ b.totalUnitsBeforeBatch \in Nat
      /\ UnitSize \in Nat /\ size \in Nat
  <2>1. PartialFacts(s, L, b)
    BY PartialBatch
  <2>. QED
    BY <2>1 DEF PartialFacts
<1>2. IsStore(marked) /\ SameHeads(s, marked) /\ marked.batchCount = s.batchCount /\ marked.batches = s.batches
  BY <1>1, TimeMarked DEF OnlyMarked
<1>3. t = [marked EXCEPT !.partial = [s.partial EXCEPT !.roundCoverage = s.partial.roundCoverage + amount]]
  <2>1. t = [marked EXCEPT !.partial.roundCoverage = @ + amount]
    BY DEF roundFilled
  <2>. HIDE DEF t, marked
  <2>. QED
    BY <1>2, <2>1 DEF SameHeads, IsStore, StoreFields
<1>. HIDE DEF t, marked, size
<1>4. /\ IsStore(t) /\ t.batches = s.batches /\ t.batchCount = s.batchCount
      /\ t.partial = [s.partial EXCEPT !.roundCoverage = s.partial.roundCoverage + amount]
      /\ t.firstOpenBatchNo = s.firstOpenBatchNo /\ t.insureds = s.insureds /\ t.openRounds = s.openRounds
      /\ t.pendingCoverage = s.pendingCoverage
  BY <1>2, <1>3 DEF IsStore, StoreFields, SameHeads
<1>5. /\ t.partial.batchNo = s.partial.batchNo /\ t.partial.roundNo = s.partial.roundNo
      /\ t.partial.roundCoverage = s.partial.roundCoverage + amount /\ DOMAIN t.partial = PartFields
  BY <1>1, <1>4 DEF IsPart, PartFields
<1>6. s.partial.roundCoverage > 0 /\ amount < size - s.partial.roundCoverage
  BY DEF CoverageFits, size
<1>7. s.partial.roundCoverage \in Nat /\ s.partial.roundNo \in Nat /\ s.partial.roundNo < b.rounds
  BY <1>1, <1>6 DEF IsPart, PartFits
<1>8. IsPart(t.partial) /\ PartFits(t.partial, b)
  <2>1. t.partial.roundCoverage \in Nat /\ t.partial.roundCoverage <= size
    BY <1>1, <1>5, <1>6, <1>7
  <2>2. IsPart(t.partial)
    BY <1>5, <1>7, <2>1 DEF IsPart
  <2>3. t.partial.roundNo <= b.rounds /\ t.partial.roundNo < b.rounds
    BY <1>1, <1>5, <1>7
  <2>. QED
    BY <2>1, <2>2, <2>3 DEF PartFits, size
<1>9. EngineStore(t, L) /\ Frozen(s, t) /\ BatchAt(t, s.partial.batchNo) = b
  <2>1. InsuredsIn(t.insureds, L) /\ t.openRounds \in Nat
    BY <1>4 DEF EngineStore
  <2>2. SameList(s, t, L)
    BY <1>4, <1>5, <1>8, <2>1 DEF SameList
  <2>3. BatchAt(t, s.partial.batchNo) = b
    BY <1>4 DEF BatchAt
  <2>. QED
    BY <2>2, <2>3, SameListKeeps
<1>10. StoreSum(t) = StoreSum(s) + amount
  <2>. DEFINE base == UnitSize * (b.totalUnitsBeforeBatch + s.partial.roundNo * b.unitPerRound)
  <2>1. base \in Nat
    BY <1>1, <1>7, RoundsAdd
  <2>2. StoreSum(t) = base + (s.partial.roundCoverage + amount) /\ StoreSum(s) = base + s.partial.roundCoverage
    BY <1>5, <1>9 DEF StoreSum, SumIn
  <2>. HIDE DEF base
  <2>. QED
    BY <1>7, <2>1, <2>2
<1>. QED
  BY <1>9, <1>10 DEF t

\* The loop begins with a frame it keeps.
LEMMA LoopEntered ==
    ASSUME NEW s, NEW L, EngineStore(s, L), NEW amount \in Nat, NEW limit,
           ~CoverageBlocked(s, amount), ~CoverageFits(s, amount)
    PROVE  CoverageGood(coverageFrame(s, amount, limit), L, s, StoreSum(s) + amount)
<1>. DEFINE f == coverageFrame(s, amount, limit)
            b == BatchAt(s, s.partial.batchNo)
            full == s.partial.roundCoverage > 0
            vacant == UnitSize * b.unitPerRound - s.partial.roundCoverage
            size == UnitSize * b.unitPerRound
            marked == updateTimeMark(s, s.partial, b.unitPerRound)
<1>1. s.partial.batchNo # 0
  BY DEF CoverageBlocked
<1>2. /\ s.partial.batchNo \in L /\ s.partial.batchNo \in Nat
      /\ IsBatch(b) /\ LastIsEmpty(b) /\ ~isFull(b) /\ IsPart(s.partial) /\ PartFits(s.partial, b)
      /\ b.unitPerRound \in Nat /\ b.rounds \in Nat /\ b.totalUnitsBeforeBatch \in Nat
      /\ UnitSize \in Nat /\ size \in Nat /\ IsStore(s)
  <2>1. PartialFacts(s, L, b)
    BY <1>1, PartialBatch
  <2>. QED
    BY <2>1 DEF PartialFacts
<1>3. IsStore(marked) /\ SameHeads(s, marked) /\ marked.batchCount = s.batchCount /\ marked.batches = s.batches
  BY <1>2, TimeMarked DEF OnlyMarked
<1>4. /\ IsCoverageFrame(f) /\ f.b = b /\ f.openBatchNo = s.firstOpenBatchNo /\ f.batchUpdated = FALSE /\ f.done = FALSE
      /\ f.s = (IF s.partial.roundCoverage = 0 THEN s ELSE marked)
      /\ f.amount = (IF full THEN amount - vacant ELSE amount)
      /\ f.part = (IF full THEN [s.partial EXCEPT !.roundCoverage = 0, !.roundNo = @ + 1] ELSE s.partial)
  BY DEF coverageFrame, IsCoverageFrame, CoverageFields
<1>. HIDE DEF f, marked
<1>5. IsStore(f.s) /\ SameHeads(s, f.s) /\ f.s.batchCount = s.batchCount /\ f.s.batches = s.batches
  <2>1. SameHeads(s, s)
    BY DEF SameHeads
  <2>. QED
    BY <1>2, <1>3, <1>4, <2>1
<1>6. \A k : BatchAt(f.s, k) = BatchAt(s, k) /\ NextOf(f.s, k) = NextOf(s, k) /\ (FullAt(f.s, k) <=> FullAt(s, k))
  BY <1>5 DEF BatchAt, NextOf, FullAt
<1>7. f.part.batchNo = s.partial.batchNo /\ DOMAIN f.part = PartFields
  BY <1>2, <1>4 DEF IsPart, PartFields
<1>8. CoverageStore(f, L, s)
  <2>1. Linked(f.s, L) /\ Frozen(s, f.s)
    <3>1. Linked(s, L)
      BY DEF EngineStore
    <3>. QED
      BY <1>5, <1>6, <3>1 DEF Linked, NoOthers, Reached, Frozen
  <2>2. f.openBatchNo \in L /\ ~FullAt(s, f.openBatchNo)
    <3>1. s.batchCount > 0
      <4>1. L \subseteq 1..s.batchCount /\ s.batchCount \in Nat
        BY DEF EngineStore, Linked
      <4>. QED
        BY <1>2, <4>1, NextNumber
    <3>. QED
      BY <1>4, <3>1 DEF EngineStore, FirstOpenPlaced
  <2>3. \A n \in L : NextOf(s, n) = s.partial.batchNo => FullAt(s, n)
    BY <1>1 DEF EngineStore, PartialPlaced
  <2>. QED
    BY <1>2, <1>5, <1>6, <1>7, <2>1, <2>2, <2>3 DEF CoverageStore, SameHeads, EngineStore
<1>9. s.partial.roundCoverage \in Nat /\ s.partial.roundNo \in Nat
  BY <1>2 DEF IsPart
<1>10. /\ f.amount \in Nat /\ IsPart(f.part) /\ PartFits(f.part, b) /\ b.nextBatchNo # 0 /\ f.part.roundCoverage = 0
       /\ CoverageSum(f) = StoreSum(s) + amount
  <2>. DEFINE base == UnitSize * (b.totalUnitsBeforeBatch + s.partial.roundNo * b.unitPerRound)
  <2>1. base \in Nat /\ StoreSum(s) = base + s.partial.roundCoverage
    BY <1>2, <1>9, RoundsAdd DEF StoreSum, SumIn
  <2>2. CASE full
    <3>1. f.part.roundCoverage = 0 /\ f.part.roundNo = s.partial.roundNo + 1
      BY <1>2, <1>4, <2>2 DEF IsPart, PartFields
    <3>2. f.amount = amount - (size - s.partial.roundCoverage)
      BY <1>4, <2>2
    <3>3. ~(amount < size - s.partial.roundCoverage) /\ s.partial.roundCoverage <= size /\ s.partial.roundNo < b.rounds
      BY <1>2, <2>2 DEF CoverageFits, PartFits
    <3>4. f.amount \in Nat
      <4>. HIDE DEF size
      <4>. QED
        BY <1>2, <1>9, <3>2, <3>3
    <3>5. IsPart(f.part) /\ PartFits(f.part, b)
      BY <1>2, <1>7, <1>9, <3>1, <3>3 DEF IsPart, PartFits
    <3>6. b.nextBatchNo # 0
      BY <1>2, <1>9, <3>3 DEF LastIsEmpty
    <3>7. CoverageSum(f) = UnitSize * (b.totalUnitsBeforeBatch + (s.partial.roundNo + 1) * b.unitPerRound)
                           + 0 + (amount - (size - s.partial.roundCoverage))
      BY <1>4, <3>1, <3>2 DEF CoverageSum
    <3>8. UnitSize * (b.totalUnitsBeforeBatch + (s.partial.roundNo + 1) * b.unitPerRound) = base + 1 * size
      BY <1>2, <1>9, RoundsAdd
    <3>. HIDE DEF base, size
    <3>9. CoverageSum(f) = StoreSum(s) + amount
      BY <1>2, <1>9, <2>1, <3>7, <3>8
    <3>. QED
      BY <3>1, <3>4, <3>5, <3>6, <3>9
  <2>3. CASE ~full
    <3>1. s.partial.roundCoverage = 0 /\ f.part = s.partial /\ f.amount = amount
      BY <1>4, <1>9, <2>3
    <3>2. isReady(b) \/ ~(b.rounds > 0 \/ b.nextBatchNo = 0)
      BY <3>1 DEF CoverageBlocked
    <3>3. b.nextBatchNo # 0
      BY <1>2, <3>2 DEF isReady, LastIsEmpty
    <3>4. CoverageSum(f) = base + 0 + amount
      BY <1>4, <3>1 DEF CoverageSum
    <3>. HIDE DEF base
    <3>. QED
      BY <1>2, <2>1, <3>1, <3>3, <3>4
  <2>. QED
    BY <2>2, <2>3
<1>11. CoverageBatch(f)
  <2>1. f.amount \in Nat /\ IsPart(f.part) /\ PartFits(f.part, f.b) /\ f.b.nextBatchNo # 0 /\ f.part.roundCoverage = 0
    BY <1>4, <1>10
  <2>2. f.done \in BOOLEAN /\ f.batchUpdated \in BOOLEAN
    BY <1>4
  <2>3. IsBatch(f.b) /\ ~isFull(f.b) /\ f.b = BatchAt(f.s, f.part.batchNo)
    BY <1>2, <1>4, <1>6, <1>7
  <2>4. SameButTotal(f.b, BatchAt(f.s, f.part.batchNo))
    BY <2>3 DEF SameButTotal
  <2>. QED
    BY <2>1, <2>2, <2>3, <2>4 DEF CoverageBatch
<1>. QED
  BY <1>4, <1>8, <1>10, <1>11 DEF CoverageGood, CoverageKept, f

\* What is stored after the loop.
LEMMA StoredKeeps ==
    ASSUME NEW s, NEW L, EngineStore(s, L), NEW f, IsCoverageFrame(f),
           NEW sum, CoverageKept(f, L, s, sum),
           NEW t, t = coverageStored(f)
    PROVE  EngineStore(t, L) /\ Frozen(s, t) /\ StoreSum(t) + f.amount = sum
<1>. DEFINE n == f.part.batchNo
            stored == IF f.batchUpdated THEN PutBatch(f.s, n, f.b) ELSE f.s
<1>1. CoverageStore(f, L, s) /\ CoverageBatch(f) /\ CoverageSum(f) = sum
  BY DEF CoverageKept
<1>2. /\ IsStore(f.s) /\ Linked(f.s, L) /\ Frozen(s, f.s) /\ n \in L
      /\ IsBatch(f.b) /\ ~isFull(f.b) /\ SameButTotal(f.b, BatchAt(f.s, n))
  BY <1>1 DEF CoverageStore, CoverageBatch
<1>3. n \in Nat /\ L \subseteq Nat
  BY <1>2, LinksAreNumbers
<1>4. f.b.nextBatchNo = NextOf(f.s, n) /\ ~FullAt(f.s, n) /\ LastIsEmpty(f.b)
  <2>1. LastIsEmpty(BatchAt(f.s, n))
    BY <1>2 DEF Linked
  <2>. QED
    BY <1>2, <2>1 DEF SameButTotal, NextOf, FullAt, isFull, LastIsEmpty
<1>5. /\ IsStore(stored) /\ SameHeads(f.s, stored) /\ stored.batchCount = f.s.batchCount
      /\ BatchAt(stored, n) = f.b /\ Elsewhere(f.s, stored, n)
  <2>1. CASE f.batchUpdated
    <3>1. stored = PutBatch(f.s, n, f.b)
      BY <2>1
    <3>. HIDE DEF stored
    <3>. QED
      BY <1>2, <1>3, <3>1, PutBatchStores
  <2>2. CASE ~f.batchUpdated
    <3>1. stored = f.s
      BY <2>2
    <3>2. BatchAt(f.s, n) = f.b
      BY <1>1, <2>2 DEF CoverageBatch
    <3>. QED
      BY <1>2, <3>1, <3>2 DEF SameHeads, Elsewhere
  <2>. QED
    BY <2>1, <2>2
<1>6. t = [stored EXCEPT !.partial = f.part, !.poolPremium = f.premium, !.firstOpenBatchNo = f.openBatchNo]
  BY DEF coverageStored
<1>. HIDE DEF stored
<1>7. /\ IsStore(t) /\ t.batches = stored.batches /\ t.batchCount = f.s.batchCount
      /\ t.partial = f.part /\ t.firstOpenBatchNo = f.openBatchNo /\ t.insureds = s.insureds
      /\ t.openRounds = f.s.openRounds /\ t.pendingCoverage = s.pendingCoverage
  <2>1. f.s.insureds = s.insureds /\ f.s.pendingCoverage = s.pendingCoverage
    BY <1>1 DEF CoverageStore
  <2>. QED
    BY <1>5, <1>6, <2>1 DEF IsStore, StoreFields, SameHeads
<1>8. BatchAt(t, n) = f.b /\ Elsewhere(f.s, t, n)
  BY <1>5, <1>7 DEF BatchAt, Elsewhere
<1>9. Linked(t, L)
  BY <1>2, <1>4, <1>7, <1>8, PutKeepsLinks
<1>10. Frozen(s, t)
  <2>1. Frozen(f.s, t)
    BY <1>3, <1>4, <1>8, FrozenPut
  <2>. QED
    BY <1>2, <2>1, FrozenSteps
<1>11. \A k \in L : NextOf(t, k) = NextOf(f.s, k) /\ (FullAt(t, k) <=> FullAt(f.s, k))
  <2> SUFFICES ASSUME NEW k \in L PROVE NextOf(t, k) = NextOf(f.s, k) /\ (FullAt(t, k) <=> FullAt(f.s, k))
    OBVIOUS
  <2>1. CASE k = n
    BY <1>2, <1>4, <1>8, <2>1 DEF NextOf, FullAt
  <2>2. CASE k # n
    <3>1. BatchAt(t, k) = BatchAt(f.s, k)
      BY <1>3, <1>8, <2>2 DEF Elsewhere
    <3>. QED
      BY <3>1 DEF NextOf, FullAt
  <2>. QED
    BY <2>1, <2>2
<1>12. PartialPlaced(t, L)
  <2>1. n # 0
    BY <1>2, LinksAreNumbers
  <2>2. IsPart(f.part) /\ PartFits(f.part, f.b)
    BY <1>1 DEF CoverageBatch
  <2>3. \A k \in L : NextOf(f.s, k) = n => FullAt(f.s, k)
    BY <1>1 DEF CoverageStore
  <2>. QED
    BY <1>2, <1>4, <1>7, <1>8, <1>11, <2>1, <2>2, <2>3 DEF PartialPlaced
<1>13. FirstOpenPlaced(t, L)
  <2>1. f.openBatchNo \in L /\ ~FullAt(f.s, f.openBatchNo)
    BY <1>1 DEF CoverageStore
  <2>2. f.openBatchNo # 0
    BY <1>2, <2>1, LinksAreNumbers
  <2>. QED
    BY <1>7, <1>11, <2>1, <2>2 DEF FirstOpenPlaced
<1>14. EngineStore(t, L)
  <2>1. f.s.openRounds \in Nat
    BY <1>1 DEF CoverageStore
  <2>. QED
    BY <1>7, <1>9, <1>12, <1>13, <2>1 DEF EngineStore
<1>15. StoreSum(t) + f.amount = sum
  BY <1>1, <1>7, <1>8 DEF StoreSum, SumIn, CoverageSum
<1>. QED
  BY <1>10, <1>14, <1>15

\* Adding coverage keeps the list and accounts for all of the coverage.
LEMMA AddCoverageKeeps ==
    ASSUME NEW s, NEW L, EngineStore(s, L), NEW amount \in Nat, NEW limit \in Nat,
           NEW r, r = internalAddCoverage(s, amount, limit), ~r.panic
    PROVE  /\ EngineStore(r.s, L) /\ Frozen(s, r.s)
           /\ r.remaining \in Nat /\ StoreSum(r.s) + r.remaining = StoreSum(s) + amount
<1>1. IsPart(s.partial) /\ s.partial.roundCoverage \in Nat
  BY DEF EngineStore, PartialPlaced, IsPart
<1>2. StoreSum(s) \in Nat
  <2>. DEFINE b == BatchAt(s, s.partial.batchNo)
  <2>1. UnitSize \in Nat /\ s.partial.roundNo \in Nat
    BY <1>1, RoundsAssumption DEF IsPart
  <2>2. b.totalUnitsBeforeBatch \in Nat /\ b.unitPerRound \in Nat
    <3>1. CASE s.partial.batchNo # 0
      <4>1. PartialFacts(s, L, b)
        BY <3>1, PartialBatch
      <4>. QED
        BY <4>1 DEF PartialFacts
    <3>2. CASE s.partial.batchNo = 0
      <4>1. 0 \in Nat /\ 0 \notin 1..s.batchCount
        BY DEF EngineStore, Linked
      <4>2. b = NoBatch
        BY <3>2, <4>1 DEF EngineStore, Linked, NoOthers
      <4>. QED
        BY <4>2 DEF NoBatch
    <3>. QED
      BY <3>1, <3>2
  <2>. HIDE DEF b
  <2>3. UnitSize * (b.totalUnitsBeforeBatch + s.partial.roundNo * b.unitPerRound) \in Nat
    BY <2>1, <2>2, RoundsAdd
  <2>. DEFINE base == UnitSize * (b.totalUnitsBeforeBatch + s.partial.roundNo * b.unitPerRound)
  <2>4. StoreSum(s) = base + s.partial.roundCoverage
    BY DEF StoreSum, SumIn, b
  <2>. HIDE DEF base
  <2>. QED
    BY <1>1, <2>3, <2>4 DEF base
<1>3. CASE CoverageBlocked(s, amount)
  <2>1. r.s = s /\ r.remaining = amount
    BY <1>1, <1>3, AddCoverageCases
  <2>2. Frozen(s, s)
    BY DEF Frozen
  <2>. QED
    BY <2>1, <2>2
<1>4. CASE ~CoverageBlocked(s, amount) /\ CoverageFits(s, amount)
  <2>1. r.s = roundFilled(s, amount) /\ r.remaining = 0
    BY <1>1, <1>4, AddCoverageCases
  <2>2. s.partial.batchNo # 0
    BY <1>4 DEF CoverageBlocked
  <2>3. EngineStore(r.s, L) /\ Frozen(s, r.s) /\ StoreSum(r.s) = StoreSum(s) + amount
    BY <1>4, <2>1, <2>2, FilledKeeps
  <2>. QED
    BY <1>2, <2>1, <2>3
<1>5. CASE ~CoverageBlocked(s, amount) /\ ~CoverageFits(s, amount)
  <2>1. PICK f : /\ f = coverageLoop(s, amount, limit)
                 /\ r.s = coverageStored(f) /\ r.remaining = f.amount
                 /\ f.panic => r.panic
    BY <1>1, <1>5, AddCoverageCases
  <2>2. CoverageGood(coverageFrame(s, amount, limit), L, s, StoreSum(s) + amount)
    BY <1>5, LoopEntered
  <2>3. CoverageGood(f, L, s, StoreSum(s) + amount)
    <3>. DEFINE frame == coverageFrame(s, amount, limit)
    <3>1. f = Iterate(addCoverageStep, frame, limit)
      BY <2>1 DEF coverageLoop
    <3>. HIDE DEF frame
    <3>2. CoverageGood(frame, L, s, StoreSum(s) + amount)
      BY <2>2 DEF frame
    <3>. QED
      BY <3>1, <3>2, CoverageLoopKeeps
  <2>4. IsCoverageFrame(f) /\ CoverageKept(f, L, s, StoreSum(s) + amount)
    BY <2>1, <2>3 DEF CoverageGood
  <2>5. f.amount \in Nat
    BY <2>4 DEF CoverageKept, CoverageBatch
  <2>. QED
    BY <2>1, <2>4, <2>5, StoredKeeps
<1>. QED
  BY <1>3, <1>4, <1>5

-----------------------------------------------------------------------------
(* The steps of internalAddCoverageDemand on the store.                    *)

(* No round of batch n has coverage. *)
Untouched(s, n) == s.partial.batchNo = n => s.partial.roundNo = 0 /\ s.partial.roundCoverage = 0

(* Demand can be added to batch n. *)
Appendable(s, L, n) == EngineStore(s, L) /\ n \in L /\ ~FullAt(s, n) /\ Untouched(s, n)

\* What appending to a list relies on, taken apart.
LEMMA AppendableFacts ==
    ASSUME NEW s, NEW L, NEW n, Appendable(s, L, n)
    PROVE  /\ n \in Nat /\ n # 0 /\ s.batchCount > 0 /\ L # {} /\ IsStore(s) /\ Linked(s, L)
           /\ s.partial.batchNo \in L /\ s.partial.batchNo \in Nat /\ s.firstOpenBatchNo \in L /\ s.firstOpenBatchNo \in Nat
           /\ NextOf(s, n) # s.partial.batchNo
           /\ IsBatch(BatchAt(s, n)) /\ LastIsEmpty(BatchAt(s, n))
<1>1. n \in L /\ Linked(s, L) /\ IsStore(s) /\ ~FullAt(s, n)
  BY DEF Appendable, EngineStore
<1>2. L \subseteq Nat /\ 0 \notin L
  BY <1>1, LinksAreNumbers
<1>3. s.batchCount > 0
  <2>1. L \subseteq 1..s.batchCount /\ s.batchCount \in Nat
    BY <1>1 DEF Linked
  <2>. QED
    BY <1>1, <2>1, NextNumber
<1>4. s.partial.batchNo \in L /\ s.firstOpenBatchNo \in L
  BY <1>3 DEF Appendable, EngineStore, PartialPlaced, FirstOpenPlaced
<1>5. NextOf(s, n) # s.partial.batchNo
  BY <1>1, <1>2, <1>4 DEF Appendable, EngineStore, PartialPlaced
<1>6. IsBatch(BatchAt(s, n)) /\ LastIsEmpty(BatchAt(s, n))
  BY <1>1 DEF Linked
<1>. QED
  BY <1>1, <1>2, <1>3, <1>4, <1>5, <1>6

\* The partial batch and the open batch keep their places when batch n changes.
LEMMA PlacesKept ==
    ASSUME NEW s, NEW L, NEW n, Appendable(s, L, n),
           NEW t, NEW M, IsStore(t), SameHeads(s, t), Linked(t, M), L \subseteq M, ~FullAt(t, n),
           \A k \in L : k # n => BatchAt(t, k) = BatchAt(s, k),
           \A k \in M : NextOf(t, k) = s.partial.batchNo => k \in L /\ NextOf(s, k) = s.partial.batchNo
    PROVE  Appendable(t, M, n)
<1>. DEFINE p == s.partial.batchNo
<1>1. /\ n \in L /\ n \in Nat /\ p \in L /\ p \in Nat /\ p # 0 /\ s.firstOpenBatchNo \in L /\ s.firstOpenBatchNo # 0 /\ s.batchCount > 0
      /\ ~FullAt(s, n)
  BY AppendableFacts, LinksAreNumbers DEF Appendable
<1>2. /\ t.partial = s.partial /\ t.firstOpenBatchNo = s.firstOpenBatchNo /\ t.openRounds = s.openRounds
      /\ t.insureds = s.insureds /\ t.pendingCoverage = s.pendingCoverage
  BY DEF SameHeads
<1>3. \A k \in L : FullAt(s, k) <=> FullAt(t, k)
  BY <1>1 DEF FullAt
<1>4. PartialPlaced(t, M)
  <2>1. IsPart(s.partial) /\ PartFits(s.partial, BatchAt(s, p)) /\ ~FullAt(s, p) /\ \A k \in L : NextOf(s, k) = p => FullAt(s, k)
    BY <1>1 DEF Appendable, EngineStore, PartialPlaced
  <2>2. PartFits(s.partial, BatchAt(t, p))
    <3>1. CASE p = n
      <4>1. IsBatch(BatchAt(t, n))
        BY <1>1 DEF Linked
      <4>2. s.partial.roundNo = 0 /\ s.partial.roundCoverage = 0
        BY <3>1 DEF Appendable, Untouched
      <4>. QED
        BY <3>1, <4>1, <4>2 DEF PartFits, IsBatch
    <3>2. CASE p # n
      BY <1>1, <2>1, <3>2
    <3>. QED
      BY <3>1, <3>2
  <2>3. \A k \in M : NextOf(t, k) = p => FullAt(t, k)
    BY <1>3, <2>1
  <2>4. ~FullAt(t, p)
    BY <1>1, <1>3, <2>1
  <2>. QED
    BY <1>1, <1>2, <2>1, <2>2, <2>3, <2>4 DEF PartialPlaced
<1>5. FirstOpenPlaced(t, M)
  <2>1. ~FullAt(s, s.firstOpenBatchNo)
    BY <1>1 DEF Appendable, EngineStore, FirstOpenPlaced
  <2>. QED
    BY <1>1, <1>2, <1>3, <2>1 DEF FirstOpenPlaced
<1>6. InsuredsIn(t.insureds, M)
  <2>1. InsuredsIn(s.insureds, L)
    BY DEF Appendable, EngineStore
  <2>2. L \cup {0} \subseteq M \cup {0}
    OBVIOUS
  <2>. QED
    BY <1>2, <2>1, <2>2 DEF InsuredsIn
<1>7. t.openRounds \in Nat /\ t.pendingCoverage = 0 /\ Untouched(t, n)
  BY <1>2 DEF Appendable, EngineStore, Untouched
<1>. QED
  BY <1>1, <1>4, <1>5, <1>6, <1>7 DEF Appendable, EngineStore

\* Batch n changes and keeps its link.
LEMMA PutKeepsStore ==
    ASSUME NEW s, NEW L, NEW n, Appendable(s, L, n),
           NEW t, IsStore(t), SameHeads(s, t), t.batchCount = s.batchCount,
           NEW b, BatchAt(t, n) = b, Elsewhere(s, t, n),
           IsBatch(b), LastIsEmpty(b), ~isFull(b), b.nextBatchNo = NextOf(s, n)
    PROVE  Appendable(t, L, n)
<1>1. Linked(s, L) /\ n \in L /\ ~FullAt(s, n) /\ L \subseteq Nat
  BY LinksAreNumbers DEF Appendable, EngineStore
<1>2. Linked(t, L)
  BY <1>1, PutKeepsLinks
<1>3. \A k \in L : (k # n => BatchAt(t, k) = BatchAt(s, k)) /\ NextOf(t, k) = NextOf(s, k)
  BY <1>1 DEF Elsewhere, NextOf
<1>4. ~FullAt(t, n)
  BY DEF FullAt
<1>. QED
  BY <1>2, <1>3, <1>4, PlacesKept

\* A new batch takes its place behind batch n.
LEMMA InsertKeepsStore ==
    ASSUME NEW s, NEW L, NEW n, Appendable(s, L, n),
           NEW t, IsStore(t), SameHeads(s, t),
           NEW m, m = s.batchCount + 1, t.batchCount = m,
           NEW b, NEW c, BatchAt(t, n) = b, BatchAt(t, m) = c,
           \A k \in Nat : k # n /\ k # m => BatchAt(t, k) = BatchAt(s, k),
           IsBatch(b), b.nextBatchNo = m, ~isFull(b),
           IsBatch(c), LastIsEmpty(c), c.nextBatchNo = NextOf(s, n), ~isFull(c)
    PROVE  Appendable(t, L \cup {m}, n)
<1>1. Linked(s, L) /\ n \in L /\ ~FullAt(s, n) /\ L \subseteq Nat
  BY LinksAreNumbers DEF Appendable, EngineStore
<1>2. Linked(t, L \cup {m})
  BY <1>1, InsertKeepsLinks
<1>3. m \notin L /\ m \in Nat
  <2>1. L \subseteq 1..s.batchCount /\ s.batchCount \in Nat
    BY <1>1 DEF Linked
  <2>. DEFINE count == s.batchCount
  <2>. HIDE DEF count
  <2>2. count \in Nat /\ L \subseteq 1..count => count + 1 \notin L /\ count + 1 \in Nat
    BY <1>1, NextNumber
  <2>. QED
    BY <2>1, <2>2 DEF count
<1>4. \A k \in L : k # n => BatchAt(t, k) = BatchAt(s, k) /\ NextOf(t, k) = NextOf(s, k)
  BY <1>1, <1>3 DEF NextOf
<1>5. ~FullAt(t, n)
  BY DEF FullAt
<1>6. NextOf(s, n) # s.partial.batchNo /\ s.partial.batchNo \in L
  BY AppendableFacts
<1>7. NextOf(t, n) = m /\ NextOf(t, m) = NextOf(s, n)
  BY DEF NextOf
<1>8. \A k \in L \cup {m} : NextOf(t, k) = s.partial.batchNo => k \in L /\ NextOf(s, k) = s.partial.batchNo
  BY <1>3, <1>4, <1>6, <1>7
<1>9. L \subseteq L \cup {m}
  OBVIOUS
<1>. QED
  BY <1>2, <1>4, <1>5, <1>8, <1>9, PlacesKept

\* Batches were created that no link reaches.
LEMMA DroppedKeepsStore ==
    ASSUME NEW s, NEW L, NEW n, Appendable(s, L, n),
           NEW t, IsStore(t), SameHeads(s, t), t.batchCount \in Nat, s.batchCount <= t.batchCount,
           NoOthers(t), \A k \in L : BatchAt(t, k) = BatchAt(s, k)
    PROVE  Appendable(t, L, n)
<1>1. Linked(s, L) /\ L # {} /\ n \in L /\ ~FullAt(s, n)
  BY AppendableFacts DEF Appendable
<1>2. Linked(t, L)
  BY <1>1, DroppedKeepsLinks
<1>3. \A k \in L : NextOf(t, k) = NextOf(s, k)
  BY DEF NextOf
<1>4. ~FullAt(t, n)
  BY <1>1 DEF FullAt
<1>. QED
  BY <1>2, <1>3, <1>4, PlacesKept

-----------------------------------------------------------------------------
(* Splits, and where demand starts.                                        *)

(* A new batch k with the moved rounds, which no batch links to yet. *)
SplitOff(s, t, k, moved) ==
    /\ IsStore(t) /\ SameHeads(s, t) /\ t.batchCount = k
    /\ BatchAt(t, k) = moved /\ Elsewhere(s, t, k)

(* The rounds that stay. *)
KeptRounds(b, remaining, k) == [b EXCEPT !.rounds = remaining, !.nextBatchNo = k]

\* splitBatch divides a batch of more than the remaining rounds, and fails on fewer.
LEMMA SplitEffects ==
    ASSUME NEW s, IsStore(s), s.batchCount \in Nat, NEW remaining, NEW b, b.rounds # remaining,
           NEW k, k = s.batchCount + 1,
           NEW split, split = splitBatch(s, remaining, b)
    PROVE  /\ SplitOff(s, split.s, k, MovedRounds(b, remaining, k))
           /\ split.b = KeptRounds(b, remaining, k)
           /\ split.panic = (b.rounds < remaining)
<1>. DEFINE moved == MovedRounds(b, remaining, k)
            put == PutBatch(s, k, moved)
            marked == initTimeMark(put, k)
            t == [marked EXCEPT !.batchCount = k, !.latestBatchNo = IF b.nextBatchNo = 0 THEN k ELSE @]
<1>1. k \in Nat
  OBVIOUS
<1>2. split = [s |-> t, b |-> [b EXCEPT !.rounds = remaining, !.nextBatchNo = k], panic |-> b.rounds < remaining]
  <2>. HIDE DEF moved
  <2>1. moved = MovedRounds(b, remaining, s.batchCount + 1)
    BY DEF moved
  <2>. QED
    BY <2>1 DEF splitBatch
<1>. HIDE DEF moved
<1>3. IsStore(put) /\ SameHeads(s, put) /\ BatchAt(put, k) = moved /\ Elsewhere(s, put, k)
  BY <1>1, PutBatchStores
<1>. HIDE DEF put
<1>4. OnlyMarked(put, marked)
  BY <1>3, InitMarked
<1>. HIDE DEF marked
<1>5. IsStore(t) /\ SameHeads(s, t) /\ t.batchCount = k /\ t.batches = put.batches
  BY <1>3, <1>4 DEF OnlyMarked, IsStore, StoreFields, SameHeads
<1>. HIDE DEF t
<1>6. BatchAt(t, k) = moved /\ Elsewhere(s, t, k)
  BY <1>3, <1>5 DEF BatchAt, Elsewhere
<1>. QED
  BY <1>2, <1>5, <1>6 DEF SplitOff, moved, KeptRounds

\* Both parts of a split batch are batches.
LEMMA SplitBatches ==
    ASSUME NEW b, IsBatch(b), ~isFull(b), b.nextBatchNo # 0, NEW remaining \in Nat, remaining <= b.rounds, NEW k \in Nat, k # 0
    PROVE  /\ LET c == MovedRounds(b, remaining, k)
              IN  IsBatch(c) /\ LastIsEmpty(c) /\ ~isFull(c) /\ c.nextBatchNo = b.nextBatchNo
           /\ LET c == KeptRounds(b, remaining, k)
              IN  IsBatch(c) /\ LastIsEmpty(c) /\ ~isFull(c) /\ c.nextBatchNo = k /\ c.rounds = remaining /\ c.state = b.state
                  /\ c.unitPerRound = b.unitPerRound /\ c.totalUnitsBeforeBatch = b.totalUnitsBeforeBatch
<1>1. b.rounds \in Nat /\ b.unitPerRound \in Nat /\ b.totalUnitsBeforeBatch \in Nat
  BY DEF IsBatch
<1>. DEFINE before == b.totalUnitsBeforeBatch + remaining * b.unitPerRound
            rest == b.rounds - remaining
<1>2. before \in Nat /\ rest \in Nat
  <2>1. remaining * b.unitPerRound \in Nat
    BY <1>1
  <2>. QED
    BY <1>1, <2>1
<1>3. MovedRounds(b, remaining, k) = [b EXCEPT !.totalUnitsBeforeBatch = before, !.rounds = rest]
  BY DEF MovedRounds, IsBatch, BatchFields
<1>. HIDE DEF before, rest
<1>. QED
  BY <1>2, <1>3 DEF IsBatch, BatchFields, LastIsEmpty, isFull, KeptRounds

\* The partial batch in the store, without the rounds that have no coverage.
PartialRest(s) == splitBatch(s, PartialRounds(s.partial), BatchAt(s, s.partial.batchNo))
RestStored(s)  == PutBatch(PartialRest(s).s, s.partial.batchNo, PartialRest(s).b)

(* The rounds with coverage stay in batch p = s.partial.batchNo, and q is behind it. *)
Divided(s, t, L, M, b, q) ==
    LET p == s.partial.batchNo
    IN  /\ IsStore(t) /\ SameHeads(s, t) /\ Linked(t, M) /\ L \subseteq M /\ Frozen(s, t)
        /\ p \in L /\ q \in M /\ q # p /\ q # 0 /\ BatchAt(t, p) = b
        /\ IsBatch(b) /\ ~isFull(b) /\ b.nextBatchNo = q /\ b.rounds = PartialRounds(s.partial)
        /\ b.unitPerRound = BatchAt(s, p).unitPerRound
        /\ ~FullAt(t, q)
        /\ \A k \in L : k # p => BatchAt(t, k) = BatchAt(s, k)
        /\ \A k \in M : NextOf(t, k) = p => k \in L /\ NextOf(s, k) = p

\* Splitting the partial batch off its filled rounds leaves a list of one batch more.
LEMMA PartialDivided ==
    ASSUME NEW s, NEW L, EngineStore(s, L), s.partial.batchNo # 0,
           BatchAt(s, s.partial.batchNo).nextBatchNo # 0
    PROVE  /\ IsStore(PartialRest(s).s)
           /\ \E M : Divided(s, RestStored(s), L, M, PartialRest(s).b, PartialRest(s).b.nextBatchNo)
<1>. DEFINE p == s.partial.batchNo
            b == BatchAt(s, p)
            R == PartialRounds(s.partial)
            split == PartialRest(s)
            S == split.s
            B == split.b
            q == B.nextBatchNo
            t == RestStored(s)
<1>1. PartialFacts(s, L, b)
  BY PartialBatch
<1>2. /\ p \in L /\ p \in Nat /\ IsStore(s) /\ Linked(s, L) /\ IsBatch(b) /\ ~isFull(b) /\ ~FullAt(s, p) /\ p # 0
      /\ b.nextBatchNo # 0 /\ b.nextBatchNo = NextOf(s, p) /\ L \subseteq Nat /\ 0 \notin L /\ b.rounds \in Nat
  BY <1>1, LinksAreNumbers DEF PartialFacts, EngineStore, FullAt, NextOf
<1>3. R \in Nat /\ R <= b.rounds
  <2>1. IsPart(s.partial) /\ PartFits(s.partial, b)
    BY <1>1 DEF PartialFacts
  <2>2. s.partial.roundNo \in Nat /\ s.partial.roundCoverage \in Nat
    BY <2>1 DEF IsPart
  <2>3. CASE s.partial.roundCoverage > 0
    <3>1. R = s.partial.roundNo + 1 /\ s.partial.roundNo < b.rounds
      BY <2>1, <2>3 DEF PartialRounds, PartFits
    <3>. QED
      BY <1>2, <2>2, <3>1
  <2>4. CASE ~(s.partial.roundCoverage > 0)
    <3>1. R = s.partial.roundNo /\ s.partial.roundNo <= b.rounds
      BY <2>1, <2>2, <2>4 DEF PartialRounds, PartFits
    <3>. QED
      BY <1>2, <2>2, <3>1
  <2>. QED
    BY <2>3, <2>4
<1>4. NextOf(s, p) \in L /\ NextOf(s, p) # p /\ ~FullAt(s, NextOf(s, p))
  <2>1. NextOf(s, p) \in L \cup {0}
    BY <1>2 DEF Linked
  <2>2. NextOf(s, p) # p
    BY <1>2 DEF EngineStore, PartialPlaced
  <2>3. ~FullAt(s, NextOf(s, p))
    BY <1>2 DEF Linked
  <2>. QED
    BY <1>2, <2>1, <2>2, <2>3
<1>5. s.batchCount \in Nat /\ L \subseteq 1..s.batchCount
  BY <1>2 DEF Linked
<1>. HIDE DEF b, R
<1>6. split = splitBatch(s, R, b)
  BY DEF PartialRest, R, b
<1>7. t = PutBatch(S, p, B)
  BY DEF RestStored
<1>. HIDE DEF split, t
<1>8. CASE b.rounds = R
  <2>1. S = s /\ B = b
    BY <1>6, <1>8 DEF splitBatch
  <2>2. IsStore(t) /\ SameHeads(s, t) /\ t.batchCount = s.batchCount /\ BatchAt(t, p) = b /\ Elsewhere(s, t, p)
    BY <1>2, <1>7, <2>1, PutBatchStores
  <2>3. \A k \in L : BatchAt(t, k) = BatchAt(s, k) /\ NextOf(t, k) = NextOf(s, k) /\ (FullAt(t, k) <=> FullAt(s, k))
    BY <1>2, <2>2 DEF Elsewhere, b, NextOf, FullAt
  <2>4. LastIsEmpty(b) /\ ~isFull(b)
    BY <1>2 DEF LastIsEmpty
  <2>5. Linked(t, L)
    BY <1>2, <2>2, <2>4, PutKeepsLinks
  <2>6. Frozen(s, t)
    BY <1>2, <2>2, FrozenPut
  <2>7. ~FullAt(t, NextOf(s, p))
    BY <1>4, <2>3
  <2>8. Divided(s, t, L, L, b, NextOf(s, p))
    BY <1>2, <1>4, <1>8, <2>2, <2>3, <2>5, <2>6, <2>7 DEF Divided, b, R
  <2>. QED
    BY <1>2, <2>1, <2>8 DEF split, t
<1>9. CASE b.rounds # R
  <2>. DEFINE k == s.batchCount + 1
              moved == MovedRounds(b, R, k)
  <2>1. SplitOff(s, S, k, moved) /\ B = KeptRounds(b, R, k)
    BY <1>2, <1>5, <1>6, <1>9, SplitEffects
  <2>2. k \in Nat /\ k # 0 /\ k \notin L /\ p # k
    <3>. DEFINE count == s.batchCount
    <3>. HIDE DEF count
    <3>1. count \in Nat /\ L \subseteq 1..count
      BY <1>5 DEF count
    <3>2. count + 1 \in Nat /\ count + 1 # 0 /\ count + 1 \notin L
      BY <1>2, <3>1, NextNumber
    <3>. QED
      BY <1>2, <3>2 DEF count
  <2>3. /\ IsBatch(moved) /\ LastIsEmpty(moved) /\ ~isFull(moved) /\ moved.nextBatchNo = b.nextBatchNo
        /\ IsBatch(B) /\ ~isFull(B) /\ B.nextBatchNo = k /\ B.rounds = R /\ B.unitPerRound = b.unitPerRound
    BY <1>2, <1>3, <2>1, <2>2, SplitBatches
  <2>. HIDE DEF k, moved
  <2>4. IsStore(S) /\ SameHeads(s, S) /\ S.batchCount = k /\ BatchAt(S, k) = moved /\ Elsewhere(s, S, k)
    BY <2>1 DEF SplitOff
  <2>5. IsStore(t) /\ SameHeads(S, t) /\ t.batchCount = k /\ BatchAt(t, p) = B /\ Elsewhere(S, t, p)
    BY <1>2, <1>7, <2>4, PutBatchStores
  <2>6. SameHeads(s, t) /\ BatchAt(t, k) = moved /\ \A j \in Nat : j # p /\ j # k => BatchAt(t, j) = BatchAt(s, j)
    BY <2>2, <2>4, <2>5 DEF SameHeads, Elsewhere
  <2>7. Linked(t, L \cup {k})
    BY <1>2, <2>2, <2>3, <2>5, <2>6, InsertKeepsLinks DEF k
  <2>8. Frozen(s, t)
    <3>1. ~FullAt(s, k)
      <4>1. k \notin 1..s.batchCount
        BY <1>5 DEF k
      <4>2. BatchAt(s, k) = NoBatch
        BY <1>2, <2>2, <4>1 DEF Linked, NoOthers
      <4>. QED
        BY <4>2, NoBatchIsBatch DEF FullAt
    <3>. QED
      BY <1>2, <2>6, <3>1 DEF Frozen
  <2>9. /\ k \in L \cup {k} /\ L \subseteq L \cup {k} /\ ~FullAt(t, k)
        /\ \A j \in L : j # p => BatchAt(t, j) = BatchAt(s, j)
    BY <1>2, <2>2, <2>3, <2>6 DEF FullAt
  <2>10. ASSUME NEW j \in L \cup {k}, NextOf(t, j) = p PROVE j \in L /\ NextOf(s, j) = p
    <3>1. NextOf(t, k) = NextOf(s, p) /\ NextOf(t, p) = k
      BY <1>2, <2>3, <2>5, <2>6 DEF NextOf
    <3>2. j # k /\ j # p
      BY <1>4, <2>2, <2>10, <3>1
    <3>. QED
      BY <2>9, <2>10, <3>2 DEF NextOf
  <2>11. Divided(s, t, L, L \cup {k}, B, k)
    BY <1>2, <2>2, <2>3, <2>5, <2>6, <2>7, <2>8, <2>9, <2>10 DEF Divided, b, R
  <2>. QED
    BY <2>3, <2>4, <2>11 DEF split, t
<1>. QED
  BY <1>8, <1>9

(* A partial batch of which some rounds have coverage, as findBatchToAppend leaves it. *)
PartialClosed(s) ==
    LET split == PartialRest(s)
        this  == s.partial.batchNo
    IN  IF s.partial.roundCoverage # 0 THEN RestStored(s)
        ELSE [PutBatch(split.s, this, [split.b EXCEPT !.state = "Full"]) EXCEPT
                 !.poolPremium = addPartialToTotalPremium(split.s, this, @, split.b),
                 !.partial = [roundCoverage |-> 0, batchNo |-> split.b.nextBatchNo, roundNo |-> 0]]
PartialLeft(s) ==
    [PartialClosed(s) EXCEPT
        !.firstOpenBatchNo = IF @ = s.partial.batchNo THEN PartialRest(s).b.nextBatchNo ELSE @]

\* Storing a batch twice.
LEMMA PutTwice ==
    ASSUME NEW s, IsStore(s), NEW n, NEW b, NEW c
    PROVE  PutBatch(PutBatch(s, n, b), n, c) = PutBatch(s, n, c)
<1>. DEFINE q == Put(s.batches, n, b)
            r == Put(s.batches, n, c)
<1>1. Put(q, n, c) = r
  <2>1. DOMAIN q = DOMAIN s.batches \cup {n} /\ \A k \in DOMAIN s.batches \cup {n} : k # n => q[k] = s.batches[k]
    BY DEF Put
  <2>. HIDE DEF q
  <2>2. Put(q, n, c) = [k \in DOMAIN s.batches \cup {n} |-> IF k = n THEN c ELSE s.batches[k]]
    BY <2>1 DEF Put
  <2>. QED
    BY <2>2 DEF Put
<1>2. PutBatch(s, n, b) = [s EXCEPT !.batches = q] /\ PutBatch(s, n, c) = [s EXCEPT !.batches = r]
  BY DEF PutBatch
<1>. HIDE DEF q, r
<1>3. PutBatch([s EXCEPT !.batches = q], n, c) = [s EXCEPT !.batches = Put(q, n, c)]
  <2>. DEFINE t == [s EXCEPT !.batches = q]
              p == Put(q, n, c)
  <2>1. t.batches = q
    BY DEF IsStore, StoreFields
  <2>2. PutBatch(t, n, c) = [t EXCEPT !.batches = p]
    BY <2>1 DEF PutBatch
  <2>. HIDE DEF p
  <2>3. [t EXCEPT !.batches = p] = [s EXCEPT !.batches = p]
    BY DEF IsStore, StoreFields
  <2>. QED
    BY <2>2, <2>3 DEF p
<1>. QED
  BY <1>1, <1>2, <1>3

\* The full batches in front of the partial one stay in front of it.
LEMMA DividedPredecessors ==
    ASSUME NEW s, NEW L, EngineStore(s, L), s.partial.batchNo # 0,
           NEW t, NEW M, NEW b, NEW q, Divided(s, t, L, M, b, q)
    PROVE  \A k \in M : NextOf(t, k) = s.partial.batchNo => FullAt(t, k)
<1> SUFFICES ASSUME NEW k \in M, NextOf(t, k) = s.partial.batchNo PROVE FullAt(t, k)
  OBVIOUS
<1>1. k \in L /\ NextOf(s, k) = s.partial.batchNo
  BY DEF Divided
<1>2. FullAt(s, k) /\ ~FullAt(s, s.partial.batchNo)
  BY <1>1 DEF EngineStore, PartialPlaced
<1>3. BatchAt(t, k) = BatchAt(s, k)
  BY <1>1, <1>2 DEF Divided
<1>. QED
  BY <1>2, <1>3 DEF FullAt

(* A store with the same batches, other places of the partial and the open batch. *)
Moved(t, u, part, open) ==
    /\ IsStore(u) /\ u.batches = t.batches /\ u.batchCount = t.batchCount
    /\ u.partial = part /\ u.firstOpenBatchNo = open
    /\ u.openRounds = t.openRounds /\ u.insureds = t.insureds /\ u.pendingCoverage = t.pendingCoverage

\* Moving the partial round to the first batch that is not full keeps the list.
LEMMA MovedKeeps ==
    ASSUME NEW t, NEW M, Linked(t, M), NEW u, NEW part, NEW open, Moved(t, u, part, open),
           t.openRounds \in Nat, t.pendingCoverage = 0, InsuredsIn(t.insureds, M),
           IsPart(part), part.batchNo \in M, PartFits(part, BatchAt(t, part.batchNo)),
           ~FullAt(t, part.batchNo), \A k \in M : NextOf(t, k) = part.batchNo => FullAt(t, k),
           open \in M, ~FullAt(t, open)
    PROVE  EngineStore(u, M) /\ Frozen(t, u) /\ \A k : FullAt(u, k) <=> FullAt(t, k)
<1>. USE DEF Moved
<1>1. \A k : BatchAt(u, k) = BatchAt(t, k) /\ NextOf(u, k) = NextOf(t, k) /\ (FullAt(u, k) <=> FullAt(t, k))
  BY DEF BatchAt, NextOf, FullAt
<1>2. Linked(u, M) /\ Frozen(t, u)
  BY <1>1 DEF Linked, NoOthers, Reached, Frozen
<1>3. part.batchNo # 0 /\ open # 0
  BY LinksAreNumbers
<1>4. PartialPlaced(u, M) /\ FirstOpenPlaced(u, M)
  BY <1>1, <1>3 DEF PartialPlaced, FirstOpenPlaced
<1>. QED
  BY <1>1, <1>2, <1>4 DEF EngineStore

\* The partial batch is divided, and closed when its last round is complete.
LEMMA PartialLeftKeeps ==
    ASSUME NEW s, NEW L, EngineStore(s, L), s.partial.batchNo # 0, PartialRounds(s.partial) > 0,
           BatchAt(s, s.partial.batchNo).nextBatchNo # 0
    PROVE  \E M : /\ Appendable(PartialLeft(s), M, PartialRest(s).b.nextBatchNo)
                  /\ L \subseteq M /\ Frozen(s, PartialLeft(s))
<1>. DEFINE p == s.partial.batchNo
            S == PartialRest(s).s
            B == PartialRest(s).b
            q == B.nextBatchNo
            t == RestStored(s)
            c == PartialClosed(s)
            u == PartialLeft(s)
            open == IF s.firstOpenBatchNo = p THEN q ELSE s.firstOpenBatchNo
<1>1. IsStore(S) /\ \E M : Divided(s, t, L, M, B, q)
  BY PartialDivided
<1>2. PICK M : Divided(s, t, L, M, B, q)
  BY <1>1
<1>3. \A k \in M : NextOf(t, k) = p => FullAt(t, k)
  BY <1>2, DividedPredecessors
<1>4. t = PutBatch(S, p, B)
  BY DEF RestStored
<1>5. u = [c EXCEPT !.firstOpenBatchNo = IF c.firstOpenBatchNo = p THEN q ELSE c.firstOpenBatchNo]
  BY DEF PartialLeft
<1>6. PartialFacts(s, L, BatchAt(s, p))
  BY PartialBatch
<1>7. c = IF s.partial.roundCoverage # 0 THEN t
          ELSE [PutBatch(S, p, [B EXCEPT !.state = "Full"]) EXCEPT
                 !.poolPremium = addPartialToTotalPremium(S, p, @, B),
                 !.partial = [roundCoverage |-> 0, batchNo |-> q, roundNo |-> 0]]
  BY DEF PartialClosed
<1>8. /\ IsStore(t) /\ SameHeads(s, t) /\ Linked(t, M) /\ L \subseteq M /\ Frozen(s, t)
      /\ p \in L /\ p \in Nat /\ q \in M /\ q \in Nat /\ q # p /\ q # 0 /\ BatchAt(t, p) = B
      /\ IsBatch(B) /\ ~isFull(B) /\ B.rounds = PartialRounds(s.partial)
      /\ B.unitPerRound = BatchAt(s, p).unitPerRound /\ ~FullAt(t, q)
      /\ \A k \in L : k # p => BatchAt(t, k) = BatchAt(s, k)
  <2>1. q \in M /\ Linked(t, M) /\ p \in L /\ Linked(s, L)
    BY <1>2 DEF Divided, EngineStore
  <2>2. q \in Nat /\ p \in Nat
    BY <2>1, LinksAreNumbers
  <2>. QED
    BY <1>2, <2>2 DEF Divided
<1>9. /\ t.partial = s.partial /\ t.firstOpenBatchNo = s.firstOpenBatchNo
      /\ t.openRounds \in Nat /\ t.pendingCoverage = 0 /\ InsuredsIn(t.insureds, M)
  <2>1. InsuredsIn(s.insureds, L) /\ s.openRounds \in Nat /\ s.pendingCoverage = 0
    BY DEF EngineStore
  <2>2. L \cup {0} \subseteq M \cup {0}
    BY <1>8
  <2>. QED
    BY <1>8, <2>1, <2>2 DEF InsuredsIn, SameHeads
<1>10. open \in M /\ ~FullAt(t, open) /\ (open = s.firstOpenBatchNo => open # p)
  <2>1. s.firstOpenBatchNo \in L /\ ~FullAt(s, s.firstOpenBatchNo)
    <3>1. s.batchCount > 0
      <4>1. L \subseteq 1..s.batchCount /\ s.batchCount \in Nat
        BY DEF EngineStore, Linked
      <4>. QED
        BY <1>8, <4>1, NextNumber
    <3>. QED
      BY <3>1 DEF EngineStore, FirstOpenPlaced
  <2>2. s.firstOpenBatchNo # p => ~FullAt(t, s.firstOpenBatchNo)
    BY <1>8, <2>1 DEF FullAt
  <2>. QED
    BY <1>8, <2>1, <2>2
<1>11. IsPart(s.partial) /\ PartFits(s.partial, BatchAt(s, p))
  BY <1>6 DEF PartialFacts
<1>. HIDE DEF S, B, q, t, c, u
<1>12. CASE s.partial.roundCoverage # 0
  <2>1. u = [t EXCEPT !.firstOpenBatchNo = open]
    BY <1>5, <1>7, <1>9, <1>12
  <2>. HIDE DEF open
  <2>2. Moved(t, u, s.partial, open)
    BY <1>8, <1>9, <2>1 DEF Moved, IsStore, StoreFields
  <2>3. PartFits(s.partial, B)
    <3>1. s.partial.roundNo \in Nat /\ s.partial.roundCoverage \in Nat
      BY <1>11 DEF IsPart
    <3>2. B.rounds = s.partial.roundNo + 1
      BY <1>8, <1>12, <3>1 DEF PartialRounds
    <3>3. s.partial.roundCoverage <= UnitSize * B.unitPerRound
      BY <1>8, <1>11, <1>12, <3>1 DEF PartFits
    <3>. QED
      BY <3>1, <3>2, <3>3 DEF PartFits
  <2>4. ~FullAt(t, p) /\ p \in M
    BY <1>8 DEF FullAt
  <2>5. EngineStore(u, M) /\ Frozen(t, u) /\ ~FullAt(u, q)
    BY <1>3, <1>8, <1>9, <1>10, <1>11, <2>2, <2>3, <2>4, MovedKeeps
  <2>6. Untouched(u, q)
    BY <1>8, <2>2 DEF Untouched, Moved
  <2>7. Appendable(u, M, q) /\ Frozen(s, u)
    <3>1. Frozen(s, u)
      BY <1>8, <2>5, FrozenSteps
    <3>. QED
      BY <1>8, <2>5, <2>6, <3>1 DEF Appendable
  <2>. QED
    BY <1>8, <2>7 DEF q, B, u
<1>13. CASE s.partial.roundCoverage = 0
  <2>. DEFINE full == [B EXCEPT !.state = "Full"]
              v == PutBatch(S, p, full)
              part == [roundCoverage |-> 0, batchNo |-> q, roundNo |-> 0]
              premium == addPartialToTotalPremium(S, p, v.poolPremium, B)
  <2>1. c = [v EXCEPT !.poolPremium = premium, !.partial = part]
    BY <1>7, <1>13
  <2>2. v = PutBatch(t, p, full)
    <3>. HIDE DEF full
    <3>1. PutBatch(PutBatch(S, p, B), p, full) = PutBatch(S, p, full)
      BY <1>1, PutTwice DEF S
    <3>. QED
      BY <1>4, <3>1
  <2>3. IsBatch(full) /\ LastIsEmpty(full) /\ isFull(full) /\ full.nextBatchNo = q
    BY <1>8 DEF IsBatch, BatchFields, LastIsEmpty, isFull, q
  <2>. HIDE DEF full, v, premium, open
  <2>4. IsStore(v) /\ SameHeads(t, v) /\ v.batchCount = t.batchCount /\ BatchAt(v, p) = full /\ Elsewhere(t, v, p)
    BY <1>8, <2>2, PutBatchStores
  <2>5. Linked(v, M)
    <3>1. q = NextOf(t, p) /\ p \in M
      BY <1>8 DEF NextOf, q
    <3>. QED
      BY <1>3, <1>8, <2>3, <2>4, <3>1, PutKeepsLinks
  <2>6. /\ IsStore(c) /\ c.batches = v.batches /\ c.batchCount = v.batchCount /\ c.partial = part
        /\ c.firstOpenBatchNo = s.firstOpenBatchNo /\ c.openRounds = v.openRounds
        /\ c.insureds = v.insureds /\ c.pendingCoverage = v.pendingCoverage
    <3>. HIDE DEF part
    <3>. QED
      BY <1>9, <2>1, <2>4 DEF IsStore, StoreFields, SameHeads
  <2>7. u = [c EXCEPT !.firstOpenBatchNo = open]
    BY <1>5, <2>6 DEF open
  <2>8. Moved(v, u, part, open)
    <3>. HIDE DEF part
    <3>. QED
      BY <2>6, <2>7 DEF Moved, IsStore, StoreFields
  <2>9. v.openRounds \in Nat /\ v.pendingCoverage = 0 /\ InsuredsIn(v.insureds, M)
    BY <1>9, <2>4 DEF SameHeads
  <2>10. BatchAt(v, q) = BatchAt(t, q) /\ ~FullAt(v, q)
    BY <1>8, <2>4 DEF Elsewhere, FullAt
  <2>11. IsPart(part) /\ part.batchNo = q /\ PartFits(part, BatchAt(v, q)) /\ part.roundNo = 0 /\ part.roundCoverage = 0
    <3>1. IsBatch(BatchAt(v, q))
      BY <1>8, <2>5 DEF Linked
    <3>. QED
      BY <3>1 DEF IsPart, PartFields, PartFits, IsBatch
  <2>12. \A k \in M : NextOf(v, k) = q => FullAt(v, k)
    <3> SUFFICES ASSUME NEW k \in M, NextOf(v, k) = q PROVE FullAt(v, k)
      OBVIOUS
    <3>1. NextOf(v, p) = q /\ p \in M
      BY <1>8, <2>3, <2>4 DEF NextOf
    <3>2. k = p
      BY <1>8, <2>5, <3>1 DEF Linked
    <3>. QED
      BY <2>3, <2>4, <3>2 DEF FullAt
  <2>13. open \in M /\ ~FullAt(v, open)
    <3>1. CASE open = q
      BY <1>8, <2>10, <3>1
    <3>2. CASE open # q
      <4>1. open # p /\ open \in M
        BY <1>10, <3>2 DEF open
      <4>2. open \in Nat
        BY <1>8, <4>1, LinksAreNumbers
      <4>3. BatchAt(v, open) = BatchAt(t, open)
        BY <2>4, <4>1, <4>2 DEF Elsewhere
      <4>. QED
        BY <1>10, <4>1, <4>3 DEF FullAt
    <3>. QED
      BY <3>1, <3>2
  <2>14. EngineStore(u, M) /\ Frozen(v, u) /\ ~FullAt(u, q)
    <3>. HIDE DEF part
    <3>. QED
      BY <1>8, <2>5, <2>8, <2>9, <2>10, <2>11, <2>12, <2>13, MovedKeeps
  <2>15. Frozen(s, u)
    <3>1. Frozen(t, v)
      BY <1>8, <2>4, FrozenPut DEF FullAt
    <3>2. Frozen(t, u)
      BY <2>14, <3>1, FrozenSteps
    <3>. QED
      BY <1>8, <3>2, FrozenSteps
  <2>16. Untouched(u, q)
    BY <2>8, <2>11 DEF Untouched, Moved
  <2>17. Appendable(u, M, q)
    BY <1>8, <2>14, <2>16 DEF Appendable
  <2>. QED
    BY <1>8, <2>15, <2>17 DEF q, B, u
<1>. QED
  BY <1>12, <1>13

(* Where findBatchToAppend looks first. *)
AppendAt(s, nextBatchNo) ==
    IF nextBatchNo # 0 /\ isOpen(BatchAt(s, nextBatchNo)) THEN nextBatchNo ELSE s.firstOpenBatchNo

FirstBatch(s) ==
    [initTimeMark(s, 1) EXCEPT !.latestBatchNo = 1, !.batchCount = 1, !.partial.batchNo = 1, !.firstOpenBatchNo = 1]

(* Rounds of the batch n with coverage have to be set apart. *)
SplitsPartial(s, n) ==
    BatchAt(s, n).nextBatchNo # 0 /\ s.partial.batchNo = n /\ PartialRounds(s.partial) > 0

(* What findBatchToAppend returns for the store t and the batch n. *)
FoundAt(r, t, n) ==
    /\ DOMAIN r = {"s", "b", "batchNo", "isFirstOfOpen", "panic"}
    /\ r.s = t /\ r.batchNo = n /\ r.b = BatchAt(t, n) /\ r.isFirstOfOpen = (n = t.firstOpenBatchNo)

(* What findBatchToAppend requires, the other way round. *)
FindFails(s, nextBatchNo, n) ==
    IF s.firstOpenBatchNo = 0 THEN s.batchCount # 0 \/ nextBatchNo # 0
    ELSE IF SplitsPartial(s, n) THEN PartialRest(s).panic
    ELSE BatchAt(s, n).nextBatchNo = 0 /\ BatchAt(s, n).rounds # 0

\* The ways through findBatchToAppend.
LEMMA FindCases ==
    ASSUME NEW s, NEW nextBatchNo, NEW r, r = findBatchToAppend(s, nextBatchNo),
           NEW this, this = AppendAt(s, nextBatchNo)
    PROVE  /\ s.firstOpenBatchNo = 0 => FoundAt(r, FirstBatch(s), 1)
           /\ s.firstOpenBatchNo # 0 /\ ~SplitsPartial(s, this) => FoundAt(r, s, this)
           /\ s.firstOpenBatchNo # 0 /\ SplitsPartial(s, this) =>
                 FoundAt(r, PartialLeft(s), PartialRest(s).b.nextBatchNo)
           /\ r.panic => FindFails(s, nextBatchNo, this)
<1>. DEFINE here == IF nextBatchNo # 0 /\ isOpen(BatchAt(s, nextBatchNo)) THEN nextBatchNo ELSE s.firstOpenBatchNo
            b == BatchAt(s, here)
            split == splitBatch(s, PartialRounds(s.partial), b)
            closed == IF s.partial.roundCoverage # 0 THEN PutBatch(split.s, here, split.b)
                      ELSE [PutBatch(split.s, here, [split.b EXCEPT !.state = "Full"]) EXCEPT
                               !.poolPremium = addPartialToTotalPremium(split.s, here, @, split.b),
                               !.partial = [roundCoverage |-> 0, batchNo |-> split.b.nextBatchNo, roundNo |-> 0]]
            after == [closed EXCEPT !.firstOpenBatchNo = IF @ = here THEN split.b.nextBatchNo ELSE @]
            found(t, n, panic) == [s |-> t, b |-> BatchAt(t, n), batchNo |-> n,
                                   isFirstOfOpen |-> n = t.firstOpenBatchNo, panic |-> panic]
            armA == s.firstOpenBatchNo = 0
            armB == s.firstOpenBatchNo # 0 /\ b.nextBatchNo = 0
            armC == s.firstOpenBatchNo # 0 /\ b.nextBatchNo # 0 /\ s.partial.batchNo = here /\ PartialRounds(s.partial) > 0
            ra == found([initTimeMark(s, 1) EXCEPT !.latestBatchNo = 1, !.batchCount = 1,
                                                   !.partial.batchNo = 1, !.firstOpenBatchNo = 1],
                        1, s.batchCount # 0 \/ nextBatchNo # 0)
            rb == found(s, here, b.rounds # 0)
            rc == found(after, split.b.nextBatchNo, split.panic)
            rd == found(s, here, FALSE)
<1>1. r = CASE armA -> ra [] armB -> rb [] armC -> rc [] OTHER -> rd
  BY DEF findBatchToAppend
<1>2. here = this
  BY DEF AppendAt
<1>3. FoundAt(ra, FirstBatch(s), 1) /\ (ra.panic => s.batchCount # 0 \/ nextBatchNo # 0)
  BY DEF FoundAt, FirstBatch
<1>4. /\ FoundAt(rb, s, this) /\ FoundAt(rd, s, this)
      /\ rb.panic => BatchAt(s, this).rounds # 0
      /\ ~rd.panic
  BY <1>2 DEF FoundAt
<1>5. SplitsPartial(s, this) =>
         FoundAt(rc, PartialLeft(s), PartialRest(s).b.nextBatchNo) /\ (rc.panic => PartialRest(s).panic)
  <2> SUFFICES ASSUME SplitsPartial(s, this)
               PROVE  FoundAt(rc, PartialLeft(s), PartialRest(s).b.nextBatchNo) /\ (rc.panic => PartialRest(s).panic)
    OBVIOUS
  <2>1. here = s.partial.batchNo
    BY <1>2 DEF SplitsPartial
  <2>. HIDE DEF here
  <2>2. split = PartialRest(s)
    BY <2>1 DEF PartialRest
  <2>3. closed = PartialClosed(s)
    BY <2>1 DEF PartialClosed, PartialRest, RestStored
  <2>. HIDE DEF split, closed
  <2>4. after = PartialLeft(s)
    BY <2>1, <2>2, <2>3 DEF PartialLeft
  <2>. HIDE DEF after
  <2>. QED
    BY <2>2, <2>4 DEF FoundAt
<1>6. armA <=> s.firstOpenBatchNo = 0
  OBVIOUS
<1>7. armB => s.firstOpenBatchNo # 0 /\ ~SplitsPartial(s, this) /\ BatchAt(s, this).nextBatchNo = 0
  BY <1>2 DEF SplitsPartial
<1>8. armC <=> s.firstOpenBatchNo # 0 /\ SplitsPartial(s, this)
  <2>. HIDE DEF here
  <2>. QED
    BY <1>2 DEF SplitsPartial
<1>. HIDE DEF armA, armB, armC, ra, rb, rc, rd, here
<1>9. CASE s.firstOpenBatchNo = 0
  <2>1. armA /\ ~armB /\ ~armC
    BY <1>6, <1>7, <1>8, <1>9
  <2>2. r = ra
    BY <1>1, <2>1
  <2>. QED
    BY <1>3, <1>9, <2>2 DEF FindFails
<1>10. CASE s.firstOpenBatchNo # 0 /\ SplitsPartial(s, this)
  <2>1. ~armA /\ ~armB /\ armC
    BY <1>6, <1>7, <1>8, <1>10
  <2>2. r = rc
    BY <1>1, <2>1
  <2>. QED
    BY <1>5, <1>10, <2>2 DEF FindFails
<1>11. CASE s.firstOpenBatchNo # 0 /\ ~SplitsPartial(s, this)
  <2>1. ~armA /\ ~armC
    BY <1>6, <1>8, <1>11
  <2>2. (armB /\ r = rb) \/ r = rd
    BY <1>1, <2>1
  <2>. QED
    BY <1>4, <1>7, <1>11, <2>2 DEF FindFails
<1>. QED
  BY <1>9, <1>10, <1>11

\* The batch that is found takes demand, and the list is kept.
LEMMA FindKeeps ==
    ASSUME NEW s, NEW L, EngineStore(s, L), NEW nextBatchNo \in L \cup {0},
           NEW r, r = findBatchToAppend(s, nextBatchNo)
    PROVE  \E M : /\ Appendable(r.s, M, r.batchNo) /\ L \subseteq M /\ Frozen(s, r.s)
                  /\ FoundAt(r, r.s, r.batchNo)
<1>. DEFINE this == AppendAt(s, nextBatchNo)
<1>1. /\ s.firstOpenBatchNo = 0 => FoundAt(r, FirstBatch(s), 1)
      /\ s.firstOpenBatchNo # 0 /\ ~SplitsPartial(s, this) => FoundAt(r, s, this)
      /\ s.firstOpenBatchNo # 0 /\ SplitsPartial(s, this) =>
            FoundAt(r, PartialLeft(s), PartialRest(s).b.nextBatchNo)
  BY FindCases
<1>2. Linked(s, L) /\ IsStore(s) /\ s.batchCount \in Nat /\ L \subseteq 1..s.batchCount
  BY DEF EngineStore, Linked
<1>3. CASE s.firstOpenBatchNo = 0
  <2>. DEFINE t == FirstBatch(s)
  <2>1. s.batchCount = 0
    BY <1>2, <1>3 DEF EngineStore, FirstOpenPlaced
  <2>2. L = {} /\ 1 \notin 1..s.batchCount /\ 0 \notin 1..s.batchCount
    BY <1>2, <2>1
  <2>3. BatchAt(s, 1) = NoBatch /\ BatchAt(s, 0) = NoBatch /\ \A k \in Nat : BatchAt(s, k) = NoBatch
    <3>1. \A k \in Nat : k \notin 1..0
      OBVIOUS
    <3>. QED
      BY <1>2, <2>1, <3>1 DEF Linked, NoOthers
  <2>4. s.partial.batchNo = 0 /\ IsPart(s.partial) /\ PartFits(s.partial, NoBatch)
    BY <2>2, <2>3 DEF EngineStore, PartialPlaced
  <2>5. OnlyMarked(s, initTimeMark(s, 1))
    BY <1>2, InitMarked
  <2>6. /\ IsStore(t) /\ t.batches = s.batches /\ t.batchCount = 1 /\ t.firstOpenBatchNo = 1
        /\ t.partial = [s.partial EXCEPT !.batchNo = 1]
        /\ t.openRounds = s.openRounds /\ t.insureds = s.insureds /\ t.pendingCoverage = s.pendingCoverage
    <3>. DEFINE m == initTimeMark(s, 1)
    <3>1. IsStore(m) /\ SameHeads(s, m) /\ m.batches = s.batches
      BY <2>5 DEF OnlyMarked
    <3>2. t = [m EXCEPT !.latestBatchNo = 1, !.batchCount = 1, !.partial.batchNo = 1, !.firstOpenBatchNo = 1]
      BY DEF FirstBatch
    <3>. HIDE DEF m, t
    <3>. QED
      BY <3>1, <3>2 DEF IsStore, StoreFields, SameHeads
  <2>. HIDE DEF t
  <2>7. \A k \in Nat : BatchAt(t, k) = NoBatch
    BY <2>3, <2>6 DEF BatchAt
  <2>8. NextOf(t, 1) = 0 /\ ~FullAt(t, 1) /\ IsBatch(BatchAt(t, 1)) /\ LastIsEmpty(BatchAt(t, 1))
    <3>1. BatchAt(t, 1) = NoBatch
      BY <2>7
    <3>2. NoBatch.nextBatchNo = 0
      BY DEF NoBatch
    <3>. QED
      BY <3>1, <3>2, NoBatchIsBatch DEF NextOf, FullAt
  <2>9. Linked(t, {1})
    <3>1. t.batchCount \in Nat /\ {1} \subseteq 1..t.batchCount /\ NoOthers(t)
      BY <2>6, <2>7 DEF NoOthers
    <3>2. Reached(t, {1})
      BY DEF Reached
    <3>. QED
      BY <2>8, <3>1, <3>2 DEF Linked
  <2>10. IsPart(t.partial) /\ t.partial.batchNo = 1 /\ PartFits(t.partial, NoBatch)
         /\ t.partial.roundNo = 0 /\ t.partial.roundCoverage = 0
    <3>1. s.partial.roundNo = 0 /\ s.partial.roundCoverage = 0
      BY <2>4 DEF IsPart, PartFits, NoBatch
    <3>. QED
      BY <2>4, <2>6, <3>1 DEF IsPart, PartFields, PartFits, NoBatch
  <2>11. PartialPlaced(t, {1}) /\ FirstOpenPlaced(t, {1})
    BY <2>6, <2>7, <2>8, <2>10 DEF PartialPlaced, FirstOpenPlaced
  <2>12. InsuredsIn(t.insureds, {1})
    <3>1. InsuredsIn(s.insureds, L)
      BY DEF EngineStore
    <3>. QED
      BY <2>2, <2>6, <3>1 DEF InsuredsIn
  <2>13. EngineStore(t, {1}) /\ Untouched(t, 1)
    BY <2>6, <2>9, <2>10, <2>11, <2>12 DEF EngineStore, Untouched
  <2>14. Frozen(s, t)
    BY <2>6 DEF Frozen, BatchAt
  <2>15. FoundAt(r, t, 1)
    BY <1>1, <1>3 DEF t
  <2>16. r.s = t /\ r.batchNo = 1
    BY <2>15 DEF FoundAt
  <2>. QED
    BY <2>2, <2>8, <2>13, <2>14, <2>15, <2>16 DEF Appendable
<1>4. s.firstOpenBatchNo # 0 => this \in L /\ ~FullAt(s, this) /\ this # 0
  <2> SUFFICES ASSUME s.firstOpenBatchNo # 0 PROVE this \in L /\ ~FullAt(s, this) /\ this # 0
    OBVIOUS
  <2>1. s.firstOpenBatchNo \in L /\ ~FullAt(s, s.firstOpenBatchNo)
    BY DEF EngineStore, FirstOpenPlaced
  <2>2. isOpen(BatchAt(s, nextBatchNo)) => ~FullAt(s, nextBatchNo)
    BY DEF isOpen, isFull, FullAt
  <2>. QED
    BY <2>1, <2>2 DEF AppendAt
<1>5. CASE s.firstOpenBatchNo # 0 /\ ~SplitsPartial(s, this)
  <2>1. Untouched(s, this)
    <3> SUFFICES ASSUME s.partial.batchNo = this PROVE s.partial.roundNo = 0 /\ s.partial.roundCoverage = 0
      BY DEF Untouched
    <3>1. PartialFacts(s, L, BatchAt(s, this))
      BY <1>4, <1>5, PartialBatch
    <3>2. /\ IsPart(s.partial) /\ PartFits(s.partial, BatchAt(s, this)) /\ LastIsEmpty(BatchAt(s, this))
          /\ BatchAt(s, this).nextBatchNo = 0 \/ ~(PartialRounds(s.partial) > 0)
      BY <1>5, <3>1 DEF PartialFacts, SplitsPartial
    <3>. HIDE DEF this
    <3>3. s.partial.roundNo \in Nat /\ s.partial.roundCoverage \in Nat
      BY <3>2 DEF IsPart
    <3>4. CASE ~(PartialRounds(s.partial) > 0)
      BY <3>3, <3>4 DEF PartialRounds
    <3>5. CASE BatchAt(s, this).nextBatchNo = 0
      BY <3>2, <3>3, <3>5 DEF LastIsEmpty, PartFits
    <3>. QED
      BY <3>2, <3>4, <3>5
  <2>2. FoundAt(r, s, this)
    BY <1>1, <1>5
  <2>3. r.s = s /\ r.batchNo = this
    BY <2>2 DEF FoundAt
  <2>4. Frozen(s, s)
    BY DEF Frozen
  <2>5. Appendable(s, L, this)
    BY <1>4, <1>5, <2>1 DEF Appendable
  <2>. HIDE DEF this
  <2>. QED
    BY <2>2, <2>3, <2>4, <2>5
<1>6. CASE s.firstOpenBatchNo # 0 /\ SplitsPartial(s, this)
  <2>. DEFINE q == PartialRest(s).b.nextBatchNo
  <2>1. /\ s.partial.batchNo # 0 /\ PartialRounds(s.partial) > 0
        /\ BatchAt(s, s.partial.batchNo).nextBatchNo # 0
    BY <1>4, <1>6 DEF SplitsPartial
  <2>2. PICK M : Appendable(PartialLeft(s), M, q) /\ L \subseteq M /\ Frozen(s, PartialLeft(s))
    BY <2>1, PartialLeftKeeps
  <2>3. FoundAt(r, PartialLeft(s), q)
    BY <1>1, <1>6
  <2>. HIDE DEF q
  <2>4. r.s = PartialLeft(s) /\ r.batchNo = q
    BY <2>3 DEF FoundAt
  <2>. QED
    BY <2>2, <2>3, <2>4
<1>. QED
  BY <1>3, <1>5, <1>6

-----------------------------------------------------------------------------
(* The loop of internalAddCoverageDemand.                                  *)

DemandFields == {"s", "b", "batchNo", "isFirstOfOpen", "insured", "rate", "entry", "demand", "log",
                 "openRounds", "partialRounds", "unitCount", "loopLimit", "addPerRound",
                 "updateBatch", "takeNext", "done", "panic"}
IsDemandFrame(f) == DOMAIN f = DemandFields

EntryIn(e, L) == e \in [nextBatchNo : L \cup {0}, demandedUnits : Nat, status : {"Accepted", "Declined"}]

DemandNumbers(f, L) ==
    /\ f.insured \in Insureds /\ f.openRounds \in Nat /\ f.partialRounds \in Nat /\ f.unitCount \in Nat
    /\ EntryIn(f.entry, L)

(* The store of the frame f, with or without its batch. *)
FramePut(f)    == PutBatch(f.s, f.batchNo, f.b)
FrameStored(f) == IF f.updateBatch THEN FramePut(f) ELSE f.s

(* The frame f of a call that began with the store s0, before a turn of the loop ... *)
DemandBetween(f, L, s0) ==
    /\ Appendable(f.s, L, f.batchNo) /\ Frozen(s0, f.s)
    /\ IsBatch(f.b) /\ SameButTotal(f.b, BatchAt(f.s, f.batchNo))
    /\ ~f.updateBatch => f.b = BatchAt(f.s, f.batchNo)
    /\ DemandNumbers(f, L)

(* ... after the last one ... *)
DemandFinished(f, L, s0) ==
    /\ Appendable(FrameStored(f), L, f.batchNo) /\ Frozen(s0, FrameStored(f))
    /\ DemandNumbers(f, L)

(* ... and within a turn: the store is in order with the batch of the frame *)
(* and without it, when the batches that were created for it are lost.      *)
DemandMid(f, L, M, s0) ==
    /\ Appendable(f.s, L, f.batchNo) /\ Frozen(s0, f.s) /\ L \subseteq M
    /\ Appendable(FramePut(f), M, f.batchNo)
    /\ IsBatch(f.b) /\ ~isFull(f.b) /\ f.b.nextBatchNo # 0 /\ f.b.rounds # 0
    /\ DemandNumbers(f, L)

DemandGood(f, s0) ==
    /\ IsDemandFrame(f)
    /\ f.panic \/ \E L : IF f.done THEN DemandFinished(f, L, s0) ELSE DemandBetween(f, L, s0)

\* The numbers an insured holds stay live when batches are added.
LEMMA NumbersGrow ==
    ASSUME NEW f, NEW L, NEW M, L \subseteq M, DemandNumbers(f, L)
    PROVE  DemandNumbers(f, M)
<1>1. L \cup {0} \subseteq M \cup {0}
  OBVIOUS
<1>. QED
  BY <1>1 DEF DemandNumbers, EntryIn

\* The batch of a frame between two turns can be stored.
LEMMA BetweenPut ==
    ASSUME NEW f, NEW L, NEW s0, DemandBetween(f, L, s0)
    PROVE  /\ Appendable(FramePut(f), L, f.batchNo) /\ Frozen(s0, FramePut(f))
           /\ LastIsEmpty(f.b) /\ ~isFull(f.b) /\ f.b.nextBatchNo = NextOf(f.s, f.batchNo)
<1>. DEFINE n == f.batchNo
            t == FramePut(f)
<1>1. /\ n \in Nat /\ IsStore(f.s) /\ ~FullAt(f.s, n) /\ Appendable(f.s, L, n)
      /\ LastIsEmpty(BatchAt(f.s, n)) /\ Frozen(s0, f.s)
      /\ IsBatch(f.b) /\ SameButTotal(f.b, BatchAt(f.s, n))
  BY AppendableFacts DEF DemandBetween, Appendable
<1>2. LastIsEmpty(f.b) /\ ~isFull(f.b) /\ f.b.nextBatchNo = NextOf(f.s, n)
  BY <1>1 DEF SameButTotal, LastIsEmpty, isFull, FullAt, NextOf
<1>3. t = PutBatch(f.s, n, f.b)
  BY DEF FramePut
<1>. HIDE DEF t
<1>4. IsStore(t) /\ SameHeads(f.s, t) /\ t.batchCount = f.s.batchCount /\ BatchAt(t, n) = f.b /\ Elsewhere(f.s, t, n)
  BY <1>1, <1>3, PutBatchStores
<1>5. Appendable(t, L, n)
  BY <1>1, <1>2, <1>4, PutKeepsStore
<1>6. Frozen(s0, t)
  <2>1. Frozen(f.s, t)
    BY <1>1, <1>4, FrozenPut
  <2>. QED
    BY <1>1, <2>1, FrozenSteps
<1>. QED
  BY <1>2, <1>5, <1>6 DEF t

\* The demand loop may end between two turns.
LEMMA BetweenIsFinished ==
    ASSUME NEW f, NEW L, NEW s0, DemandBetween(f, L, s0)
    PROVE  DemandFinished(f, L, s0)
<1>1. Appendable(FramePut(f), L, f.batchNo) /\ Frozen(s0, FramePut(f))
  BY BetweenPut
<1>2. Appendable(f.s, L, f.batchNo) /\ Frozen(s0, f.s) /\ DemandNumbers(f, L)
  BY DEF DemandBetween
<1>. QED
  BY <1>1, <1>2 DEF DemandFinished, FrameStored

\* In the middle of a turn the full batches are those from before the call.
LEMMA MidIsFrozen ==
    ASSUME NEW f, NEW L, NEW M, NEW s0, DemandMid(f, L, M, s0)
    PROVE  Frozen(s0, FramePut(f))
<1>. DEFINE t == PutBatch(f.s, f.batchNo, f.b)
<1>1. f.batchNo \in Nat /\ IsStore(f.s) /\ ~FullAt(f.s, f.batchNo) /\ Frozen(s0, f.s)
  BY AppendableFacts DEF DemandMid, Appendable
<1>2. Elsewhere(f.s, t, f.batchNo)
  BY <1>1, PutBatchStores
<1>. HIDE DEF t
<1>3. Frozen(f.s, t)
  BY <1>1, <1>2, FrozenPut
<1>4. Frozen(s0, t)
  BY <1>1, <1>3, FrozenSteps
<1>. QED
  BY <1>4 DEF t, FramePut

\* The loop may end in the middle of a turn.
LEMMA MidIsFinished ==
    ASSUME NEW f, NEW L, NEW M, NEW s0, DemandMid(f, L, M, s0)
    PROVE  \E K : DemandFinished(f, K, s0)
<1>1. CASE f.updateBatch
  <2>1. FrameStored(f) = FramePut(f)
    BY <1>1 DEF FrameStored
  <2>2. DemandNumbers(f, M)
    BY NumbersGrow DEF DemandMid
  <2>3. DemandFinished(f, M, s0)
    BY <2>1, <2>2, MidIsFrozen DEF DemandFinished, DemandMid
  <2>. QED
    BY <2>3
<1>2. CASE ~f.updateBatch
  <2>1. FrameStored(f) = f.s
    BY <1>2 DEF FrameStored
  <2>2. DemandFinished(f, L, s0)
    BY <2>1 DEF DemandFinished, DemandMid
  <2>. QED
    BY <2>2
<1>. QED
  BY <1>1, <1>2

-----------------------------------------------------------------------------
(* An empty batch gets rounds.                                             *)

\* internalBatchAppend returns a number of rounds.
LEMMA AppendedRounds ==
    ASSUME NEW opened \in Nat, NEW unitCount \in Nat
    PROVE  internalBatchAppend(opened, unitCount).rounds \in Nat
<1>. DEFINE min == minRounds
            max == maxRounds
            refused == opened + min > max /\ (min < max \div 2 \/ opened > max \div 2)
            wanted == unitCount \div min
            vacant == (max - opened) \div min
            factor == IF vacant < wanted THEN vacant ELSE wanted
            ra == [rounds |-> 0, panic |-> FALSE]
            rb == [rounds |-> min, panic |-> FALSE]
            rc == [rounds |-> min * factor, panic |-> factor = 0]
            armA == refused
            armB == ~refused /\ wanted <= 1
            r == internalBatchAppend(opened, unitCount)
<1>1. min \in Nat /\ max \in Nat /\ 1 <= min /\ min <= max
  BY RoundsArePositive
<1>2. r = CASE armA -> ra [] armB -> rb [] OTHER -> rc
  BY DEF internalBatchAppend
<1>3. wanted \in Nat
  BY <1>1, DivBounds
<1>4. ~refused => opened <= max
  <2>. HIDE DEF min, max
  <2>1. max \div 2 \in Nat /\ max \div 2 <= max
    BY <1>1
  <2>. QED
    BY <1>1, <2>1
<1>5. ~refused => factor \in Nat
  <2> SUFFICES ASSUME ~refused PROVE factor \in Nat
    OBVIOUS
  <2>. HIDE DEF refused, wanted, min, max
  <2>1. max - opened \in Nat
    BY <1>1, <1>4
  <2>2. vacant \in Nat
    <3>. DEFINE room == max - opened
    <3>1. room \in Nat
      BY <2>1
    <3>. HIDE DEF room
    <3>2. room \div min \in Nat
      BY <1>1, <3>1, DivBounds
    <3>. QED
      BY <3>2 DEF room
  <2>. HIDE DEF vacant
  <2>. QED
    BY <1>3, <2>2
<1>6. ra.rounds \in Nat /\ rb.rounds \in Nat
  BY <1>1
<1>7. ~refused => rc.rounds \in Nat
  <2>. HIDE DEF refused, factor, min
  <2>1. \A x \in Nat, y \in Nat : x * y \in Nat
    OBVIOUS
  <2>2. rc.rounds = min * factor
    OBVIOUS
  <2>. QED
    BY <1>1, <1>5, <2>1, <2>2
<1>8. ~armA <=> ~refused
  OBVIOUS
<1>. HIDE DEF armA, armB, ra, rb, rc, refused, r
<1>9. r = ra \/ r = rb \/ (~refused /\ r = rc)
  BY <1>2, <1>8
<1>10. r.rounds \in Nat
  BY <1>6, <1>7, <1>9
<1>. QED
  BY <1>10 DEF r

(* The frame's numbers that most steps leave alone. *)
SameCounts(f, g) ==
    /\ g.batchNo = f.batchNo /\ g.insured = f.insured /\ g.partialRounds = f.partialRounds
    /\ g.unitCount = f.unitCount /\ g.entry = f.entry

(* The last batch gets r rounds and a successor m. *)
NewLast(s, m) == [initTimeMark(s, m) EXCEPT !.batchCount = m, !.latestBatchNo = m]

(* The frame g after appendRounds gave r rounds to the batch of f. *)
RoundsAppended(f, g, r, m) ==
    /\ IsDemandFrame(g) /\ SameCounts(f, g) /\ g.openRounds = f.openRounds + r
    /\ g.updateBatch = TRUE /\ g.done = f.done /\ g.panic = f.panic
    /\ f.b.nextBatchNo = 0 => g.b = KeptRounds(f.b, r, m) /\ g.s = NewLast(f.s, m)
    /\ f.b.nextBatchNo # 0 => g.b = KeptRounds(f.b, r, f.b.nextBatchNo) /\ g.s = f.s

\* The three outcomes of appendRounds: rounds are there, none can be added, some are.
LEMMA AppendCases ==
    ASSUME NEW f, IsDemandFrame(f), IsBatch(f.b), NEW g, g = appendRounds(f),
           NEW r, r = internalBatchAppend(f.openRounds, f.unitCount).rounds,
           NEW m, m = f.s.batchCount + 1
    PROVE  /\ f.b.rounds # 0 => g = f
           /\ f.b.rounds = 0 /\ r = 0 =>
                 /\ IsDemandFrame(g) /\ g.done = TRUE /\ SameCounts(f, g) /\ (f.panic => g.panic)
                 /\ g.s = f.s /\ g.b = f.b /\ g.updateBatch = f.updateBatch /\ g.openRounds = f.openRounds
           /\ f.b.rounds = 0 /\ r # 0 => RoundsAppended(f, g, r, m)
<1>. DEFINE appended == internalBatchAppend(f.openRounds, f.unitCount)
            n == f.s.batchCount + 1
            isLast == f.b.nextBatchNo = 0
            armA == f.b.rounds # 0
            armB == f.b.rounds = 0 /\ appended.rounds = 0
            rb == [f EXCEPT !.done = TRUE, !.panic = @ \/ appended.panic]
            rc == [f EXCEPT !.b.rounds = appended.rounds,
                            !.b.nextBatchNo = IF isLast THEN n ELSE @,
                            !.openRounds = @ + appended.rounds,
                            !.updateBatch = TRUE,
                            !.s = IF isLast THEN [initTimeMark(@, n) EXCEPT !.batchCount = n, !.latestBatchNo = n]
                                  ELSE @]
<1>1. g = CASE armA -> f [] armB -> rb [] OTHER -> rc
  BY DEF appendRounds
<1>2. /\ armA <=> f.b.rounds # 0
      /\ armB <=> f.b.rounds = 0 /\ r = 0
  OBVIOUS
<1>. HIDE DEF appended
<1>3. /\ IsDemandFrame(rb) /\ rb.done = TRUE /\ SameCounts(f, rb) /\ (f.panic => rb.panic)
      /\ rb.s = f.s /\ rb.b = f.b /\ rb.updateBatch = f.updateBatch /\ rb.openRounds = f.openRounds
  BY DEF IsDemandFrame, DemandFields, SameCounts
<1>4. RoundsAppended(f, rc, r, m)
  <2>1. appended.rounds = r /\ n = m
    BY DEF appended
  <2>. DEFINE t == NewLast(f.s, m)
              next == IF isLast THEN m ELSE f.b.nextBatchNo
              c == KeptRounds(f.b, r, next)
              u == IF isLast THEN t ELSE f.s
  <2>2. rc = [f EXCEPT !.b = c, !.openRounds = f.openRounds + r, !.updateBatch = TRUE, !.s = u]
    <3>1. rc = [f EXCEPT !.b.rounds = r, !.b.nextBatchNo = IF isLast THEN m ELSE @,
                         !.openRounds = @ + r, !.updateBatch = TRUE,
                         !.s = IF isLast THEN NewLast(@, m) ELSE @]
      BY <2>1 DEF NewLast
    <3>. HIDE DEF rc, isLast, n
    <3>2. "nextBatchNo" \in DOMAIN f.b /\ "rounds" \in DOMAIN f.b
      BY DEF IsBatch, BatchFields
    <3>. QED
      BY <3>1, <3>2 DEF KeptRounds, IsDemandFrame, DemandFields, isLast
  <2>. HIDE DEF rc, c, u, t, next, isLast
  <2>3. /\ IsDemandFrame(rc) /\ SameCounts(f, rc) /\ rc.openRounds = f.openRounds + r
        /\ rc.updateBatch = TRUE /\ rc.done = f.done /\ rc.panic = f.panic /\ rc.b = c /\ rc.s = u
    BY <2>2 DEF IsDemandFrame, DemandFields, SameCounts
  <2>4. /\ f.b.nextBatchNo = 0 => c = KeptRounds(f.b, r, m) /\ u = NewLast(f.s, m)
        /\ f.b.nextBatchNo # 0 => c = KeptRounds(f.b, r, f.b.nextBatchNo) /\ u = f.s
    BY DEF c, u, t, next, isLast
  <2>. QED
    BY <2>3, <2>4 DEF RoundsAppended
<1>. HIDE DEF armA, armB, rb, rc
<1>5. CASE f.b.rounds # 0
  <2>1. armA /\ ~armB
    BY <1>2, <1>5
  <2>2. g = f
    BY <1>1, <2>1
  <2>. QED
    BY <1>5, <2>2
<1>6. CASE f.b.rounds = 0 /\ r = 0
  <2>1. ~armA /\ armB
    BY <1>2, <1>6
  <2>2. g = rb
    BY <1>1, <2>1
  <2>. QED
    BY <1>3, <1>6, <2>2
<1>7. CASE f.b.rounds = 0 /\ r # 0
  <2>1. ~armA /\ ~armB
    BY <1>2, <1>7
  <2>2. g = rc
    BY <1>1, <2>1
  <2>. QED
    BY <1>4, <1>7, <2>2
<1>. QED
  BY <1>5, <1>6, <1>7

\* A batch with other rounds, and maybe another successor.
LEMMA KeptIsBatch ==
    ASSUME NEW b, IsBatch(b), ~isFull(b), NEW r \in Nat, NEW m \in Nat, m # 0
    PROVE  LET c == KeptRounds(b, r, m)
           IN  /\ IsBatch(c) /\ LastIsEmpty(c) /\ ~isFull(c)
               /\ c.nextBatchNo = m /\ c.rounds = r
  BY DEF KeptRounds, IsBatch, BatchFields, LastIsEmpty, isFull

\* After appendRounds there are rounds and a next batch, or the loop ends.
LEMMA AppendStep ==
    ASSUME NEW f, IsDemandFrame(f), NEW L, NEW s0, DemandBetween(f, L, s0), ~f.done,
           NEW g, g = appendRounds(f)
    PROVE  /\ IsDemandFrame(g) /\ (f.panic => g.panic)
           /\ g.done => DemandFinished(g, L, s0)
           /\ ~g.done => \E M : DemandMid(g, L, M, s0)
<1>. DEFINE n == f.batchNo
            r == internalBatchAppend(f.openRounds, f.unitCount).rounds
            m == f.s.batchCount + 1
<1>1. /\ f.b.rounds # 0 => g = f
      /\ f.b.rounds = 0 /\ r = 0 =>
            /\ IsDemandFrame(g) /\ g.done = TRUE /\ SameCounts(f, g) /\ (f.panic => g.panic)
            /\ g.s = f.s /\ g.b = f.b /\ g.updateBatch = f.updateBatch /\ g.openRounds = f.openRounds
      /\ f.b.rounds = 0 /\ r # 0 => RoundsAppended(f, g, r, m)
  BY AppendCases DEF DemandBetween
<1>2. /\ Appendable(f.s, L, n) /\ Frozen(s0, f.s) /\ DemandNumbers(f, L) /\ IsBatch(f.b)
      /\ f.openRounds \in Nat /\ f.unitCount \in Nat
  BY DEF DemandBetween, DemandNumbers
<1>3. /\ Appendable(FramePut(f), L, n) /\ LastIsEmpty(f.b) /\ ~isFull(f.b)
      /\ f.b.nextBatchNo = NextOf(f.s, n)
  BY BetweenPut
<1>4. r \in Nat
  BY <1>2, AppendedRounds
<1>5. /\ n \in Nat /\ n # 0 /\ n \in L /\ IsStore(f.s) /\ Linked(f.s, L) /\ f.s.batchCount \in Nat /\ L \subseteq 1..f.s.batchCount
      /\ ~FullAt(f.s, n)
  <2>1. Linked(f.s, L)
    BY <1>2, AppendableFacts
  <2>. QED
    BY <1>2, <2>1, AppendableFacts DEF Appendable, Linked
<1>. HIDE DEF r
<1>6. CASE f.b.rounds # 0
  <2>1. g = f
    BY <1>1, <1>6
  <2>2. f.b.nextBatchNo # 0
    BY <1>3, <1>6 DEF LastIsEmpty
  <2>3. DemandMid(f, L, L, s0)
    BY <1>2, <1>3, <1>6, <2>2 DEF DemandMid
  <2>. QED
    BY <2>1, <2>3
<1>7. CASE f.b.rounds = 0 /\ r = 0
  <2>1. DemandFinished(f, L, s0)
    BY BetweenIsFinished
  <2>2. FrameStored(g) = FrameStored(f) /\ DemandNumbers(g, L) /\ g.batchNo = f.batchNo
    BY <1>1, <1>2, <1>7 DEF FrameStored, FramePut, SameCounts, DemandNumbers
  <2>. QED
    BY <1>1, <1>7, <2>1, <2>2 DEF DemandFinished
<1>8. CASE f.b.rounds = 0 /\ r # 0
  <2>1. RoundsAppended(f, g, r, m)
    BY <1>1, <1>8
  <2>2. IsDemandFrame(g) /\ g.panic = f.panic /\ g.done = f.done /\ g.batchNo = n /\ DemandNumbers(g, L)
    <3>1. g.openRounds \in Nat
      BY <1>2, <1>4, <2>1 DEF RoundsAppended
    <3>. QED
      BY <1>2, <2>1, <3>1 DEF RoundsAppended, SameCounts, DemandNumbers
  <2>3. CASE f.b.nextBatchNo # 0
    <3>1. g.b = KeptRounds(f.b, r, f.b.nextBatchNo) /\ g.s = f.s
      BY <2>1, <2>3 DEF RoundsAppended
    <3>2. f.b.nextBatchNo \in Nat
      BY <1>2 DEF IsBatch
    <3>3. IsBatch(g.b) /\ LastIsEmpty(g.b) /\ ~isFull(g.b) /\ g.b.nextBatchNo = NextOf(f.s, n) /\ g.b.rounds = r
      BY <1>2, <1>3, <1>4, <2>3, <3>1, <3>2, KeptIsBatch
    <3>. DEFINE t == FramePut(g)
    <3>4. t = PutBatch(f.s, n, g.b)
      BY <2>2, <3>1 DEF FramePut
    <3>. HIDE DEF t
    <3>5. IsStore(t) /\ SameHeads(f.s, t) /\ t.batchCount = f.s.batchCount /\ BatchAt(t, n) = g.b /\ Elsewhere(f.s, t, n)
      BY <1>5, <3>4, PutBatchStores
    <3>6. Appendable(t, L, n)
      BY <1>2, <3>3, <3>5, PutKeepsStore
    <3>7. DemandMid(g, L, L, s0)
      BY <1>2, <1>8, <2>2, <2>3, <3>1, <3>3, <3>6, <1>3 DEF DemandMid, t
    <3>. QED
      BY <2>2, <3>7
  <2>4. CASE f.b.nextBatchNo = 0
    <3>1. g.b = KeptRounds(f.b, r, m) /\ g.s = NewLast(f.s, m)
      BY <2>1, <2>4 DEF RoundsAppended
    <3>2. m \in Nat /\ m # 0 /\ m \notin L /\ n # m /\ f.s.batchCount <= m /\ m \notin 1..f.s.batchCount
          /\ \A k \in Nat : k \notin 1..m => k \notin 1..f.s.batchCount
      <4>. DEFINE count == f.s.batchCount
      <4>. HIDE DEF count
      <4>1. count \in Nat /\ L \subseteq 1..count
        BY <1>5 DEF count
      <4>2. count + 1 \in Nat /\ count + 1 # 0 /\ count + 1 \notin L /\ count <= count + 1 /\ count + 1 \notin 1..count
            /\ \A k \in Nat : k \notin 1..(count + 1) => k \notin 1..count
        BY <1>5, <4>1, NextNumber
      <4>. QED
        BY <1>5, <4>2 DEF count
    <3>3. BatchAt(f.s, m) = NoBatch
      BY <1>5, <3>2 DEF Linked, NoOthers
    <3>. HIDE DEF m
    <3>4. IsBatch(g.b) /\ LastIsEmpty(g.b) /\ ~isFull(g.b) /\ g.b.nextBatchNo = m /\ g.b.rounds = r
      <4>. DEFINE c == KeptRounds(f.b, r, m)
      <4>1. IsBatch(c) /\ LastIsEmpty(c) /\ ~isFull(c) /\ c.nextBatchNo = m /\ c.rounds = r
        <5>1. IsBatch(f.b) /\ ~isFull(f.b) /\ r \in Nat /\ m \in Nat /\ m # 0
          BY <1>2, <1>3, <1>4, <3>2
        <5>. QED
          BY <5>1, KeptIsBatch
      <4>. HIDE DEF c
      <4>2. g.b = c
        BY <3>1 DEF c
      <4>. QED
        BY <4>1, <4>2
    <3>5. IsStore(g.s) /\ SameHeads(f.s, g.s) /\ g.s.batchCount = m /\ g.s.batches = f.s.batches
      <4>. DEFINE marked == initTimeMark(f.s, m)
      <4>1. OnlyMarked(f.s, marked)
        BY <1>5, InitMarked
      <4>2. g.s = [marked EXCEPT !.batchCount = m, !.latestBatchNo = m]
        BY <3>1 DEF NewLast
      <4>. HIDE DEF marked
      <4>. QED
        BY <4>1, <4>2 DEF OnlyMarked, IsStore, StoreFields, SameHeads
    <3>6. \A k : BatchAt(g.s, k) = BatchAt(f.s, k)
      BY <3>5 DEF BatchAt
    <3>. DEFINE t == FramePut(g)
    <3>7. t = PutBatch(g.s, n, g.b)
      BY <2>2 DEF FramePut
    <3>. HIDE DEF t
    <3>8. IsStore(t) /\ SameHeads(g.s, t) /\ t.batchCount = m /\ BatchAt(t, n) = g.b /\ Elsewhere(g.s, t, n)
      BY <1>5, <3>5, <3>7, PutBatchStores
    <3>9. SameHeads(f.s, t) /\ BatchAt(t, m) = NoBatch /\ \A k \in Nat : k # n /\ k # m => BatchAt(t, k) = BatchAt(f.s, k)
      BY <3>2, <3>3, <3>5, <3>6, <3>8 DEF SameHeads, Elsewhere
    <3>10. NoBatch.nextBatchNo = NextOf(f.s, n)
      BY <1>3, <2>4 DEF NoBatch
    <3>11. Appendable(t, L \cup {m}, n)
      BY <1>2, <3>4, <3>8, <3>9, <3>10, NoBatchIsBatch, InsertKeepsStore DEF m
    <3>12. NoOthers(g.s)
      BY <1>5, <3>2, <3>5, <3>6 DEF Linked, NoOthers
    <3>13. Appendable(g.s, L, n)
      BY <1>2, <3>2, <3>5, <3>6, <3>12, DroppedKeepsStore
    <3>14. Frozen(s0, g.s)
      BY <1>2, <3>6 DEF Frozen, FullAt
    <3>15. DemandMid(g, L, L \cup {m}, s0)
      BY <1>8, <2>2, <3>2, <3>4, <3>11, <3>13, <3>14 DEF DemandMid, t
    <3>. QED
      BY <2>2, <3>15
  <2>. QED
    BY <2>3, <2>4
<1>. QED
  BY <1>6, <1>7, <1>8

-----------------------------------------------------------------------------
(* Units of the insured into the rounds of the batch.                      *)

\* The least of three numbers is a number and is at most the last.
LEMMA MinOfThree ==
    ASSUME NEW x \in Nat, NEW y \in Nat, NEW z \in Nat
    PROVE  Min({x, y, z}) \in Nat /\ Min({x, y, z}) <= z
<1>1. \E a \in {x, y, z} : \A b \in {x, y, z} : a <= b
  OBVIOUS
<1>2. Min({x, y, z}) \in {x, y, z} /\ \A b \in {x, y, z} : Min({x, y, z}) <= b
  BY <1>1 DEF Min
<1>. QED
  BY <1>2

\* internalRoundLimits returns numbers.
LEMMA ShareIsNumber ==
    ASSUME NEW total \in Nat, NEW rounds \in Nat \ {0}, NEW unitPerRound \in Nat,
           NEW demandedUnits \in Nat, NEW maxShare \in Nat
    PROVE  /\ internalRoundLimits(total, rounds, unitPerRound, demandedUnits, maxShare).share \in Nat
           /\ internalRoundLimits(total, rounds, unitPerRound, demandedUnits, maxShare).max \in Nat
<1>. DEFINE perRound == IF unitPerRound < minUnitsPerRound THEN minUnitsPerRound ELSE unitPerRound + 1
            fullUnits == total + rounds * perRound
            allowed == percentMul(fullUnits, maxShare)
            share == shareLeft(allowed, demandedUnits, rounds)
<1>1. perRound \in Nat
  BY PoolParamsAssumption
<1>2. fullUnits \in Nat
  <2>. HIDE DEF perRound
  <2>1. rounds * perRound \in Nat
    BY <1>1
  <2>. QED
    BY <2>1
<1>3. allowed \in Nat
  <2>. HIDE DEF fullUnits
  <2>. QED
    BY <1>2, PercentMulMonotone
<1>4. share \in Nat
  <2>. HIDE DEF allowed
  <2>1. CASE allowed < demandedUnits + rounds
    BY <2>1 DEF shareLeft
  <2>2. CASE ~(allowed < demandedUnits + rounds)
    <3>1. allowed - demandedUnits \in Nat /\ share = (allowed - demandedUnits) \div rounds
      BY <1>3, <2>2 DEF shareLeft
    <3>. DEFINE left == allowed - demandedUnits
    <3>. HIDE DEF left
    <3>2. left \in Nat /\ share = left \div rounds
      BY <3>1 DEF left
    <3>3. left \div rounds \in Nat
      BY <3>2, DivBounds
    <3>. QED
      BY <3>2, <3>3
  <2>. QED
    BY <2>1, <2>2
<1>5. overUnitsPerRound \in Nat
  BY PoolParamsAssumption
<1>. HIDE DEF share
<1>6. /\ internalRoundLimits(total, rounds, unitPerRound, demandedUnits, maxShare).share = share
      /\ internalRoundLimits(total, rounds, unitPerRound, demandedUnits, maxShare).max = overUnitsPerRound
  BY DEF internalRoundLimits, share
<1>. QED
  BY <1>4, <1>5, <1>6

\* The insured gets no more units than it asked for.
LEMMA UnitsFit ==
    ASSUME NEW f, f.b.unitPerRound \in Nat, f.b.rounds \in Nat \ {0}, f.unitCount \in Nat,
           NEW limits, limits.share \in Nat, limits.max \in Nat,
           NEW add, add = unitsToAdd(f, limits)
    PROVE  add \in Nat /\ add * f.b.rounds <= f.unitCount
<1>. DEFINE rounds == f.b.rounds
            count == f.unitCount
            wanted == count \div rounds
            room == limits.max - f.b.unitPerRound
<1>. HIDE DEF rounds, count
<1>1. wanted \in Nat /\ rounds * wanted <= count /\ rounds \in Nat /\ count \in Nat
  BY DivBounds DEF rounds, count
<1>. HIDE DEF wanted
<1>2. CASE limits.share = 0 \/ f.b.unitPerRound >= limits.max
  <2>1. add = 0
    BY <1>2 DEF unitsToAdd
  <2>. QED
    BY <1>1, <2>1 DEF rounds, count
<1>3. CASE ~(limits.share = 0 \/ f.b.unitPerRound >= limits.max)
  <2>1. add = Min({room, limits.share, wanted})
    BY <1>3 DEF unitsToAdd, wanted, rounds, count
  <2>2. room \in Nat
    BY <1>3
  <2>. HIDE DEF room
  <2>3. add \in Nat /\ add <= wanted
    BY <1>1, <2>1, <2>2, MinOfThree
  <2>4. rounds * add <= rounds * wanted /\ rounds * add \in Nat /\ rounds * add = add * rounds /\ rounds * wanted \in Nat
    <3>1. rounds * add = add * rounds /\ rounds * wanted \in Nat
      BY <1>1, <2>3
    <3>. QED
      BY <1>1, <2>3, <3>1, MulMonotone
  <2>. QED
    BY <1>1, <2>3, <2>4 DEF rounds, count
<1>. QED
  BY <1>2, <1>3

(* The frame g after the batch of f was changed. *)
BatchChanged(f, g) ==
    /\ IsDemandFrame(g) /\ SameCounts(f, g) /\ g.s = f.s /\ g.openRounds = f.openRounds
    /\ g.done = f.done /\ g.panic = f.panic /\ g.updateBatch = f.updateBatch
    /\ IsBatch(g.b) /\ ~isFull(g.b) /\ g.b.nextBatchNo = f.b.nextBatchNo /\ g.b.rounds = f.b.rounds

\* addUnits changes the units per round of the batch in hand, and no link.
LEMMA AddUnitsEffects ==
    ASSUME NEW f, IsDemandFrame(f), IsBatch(f.b), ~isFull(f.b), NEW limits, NEW add \in Nat,
           NEW g, g = addUnits(f, limits, add)
    PROVE  BatchChanged(f, g) /\ g.addPerRound = add
<1>. DEFINE units == f.b.unitPerRound + add
            state == IF units < limits.min THEN f.b.state
                     ELSE IF f.isFirstOfOpen /\ units >= limits.ready THEN "Ready" ELSE "ReadyMin"
            sum == f.b.roundPremiumRateSum + f.rate * add
            c == [f.b EXCEPT !.unitPerRound = units, !.roundPremiumRateSum = sum, !.state = state]
            takes == limits.share > 0
<1>1. units \in Nat
  BY DEF IsBatch
<1>2. state \in {"Draft", "ReadyMin", "Ready", "Full"} /\ state # "Full"
  BY DEF IsBatch, isFull
<1>3. g = [f EXCEPT !.b = c, !.addPerRound = add, !.takeNext = takes]
  <2>1. g = [f EXCEPT !.b.unitPerRound = units, !.b.roundPremiumRateSum = sum, !.b.state = state,
                      !.addPerRound = add, !.takeNext = takes]
    <3>1. g = [f EXCEPT !.b.unitPerRound = units, !.b.roundPremiumRateSum = @ + f.rate * add, !.b.state = state,
                        !.addPerRound = add, !.takeNext = takes]
      BY DEF addUnits
    <3>. HIDE DEF units, state, takes
    <3>. QED
      BY <3>1 DEF IsDemandFrame, DemandFields, IsBatch, BatchFields
  <2>. HIDE DEF units, state, sum, takes
  <2>. QED
    BY <2>1 DEF IsDemandFrame, DemandFields
<1>. HIDE DEF units, state, sum, takes
<1>4. IsBatch(c) /\ ~isFull(c) /\ c.nextBatchNo = f.b.nextBatchNo /\ c.rounds = f.b.rounds
  BY <1>1, <1>2 DEF IsBatch, BatchFields, isFull
<1>. HIDE DEF c
<1>5. IsDemandFrame(g) /\ SameCounts(f, g) /\ g.s = f.s /\ g.openRounds = f.openRounds /\ g.b = c /\ g.addPerRound = add
      /\ g.done = f.done /\ g.panic = f.panic /\ g.updateBatch = f.updateBatch
  BY <1>3 DEF IsDemandFrame, DemandFields, SameCounts
<1>. QED
  BY <1>4, <1>5 DEF BatchChanged

\* A turn goes on after its batch was changed.
LEMMA ChangedIsMid ==
    ASSUME NEW f, NEW L, NEW M, NEW s0, DemandMid(f, L, M, s0), NEW g, BatchChanged(f, g)
    PROVE  DemandMid(g, L, M, s0)
<1>. DEFINE n == f.batchNo
            t == FramePut(f)
            u == FramePut(g)
<1>1. /\ Appendable(f.s, L, n) /\ Appendable(t, M, n) /\ n \in Nat /\ IsStore(f.s)
  BY AppendableFacts DEF DemandMid
<1>2. g.batchNo = n /\ g.s = f.s /\ IsBatch(g.b) /\ ~isFull(g.b) /\ g.b.nextBatchNo = f.b.nextBatchNo /\ g.b.rounds = f.b.rounds
  BY DEF BatchChanged, SameCounts
<1>3. t = PutBatch(f.s, n, f.b) /\ u = PutBatch(f.s, n, g.b)
  BY <1>2 DEF FramePut
<1>. HIDE DEF t, u
<1>4. IsStore(t) /\ SameHeads(f.s, t) /\ t.batchCount = f.s.batchCount /\ BatchAt(t, n) = f.b /\ Elsewhere(f.s, t, n)
  BY <1>1, <1>3, PutBatchStores
<1>5. IsStore(u) /\ SameHeads(f.s, u) /\ u.batchCount = f.s.batchCount /\ BatchAt(u, n) = g.b /\ Elsewhere(f.s, u, n)
  BY <1>1, <1>3, PutBatchStores
<1>6. SameHeads(t, u) /\ u.batchCount = t.batchCount /\ Elsewhere(t, u, n) /\ NextOf(t, n) = g.b.nextBatchNo
  BY <1>2, <1>4, <1>5 DEF SameHeads, Elsewhere, NextOf
<1>7. LastIsEmpty(g.b)
  BY <1>2 DEF LastIsEmpty, DemandMid
<1>8. Appendable(u, M, n)
  BY <1>1, <1>2, <1>5, <1>6, <1>7, PutKeepsStore
<1>9. DemandNumbers(g, L)
  BY DEF DemandMid, BatchChanged, SameCounts, DemandNumbers
<1>. QED
  BY <1>2, <1>8, <1>9 DEF DemandMid, u

(* The frame g after the batch of f was split. *)
FrameSplit(f, g, remaining) ==
    /\ IsDemandFrame(g) /\ SameCounts(f, g) /\ g.openRounds = f.openRounds
    /\ g.done = f.done /\ g.updateBatch = f.updateBatch /\ (f.panic => g.panic)
    /\ g.b.rounds = remaining /\ IsBatch(g.b) /\ g.b.unitPerRound = f.b.unitPerRound
    /\ g.b.totalUnitsBeforeBatch = f.b.totalUnitsBeforeBatch

\* Splitting the batch in hand inside a turn of the demand loop keeps the list.
LEMMA SplitStep ==
    ASSUME NEW f, IsDemandFrame(f), NEW L, NEW M, NEW s0, DemandMid(f, L, M, s0),
           NEW remaining \in Nat, remaining # 0, remaining < f.b.rounds,
           NEW g, g = withSplit(f, splitBatch(f.s, remaining, f.b))
    PROVE  FrameSplit(f, g, remaining) /\ \E K : DemandMid(g, L, K, s0)
<1>. DEFINE n == f.batchNo
            k == f.s.batchCount + 1
            split == splitBatch(f.s, remaining, f.b)
            moved == MovedRounds(f.b, remaining, k)
            t == FramePut(f)
            u == FramePut(g)
<1>1. /\ Appendable(f.s, L, n) /\ Appendable(t, M, n) /\ n \in Nat /\ IsStore(f.s) /\ Linked(f.s, L) /\ L \subseteq M
      /\ IsBatch(f.b) /\ ~isFull(f.b) /\ f.b.nextBatchNo # 0 /\ Frozen(s0, f.s) /\ n \in L
      /\ DemandNumbers(f, L)
  BY AppendableFacts DEF DemandMid, Appendable
<1>2. t = PutBatch(f.s, n, f.b)
  BY DEF FramePut
<1>. HIDE DEF t
<1>3. IsStore(t) /\ SameHeads(f.s, t) /\ t.batchCount = f.s.batchCount /\ BatchAt(t, n) = f.b /\ Elsewhere(f.s, t, n)
      /\ Linked(t, M)
  BY <1>1, <1>2, PutBatchStores, AppendableFacts
<1>4. /\ f.s.batchCount \in Nat /\ k \in Nat /\ k # 0 /\ k \notin L /\ k \notin M /\ n # k /\ f.s.batchCount <= k
      /\ k \notin 1..f.s.batchCount /\ \A j \in Nat : j \notin 1..k => j \notin 1..f.s.batchCount /\ j # k
  <2>. DEFINE count == f.s.batchCount
  <2>1. count \in Nat /\ L \subseteq 1..count /\ M \subseteq 1..count /\ n \in M
    BY <1>1, <1>3 DEF Linked
  <2>. HIDE DEF count
  <2>2. count + 1 \in Nat /\ count + 1 # 0 /\ count + 1 \notin L /\ count + 1 \notin M /\ count <= count + 1 /\ count + 1 \notin 1..count
            /\ n # count + 1 /\ \A j \in Nat : j \notin 1..(count + 1) => j \notin 1..count /\ j # count + 1
    BY <1>1, <2>1, NextNumber
  <2>. QED
    BY <2>1, <2>2 DEF count
<1>5. f.b.rounds \in Nat /\ f.b.rounds # remaining /\ remaining <= f.b.rounds
  BY <1>1 DEF IsBatch
<1>. HIDE DEF split
<1>6. SplitOff(f.s, split.s, k, moved) /\ split.b = KeptRounds(f.b, remaining, k)
  BY <1>1, <1>4, <1>5, SplitEffects DEF split
<1>. HIDE DEF k
<1>7. /\ IsBatch(moved) /\ LastIsEmpty(moved) /\ ~isFull(moved) /\ moved.nextBatchNo = f.b.nextBatchNo
      /\ IsBatch(split.b) /\ ~isFull(split.b) /\ split.b.nextBatchNo = k /\ split.b.rounds = remaining
      /\ split.b.unitPerRound = f.b.unitPerRound /\ split.b.totalUnitsBeforeBatch = f.b.totalUnitsBeforeBatch
  BY <1>1, <1>4, <1>5, <1>6, SplitBatches
<1>. HIDE DEF moved
<1>8. g = [f EXCEPT !.s = split.s, !.b = split.b, !.panic = @ \/ split.panic]
  BY DEF withSplit, split
<1>9. /\ IsDemandFrame(g) /\ SameCounts(f, g) /\ g.openRounds = f.openRounds
      /\ g.done = f.done /\ g.updateBatch = f.updateBatch /\ (f.panic => g.panic)
      /\ g.b = split.b /\ g.s = split.s
  BY <1>8 DEF IsDemandFrame, DemandFields, SameCounts
<1>10. FrameSplit(f, g, remaining)
  BY <1>7, <1>9 DEF FrameSplit
<1>11. IsStore(g.s) /\ SameHeads(f.s, g.s) /\ g.s.batchCount = k /\ BatchAt(g.s, k) = moved /\ Elsewhere(f.s, g.s, k)
  BY <1>6, <1>9 DEF SplitOff
<1>12. u = PutBatch(g.s, n, split.b)
  BY <1>9 DEF FramePut, SameCounts
<1>. HIDE DEF u
<1>13. IsStore(u) /\ SameHeads(g.s, u) /\ u.batchCount = k /\ BatchAt(u, n) = split.b /\ Elsewhere(g.s, u, n)
  BY <1>1, <1>11, <1>12, PutBatchStores
<1>14. SameHeads(t, u) /\ BatchAt(u, k) = moved /\ \A j \in Nat : j # n /\ j # k => BatchAt(u, j) = BatchAt(t, j)
  BY <1>3, <1>4, <1>11, <1>13 DEF SameHeads, Elsewhere
<1>15. moved.nextBatchNo = NextOf(t, n) /\ k = t.batchCount + 1
  BY <1>3, <1>7 DEF NextOf, k
<1>16. Appendable(u, M \cup {k}, n)
  BY <1>1, <1>7, <1>13, <1>14, <1>15, InsertKeepsStore
<1>17. NoOthers(g.s)
  BY <1>1, <1>4, <1>11 DEF Linked, NoOthers, Elsewhere
<1>18. Appendable(g.s, L, n)
  <2>1. \A j \in L : BatchAt(g.s, j) = BatchAt(f.s, j)
    <3>1. L \subseteq Nat
      BY <1>1, LinksAreNumbers
    <3>. QED
      BY <1>4, <1>11, <3>1 DEF Elsewhere
  <2>. QED
    BY <1>1, <1>4, <1>11, <1>17, <2>1, DroppedKeepsStore
<1>19. Frozen(s0, g.s)
  <2>1. ~FullAt(f.s, k)
    <3>1. BatchAt(f.s, k) = NoBatch
      BY <1>1, <1>4 DEF Linked, NoOthers
    <3>. QED
      BY <3>1, NoBatchIsBatch DEF FullAt
  <2>2. Frozen(f.s, g.s)
    BY <1>4, <1>11, <2>1, FrozenPut
  <2>. QED
    BY <1>1, <2>2, FrozenSteps
<1>20. DemandNumbers(g, L)
  BY <1>1, <1>9 DEF SameCounts, DemandNumbers
<1>21. g.batchNo = n
  BY <1>9 DEF SameCounts
<1>22. DemandMid(g, L, M \cup {k}, s0)
  BY <1>1, <1>4, <1>7, <1>9, <1>16, <1>18, <1>19, <1>20, <1>21 DEF DemandMid, u
<1>. QED
  BY <1>10, <1>22

\* Units are added within the limits of the pool.
LEMMA AddToRoundsStep ==
    ASSUME NEW f, IsDemandFrame(f), NEW L, NEW M, NEW s0, DemandMid(f, L, M, s0),
           NEW g, g = addToRounds(f)
    PROVE  /\ BatchChanged(f, g) /\ DemandMid(g, L, M, s0)
           /\ g.addPerRound \in Nat /\ g.addPerRound * g.b.rounds <= g.unitCount
<1>. DEFINE total == adjustedTotalUnits(f.s, f.b.totalUnitsBeforeBatch)
            limits == internalRoundLimits(total, f.b.rounds, f.b.unitPerRound, f.entry.demandedUnits, MaxShare[f.insured])
            add == unitsToAdd(f, limits)
<1>1. g = addUnits(f, limits, add)
  BY DEF addToRounds, addWithinLimits
<1>2. /\ IsBatch(f.b) /\ ~isFull(f.b) /\ f.b.rounds \in Nat \ {0} /\ f.b.unitPerRound \in Nat
      /\ f.b.totalUnitsBeforeBatch \in Nat /\ f.unitCount \in Nat /\ f.insured \in Insureds
      /\ f.entry.demandedUnits \in Nat /\ f.s.pendingCoverage = 0
  BY DEF DemandMid, IsBatch, DemandNumbers, EntryIn, Appendable, EngineStore
<1>3. total \in Nat
  <2>. DEFINE before == f.b.totalUnitsBeforeBatch
  <2>. HIDE DEF before
  <2>1. before \in Nat /\ total = adjustedTotalUnits(f.s, before)
    BY <1>2 DEF before
  <2>2. total = IF 0 >= before THEN 0 ELSE before - 0
    BY <1>2, <2>1 DEF adjustedTotalUnits
  <2>. HIDE DEF total
  <2>. QED
    BY <2>1, <2>2
<1>4. MaxShare[f.insured] \in Nat
  <2>1. MaxShare \in [Insureds -> 1..ONE] /\ f.insured \in Insureds
    BY <1>2, RoundsAssumption
  <2>2. MaxShare[f.insured] \in 1..ONE
    BY ONLY <2>1
  <2>3. \A x \in 1..ONE : x \in Nat
    BY DEF ONE
  <2>. QED
    BY <2>2, <2>3
<1>. HIDE DEF total
<1>5. limits.share \in Nat /\ limits.max \in Nat
  BY <1>2, <1>3, <1>4, ShareIsNumber
<1>. HIDE DEF limits
<1>6. add \in Nat /\ add * f.b.rounds <= f.unitCount
  BY <1>2, <1>5, UnitsFit
<1>. HIDE DEF add
<1>7. BatchChanged(f, g) /\ g.addPerRound = add
  BY <1>1, <1>2, <1>6, AddUnitsEffects
<1>8. DemandMid(g, L, M, s0)
  BY <1>7, ChangedIsMid
<1>9. g.b.rounds = f.b.rounds /\ g.unitCount = f.unitCount
  BY <1>7 DEF BatchChanged, SameCounts
<1>. QED
  BY <1>6, <1>7, <1>8, <1>9

(* What is known of a frame when units were added, or not, to its batch. *)
UnitsPlaced(f, g, L, s0) ==
    /\ IsDemandFrame(g) /\ (f.panic => g.panic)
    /\ \E M : DemandMid(g, L, M, s0)
    /\ g.addPerRound \in Nat /\ g.addPerRound * g.b.rounds <= g.unitCount

\* A turn that adds no units to the batch leaves the list as it was.
LEMMA NothingAdded ==
    ASSUME NEW f, IsDemandFrame(f), NEW L, NEW M, NEW s0, DemandMid(f, L, M, s0), NEW takes,
           NEW g, g = [f EXCEPT !.addPerRound = 0, !.takeNext = takes] \/ g = [f EXCEPT !.addPerRound = 0]
    PROVE  UnitsPlaced(f, g, L, s0)
<1>1. BatchChanged(f, g) /\ g.addPerRound = 0
  BY DEF IsDemandFrame, DemandFields, BatchChanged, SameCounts, DemandMid
<1>2. DemandMid(g, L, M, s0)
  BY <1>1, ChangedIsMid
<1>3. IsDemandFrame(g) /\ (f.panic => g.panic)
  BY <1>1 DEF BatchChanged
<1>4. g.b.rounds \in Nat /\ g.unitCount \in Nat
  BY <1>2 DEF DemandMid, DemandNumbers, IsBatch
<1>5. g.addPerRound \in Nat /\ g.addPerRound * g.b.rounds <= g.unitCount
  BY <1>1, <1>4
<1>. QED
  BY <1>2, <1>3, <1>5 DEF UnitsPlaced

\* internalBatchSplit returns the rounds it was given or none.
LEMMA SplitSize ==
    ASSUME NEW demandedUnits, NEW minUnits, NEW batchRounds, NEW remainingUnits
    PROVE  internalBatchSplit(demandedUnits, minUnits, batchRounds, remainingUnits) \in {0, remainingUnits}
  BY DEF internalBatchSplit

\* addToBatch as a whole.
LEMMA AddToBatchStep ==
    ASSUME NEW f, IsDemandFrame(f), NEW L, NEW M, NEW s0, DemandMid(f, L, M, s0),
           NEW g, g = addToBatch(f)
    PROVE  UnitsPlaced(f, g, L, s0)
<1>. DEFINE splitRounds == internalBatchSplit(f.entry.demandedUnits, MinUnits[f.insured], f.b.rounds, f.unitCount)
            armA == f.unitCount >= f.b.rounds
            armB == f.unitCount < f.b.rounds /\ splitRounds = 0
            h == withSplit(f, splitBatch(f.s, splitRounds, f.b))
            ra == addToRounds(f)
            rb == [f EXCEPT !.addPerRound = 0, !.takeNext = FALSE]
            rc == addToRounds(h)
<1>1. g = CASE armA -> ra [] armB -> rb [] OTHER -> rc
  BY DEF addToBatch
<1>2. f.unitCount \in Nat /\ f.b.rounds \in Nat
  BY DEF DemandMid, DemandNumbers, IsBatch
<1>3. splitRounds \in {0, f.unitCount}
  BY SplitSize
<1>. HIDE DEF splitRounds
<1>4. ~armA /\ ~armB => splitRounds = f.unitCount /\ splitRounds # 0 /\ splitRounds \in Nat /\ splitRounds < f.b.rounds
  BY <1>2, <1>3
<1>5. armA => ~armB
  BY <1>2
<1>6. UnitsPlaced(f, ra, L, s0)
  <2>. HIDE DEF ra
  <2>1. ra = addToRounds(f)
    BY DEF ra
  <2>2. BatchChanged(f, ra) /\ DemandMid(ra, L, M, s0) /\ ra.addPerRound \in Nat /\ ra.addPerRound * ra.b.rounds <= ra.unitCount
    BY <2>1, AddToRoundsStep
  <2>. QED
    BY <2>2 DEF UnitsPlaced, BatchChanged
<1>7. UnitsPlaced(f, rb, L, s0)
  BY NothingAdded
<1>8. ~armA /\ ~armB => UnitsPlaced(f, rc, L, s0)
  <2> SUFFICES ASSUME ~armA, ~armB PROVE UnitsPlaced(f, rc, L, s0)
    OBVIOUS
  <2>. HIDE DEF armA, armB, h, rc
  <2>1. FrameSplit(f, h, splitRounds) /\ \E K : DemandMid(h, L, K, s0)
    BY <1>4, SplitStep DEF h
  <2>2. PICK K : DemandMid(h, L, K, s0)
    BY <2>1
  <2>3. IsDemandFrame(h) /\ (f.panic => h.panic)
    BY <2>1 DEF FrameSplit
  <2>4. rc = addToRounds(h)
    BY DEF rc
  <2>5. BatchChanged(h, rc) /\ DemandMid(rc, L, K, s0) /\ rc.addPerRound \in Nat /\ rc.addPerRound * rc.b.rounds <= rc.unitCount
    BY <2>2, <2>3, <2>4, AddToRoundsStep
  <2>. QED
    BY <2>3, <2>5 DEF UnitsPlaced, BatchChanged
<1>. HIDE DEF armA, armB, ra, rb, rc
<1>9. g = ra \/ g = rb \/ (~armA /\ ~armB /\ g = rc)
  BY <1>1, <1>5
<1>. QED
  BY <1>6, <1>7, <1>8, <1>9

\* The batch becomes the first open one.
LEMMA OpenKeeps ==
    ASSUME NEW s, NEW L, NEW n, Appendable(s, L, n), NEW u, Moved(s, u, s.partial, n)
    PROVE  Appendable(u, L, n) /\ Frozen(s, u)
<1>1. /\ Linked(s, L) /\ s.openRounds \in Nat /\ s.pendingCoverage = 0 /\ InsuredsIn(s.insureds, L)
      /\ n \in L /\ ~FullAt(s, n) /\ s.partial.batchNo \in L /\ s.partial.batchNo # 0
  BY AppendableFacts, LinksAreNumbers DEF Appendable, EngineStore
<1>2. /\ IsPart(s.partial) /\ PartFits(s.partial, BatchAt(s, s.partial.batchNo)) /\ ~FullAt(s, s.partial.batchNo)
      /\ \A k \in L : NextOf(s, k) = s.partial.batchNo => FullAt(s, k)
  BY <1>1 DEF Appendable, EngineStore, PartialPlaced
<1>3. EngineStore(u, L) /\ Frozen(s, u) /\ \A k : FullAt(u, k) <=> FullAt(s, k)
  BY <1>1, <1>2, MovedKeeps
<1>4. Untouched(u, n)
  BY DEF Moved, Untouched, Appendable
<1>. QED
  BY <1>1, <1>3, <1>4 DEF Appendable

\* ... in the frame, too.
LEMMA OpenMovedIsMid ==
    ASSUME NEW f, IsDemandFrame(f), NEW L, NEW M, NEW s0, DemandMid(f, L, M, s0),
           NEW g, g = [f EXCEPT !.s.firstOpenBatchNo = f.batchNo, !.isFirstOfOpen = FALSE]
    PROVE  /\ IsDemandFrame(g) /\ g.panic = f.panic /\ g.done = f.done /\ SameCounts(f, g)
           /\ g.b = f.b /\ g.addPerRound = f.addPerRound
           /\ DemandMid(g, L, M, s0)
<1>. DEFINE n == f.batchNo
            s == [f.s EXCEPT !.firstOpenBatchNo = n]
            t == FramePut(f)
            u == FramePut(g)
<1>1. /\ Appendable(f.s, L, n) /\ Appendable(t, M, n) /\ n \in Nat /\ IsStore(f.s) /\ Frozen(s0, f.s)
  BY AppendableFacts DEF DemandMid
<1>2. g = [f EXCEPT !.s = s, !.isFirstOfOpen = FALSE]
  BY DEF IsDemandFrame, DemandFields
<1>3. Moved(f.s, s, f.s.partial, n)
  BY <1>1 DEF Moved, IsStore, StoreFields
<1>. HIDE DEF s
<1>4. Appendable(s, L, n) /\ Frozen(s0, s)
  <2>1. Appendable(s, L, n) /\ Frozen(f.s, s)
    BY <1>1, <1>3, OpenKeeps
  <2>. QED
    BY <1>1, <2>1, FrozenSteps
<1>5. /\ IsDemandFrame(g) /\ g.panic = f.panic /\ g.done = f.done /\ SameCounts(f, g)
      /\ g.b = f.b /\ g.addPerRound = f.addPerRound /\ g.s = s /\ g.openRounds = f.openRounds
  BY <1>2 DEF IsDemandFrame, DemandFields, SameCounts
<1>6. t = PutBatch(f.s, n, f.b) /\ u = PutBatch(s, n, f.b)
  BY <1>5 DEF FramePut, SameCounts
<1>. HIDE DEF t, u
<1>7. Moved(t, u, t.partial, n)
  <2>. DEFINE q == Put(f.s.batches, n, f.b)
  <2>1. s.batches = f.s.batches
    BY <1>3 DEF Moved
  <2>2. t = [f.s EXCEPT !.batches = q] /\ u = [s EXCEPT !.batches = q]
    BY <1>6, <2>1 DEF PutBatch
  <2>. HIDE DEF q
  <2>. QED
    BY <1>1, <1>3, <2>2 DEF Moved, IsStore, StoreFields
<1>8. Appendable(u, M, n)
  BY <1>1, <1>7, OpenKeeps
<1>9. DemandNumbers(g, L)
  BY <1>5 DEF DemandMid, SameCounts, DemandNumbers
<1>10. g.batchNo = n
  BY <1>5 DEF SameCounts
<1>11. DemandMid(g, L, M, s0)
  BY <1>4, <1>5, <1>8, <1>9, <1>10 DEF DemandMid, u
<1>. QED
  BY <1>5, <1>11

\* ... and the end of the turn when nothing was put into the batch.
LEMMA AddToOpenBatchStep ==
    ASSUME NEW f, IsDemandFrame(f), NEW L, NEW M, NEW s0, DemandMid(f, L, M, s0), ~f.done,
           NEW g, g = addToOpenBatch(f)
    PROVE  /\ IsDemandFrame(g) /\ (f.panic => g.panic)
           /\ g.done => \E K : DemandFinished(g, K, s0)
           /\ ~g.done => UnitsPlaced(f, g, L, s0)
<1>1. CASE ~isOpen(f.b)
  <2>1. g = [f EXCEPT !.addPerRound = 0]
    <3>. DEFINE armA == f.done
                armB == ~f.done /\ ~isOpen(f.b)
                rb == [f EXCEPT !.addPerRound = 0]
                rc == keepFirstOpen(unitsAdded(addToBatch(f)))
    <3>1. g = CASE armA -> f [] armB -> rb [] OTHER -> rc
      BY DEF addToOpenBatch
    <3>2. ~armA /\ armB
      BY <1>1
    <3>. HIDE DEF armA, armB, rb, rc
    <3>3. g = rb
      BY <3>1, <3>2
    <3>. QED
      BY <3>3 DEF rb
  <2>2. UnitsPlaced(f, g, L, s0)
    BY <2>1, NothingAdded
  <2>3. PICK K : DemandMid(g, L, K, s0)
    BY <2>2 DEF UnitsPlaced
  <2>4. \E J : DemandFinished(g, J, s0)
    BY <2>3, MidIsFinished
  <2>. QED
    BY <2>2, <2>4 DEF UnitsPlaced
<1>2. CASE isOpen(f.b)
  <2>. DEFINE a == addToBatch(f)
              b == unitsAdded(a)
  <2>1. g = keepFirstOpen(b)
    <3>. DEFINE armA == f.done
                armB == ~f.done /\ ~isOpen(f.b)
                rb == [f EXCEPT !.addPerRound = 0]
                rc == keepFirstOpen(unitsAdded(addToBatch(f)))
    <3>1. g = CASE armA -> f [] armB -> rb [] OTHER -> rc
      BY DEF addToOpenBatch
    <3>2. ~armA /\ ~armB
      BY <1>2
    <3>. HIDE DEF armA, armB, rb, rc
    <3>3. g = rc
      BY <3>1, <3>2
    <3>. QED
      BY <3>3 DEF rc
  <2>2. UnitsPlaced(f, a, L, s0)
    BY AddToBatchStep
  <2>. HIDE DEF a
  <2>3. PICK K : DemandMid(a, L, K, s0)
    BY <2>2 DEF UnitsPlaced
  <2>. DEFINE update == (a.updateBatch \/ a.addPerRound > 0) /\ a.b.unitPerRound # 0
              empty == a.b.unitPerRound = 0
  <2>4. b = [a EXCEPT !.updateBatch = update, !.done = empty]
    BY DEF unitsAdded
  <2>. HIDE DEF update, empty
  <2>5. /\ IsDemandFrame(b) /\ b.panic = a.panic /\ SameCounts(a, b) /\ b.s = a.s /\ b.b = a.b
        /\ b.openRounds = a.openRounds /\ b.addPerRound = a.addPerRound /\ b.updateBatch = update /\ b.done = empty
    BY <2>2, <2>4 DEF UnitsPlaced, IsDemandFrame, DemandFields, SameCounts
  <2>. HIDE DEF b
  <2>6. DemandMid(b, L, K, s0)
    <3>1. FramePut(b) = FramePut(a)
      BY <2>5 DEF FramePut, SameCounts
    <3>. QED
      BY <2>3, <2>5, <3>1 DEF DemandMid, SameCounts, DemandNumbers
  <2>7. CASE b.done
    <3>1. g = b
      BY <2>1, <2>7 DEF keepFirstOpen
    <3>2. ~b.updateBatch
      BY <2>5, <2>7 DEF update, empty
    <3>3. FrameStored(b) = b.s
      BY <3>2 DEF FrameStored
    <3>4. DemandFinished(b, L, s0)
      BY <2>6, <3>3 DEF DemandFinished, DemandMid
    <3>. QED
      BY <2>2, <2>5, <2>7, <3>1, <3>4 DEF UnitsPlaced
  <2>8. CASE ~b.done
    <3>1. IsDemandFrame(b) /\ (f.panic => b.panic) /\ b.addPerRound \in Nat /\ b.addPerRound * b.b.rounds <= b.unitCount
      BY <2>2, <2>5 DEF UnitsPlaced, SameCounts
    <3>2. CASE ~b.isFirstOfOpen \/ ~isOpen(b.b)
      <4>1. g = b
        BY <2>1, <3>2 DEF keepFirstOpen
      <4>. QED
        BY <2>6, <2>8, <3>1, <4>1 DEF UnitsPlaced
    <3>3. CASE ~(~b.isFirstOfOpen \/ ~isOpen(b.b))
      <4>1. g = [b EXCEPT !.s.firstOpenBatchNo = b.batchNo, !.isFirstOfOpen = FALSE]
        BY <2>1, <2>8, <3>3 DEF keepFirstOpen
      <4>2. /\ IsDemandFrame(g) /\ g.panic = b.panic /\ g.done = b.done /\ SameCounts(b, g)
            /\ g.b = b.b /\ g.addPerRound = b.addPerRound /\ DemandMid(g, L, K, s0)
        BY <2>5, <2>6, <4>1, OpenMovedIsMid
      <4>. QED
        BY <2>8, <3>1, <4>2 DEF UnitsPlaced, SameCounts
    <3>. QED
      BY <3>2, <3>3
  <2>. QED
    BY <2>7, <2>8
<1>. QED
  BY <1>1, <1>2

-----------------------------------------------------------------------------
(* The rest of a turn.                                                     *)

(* A frame that differs in the record of the demand only. *)
SameButSlot(f, g) ==
    /\ IsDemandFrame(g) /\ SameCounts(f, g) /\ g.s = f.s /\ g.b = f.b /\ g.openRounds = f.openRounds
    /\ g.updateBatch = f.updateBatch /\ g.panic = f.panic

\* Recording the demand of the insured keeps the list.
LEMMA RecordStep ==
    ASSUME NEW f, IsDemandFrame(f), NEW L, NEW M, NEW s0, DemandMid(f, L, M, s0), ~f.done,
           f.addPerRound \in Nat, f.addPerRound * f.b.rounds <= f.unitCount,
           NEW g, g = recordSlot(f)
    PROVE  IsDemandFrame(g) /\ g.panic = f.panic /\ DemandMid(g, L, M, s0)
<1>. DEFINE units == f.addPerRound * f.b.rounds
            armA == f.b.rounds = 0
            armB == f.b.rounds > 0 /\ continuesSlot(f)
            rb == [f EXCEPT !.demand.rounds = @ + f.b.rounds]
            rc == [f EXCEPT !.log = PushDemand(@, f.demand),
                            !.demand = [startBatchNo |-> f.batchNo, premiumRate |-> f.rate,
                                        rounds |-> f.b.rounds, unitPerRound |-> f.addPerRound]]
            slot == CASE armA -> f [] armB -> rb [] OTHER -> rc
            left == f.unitCount - units
            ends == ~f.takeNext
<1>1. SameButSlot(f, f) /\ SameButSlot(f, rb) /\ SameButSlot(f, rc)
  BY DEF SameButSlot, IsDemandFrame, DemandFields, SameCounts
<1>2. g = [slot EXCEPT !.unitCount = @ - units, !.entry.demandedUnits = @ + units, !.done = ends]
  BY DEF recordSlot
<1>3. SameButSlot(f, slot)
  <2>. HIDE DEF armA, armB, rb, rc
  <2>1. slot = f \/ slot = rb \/ slot = rc
    OBVIOUS
  <2>. QED
    BY <1>1, <2>1
<1>. HIDE DEF slot, ends
<1>4. /\ f.addPerRound \in Nat /\ f.b.rounds \in Nat /\ f.unitCount \in Nat /\ f.entry.demandedUnits \in Nat
      /\ EntryIn(f.entry, L)
  BY DEF DemandMid, DemandNumbers, IsBatch, EntryIn
<1>5. units \in Nat /\ left \in Nat
  <2>1. units \in Nat
    BY <1>4
  <2>. QED
    BY <1>4, <2>1
<1>. HIDE DEF units, left
<1>. DEFINE more == f.entry.demandedUnits + units
            entry == [f.entry EXCEPT !.demandedUnits = more]
<1>6. more \in Nat
  BY <1>4, <1>5
<1>7. g = [slot EXCEPT !.unitCount = left, !.entry = entry, !.done = ends]
  <2>1. slot.unitCount = f.unitCount /\ slot.entry = f.entry /\ DOMAIN slot = DemandFields
    BY <1>3 DEF SameButSlot, SameCounts, IsDemandFrame
  <2>2. DOMAIN f.entry = {"nextBatchNo", "demandedUnits", "status"}
    BY <1>4 DEF EntryIn
  <2>3. left = f.unitCount - units
    BY DEF left
  <2>. QED
    BY <1>2, <2>1, <2>2, <2>3 DEF DemandFields
<1>. HIDE DEF more
<1>8. EntryIn(entry, L)
  BY <1>4, <1>6 DEF EntryIn
<1>. HIDE DEF entry
<1>9. /\ IsDemandFrame(g) /\ g.panic = f.panic /\ g.s = f.s /\ g.b = f.b /\ g.batchNo = f.batchNo
      /\ g.openRounds = f.openRounds /\ g.partialRounds = f.partialRounds /\ g.insured = f.insured
      /\ g.unitCount = left /\ g.entry = entry
  BY <1>3, <1>7 DEF SameButSlot, SameCounts, IsDemandFrame, DemandFields
<1>10. DemandNumbers(g, L)
  BY <1>5, <1>8, <1>9 DEF DemandMid, DemandNumbers
<1>11. FramePut(g) = FramePut(f)
  BY <1>9 DEF FramePut
<1>. QED
  BY <1>9, <1>10, <1>11 DEF DemandMid

\* The turn ends with the next batch.
LEMMA TakeNextStep ==
    ASSUME NEW f, IsDemandFrame(f), NEW L, NEW M, NEW s0, DemandMid(f, L, M, s0), ~f.done,
           NEW g, g = takeNextBatch(f)
    PROVE  IsDemandFrame(g) /\ g.panic = f.panic /\ DemandBetween(g, M, s0)
<1>. DEFINE n == f.batchNo
            q == f.b.nextBatchNo
            s == FramePut(f)
            next == BatchAt(s, q)
            total == f.b.totalUnitsBeforeBatch + UnitsOf(f.b)
            c == [next EXCEPT !.totalUnitsBeforeBatch = total]
            update == next.totalUnitsBeforeBatch # total
            ends == f.unitCount = 0 \/ f.loopLimit = 0
            entry == [f.entry EXCEPT !.nextBatchNo = q]
<1>1. /\ Appendable(f.s, L, n) /\ Appendable(s, M, n) /\ n \in Nat /\ IsStore(f.s) /\ IsBatch(f.b) /\ q # 0
      /\ DemandNumbers(f, L) /\ L \subseteq M
  BY AppendableFacts DEF DemandMid
<1>2. Frozen(s0, s)
  BY MidIsFrozen
<1>3. BatchAt(s, n) = f.b
  <2>1. s = PutBatch(f.s, n, f.b)
    BY DEF FramePut
  <2>. HIDE DEF s
  <2>. QED
    BY <1>1, <2>1, PutBatchStores
<1>4. g = [f EXCEPT !.s = s, !.batchNo = q, !.entry = entry, !.b = c, !.updateBatch = update, !.done = ends]
  <2>1. g = [f EXCEPT !.s = PutBatch(f.s, f.batchNo, f.b), !.batchNo = f.b.nextBatchNo, !.entry.nextBatchNo = f.b.nextBatchNo,
                      !.b = [BatchAt(PutBatch(f.s, f.batchNo, f.b), f.b.nextBatchNo) EXCEPT
                                !.totalUnitsBeforeBatch = f.b.totalUnitsBeforeBatch + UnitsOf(f.b)],
                      !.updateBatch = BatchAt(PutBatch(f.s, f.batchNo, f.b), f.b.nextBatchNo).totalUnitsBeforeBatch
                                      # f.b.totalUnitsBeforeBatch + UnitsOf(f.b),
                      !.done = ends]
    BY DEF takeNextBatch
  <2>. HIDE DEF ends
  <2>2. g = [f EXCEPT !.s = s, !.batchNo = q, !.entry.nextBatchNo = q, !.b = c, !.updateBatch = update, !.done = ends]
    BY <2>1 DEF FramePut
  <2>. HIDE DEF c, update, s, q
  <2>. QED
    BY <2>2 DEF IsDemandFrame, DemandFields
<1>. HIDE DEF s, c, update, ends, entry
<1>5. Linked(s, M) /\ NextOf(s, n) = q /\ n \in M /\ ~FullAt(s, n) /\ q # s.partial.batchNo /\ EngineStore(s, M)
  BY <1>1, <1>3, AppendableFacts DEF Appendable, NextOf
<1>6. q \in M /\ ~FullAt(s, q)
  <2>1. NextOf(s, n) \in M \cup {0}
    BY <1>5 DEF Linked
  <2>2. ~FullAt(s, q)
    BY <1>1, <1>5 DEF Linked
  <2>. QED
    BY <1>1, <1>5, <2>1, <2>2
<1>7. Appendable(s, M, q)
  BY <1>5, <1>6 DEF Appendable, Untouched
<1>8. IsBatch(next) /\ f.b.rounds \in Nat /\ f.b.unitPerRound \in Nat /\ f.b.totalUnitsBeforeBatch \in Nat
  BY <1>1, <1>5, <1>6 DEF Linked, IsBatch
<1>9. total \in Nat
  <2>1. f.b.rounds * f.b.unitPerRound \in Nat
    BY <1>8
  <2>. QED
    BY <1>8, <2>1 DEF UnitsOf
<1>. HIDE DEF total, next, q
<1>10. IsBatch(c) /\ SameButTotal(c, next) /\ (~update => c = next)
  BY <1>8, <1>9 DEF c, update, IsBatch, BatchFields, SameButTotal
<1>11. EntryIn(entry, M)
  <2>1. f.entry \in [nextBatchNo : L \cup {0}, demandedUnits : Nat, status : {"Accepted", "Declined"}]
    BY <1>1 DEF DemandNumbers, EntryIn
  <2>. QED
    BY <1>6, <2>1 DEF EntryIn, entry
<1>12. /\ IsDemandFrame(g) /\ g.panic = f.panic /\ g.s = s /\ g.batchNo = q /\ g.entry = entry /\ g.b = c
       /\ g.updateBatch = update /\ g.insured = f.insured /\ g.openRounds = f.openRounds
       /\ g.partialRounds = f.partialRounds /\ g.unitCount = f.unitCount
  BY <1>4 DEF IsDemandFrame, DemandFields
<1>13. DemandNumbers(g, M)
  BY <1>1, <1>11, <1>12 DEF DemandNumbers
<1>14. BatchAt(s, q) = next
  BY DEF next
<1>15. DemandBetween(g, M, s0)
  BY <1>2, <1>7, <1>10, <1>12, <1>13, <1>14 DEF DemandBetween
<1>. QED
  BY <1>12, <1>15

(* A failure stays in the frame. *)
StillFails(f, g) == IsDemandFrame(g) /\ (f.panic => g.panic)

\* addUnits takes a failed call to a failed call.
LEMMA UnitsKeepPanic ==
    ASSUME NEW f, IsDemandFrame(f), NEW limits, NEW add
    PROVE  StillFails(f, addUnits(f, limits, add))
<1>. DEFINE units == f.b.unitPerRound + add
            state == IF units < limits.min THEN f.b.state
                     ELSE IF f.isFirstOfOpen /\ units >= limits.ready THEN "Ready" ELSE "ReadyMin"
            takes == limits.share > 0
            g == addUnits(f, limits, add)
<1>1. g = [f EXCEPT !.b.unitPerRound = units, !.b.roundPremiumRateSum = @ + f.rate * add, !.b.state = state,
                    !.addPerRound = add, !.takeNext = takes]
  BY DEF addUnits
<1>. HIDE DEF units, state, takes, g
<1>2. IsDemandFrame(g) /\ g.panic = f.panic
  BY <1>1 DEF IsDemandFrame, DemandFields
<1>. QED
  BY <1>2 DEF StillFails, g

\* addToBatch takes a failed call to a failed call.
LEMMA BatchKeepsPanic ==
    ASSUME NEW f, IsDemandFrame(f)
    PROVE  StillFails(f, addToBatch(f))
<1>1. \A h : IsDemandFrame(h) => StillFails(h, addToRounds(h))
  BY UnitsKeepPanic DEF addToRounds, addWithinLimits
<1>. DEFINE splitRounds == internalBatchSplit(f.entry.demandedUnits, MinUnits[f.insured], f.b.rounds, f.unitCount)
            split == splitBatch(f.s, splitRounds, f.b)
            h == withSplit(f, split)
            armA == f.unitCount >= f.b.rounds
            armB == f.unitCount < f.b.rounds /\ splitRounds = 0
            ra == addToRounds(f)
            rb == [f EXCEPT !.addPerRound = 0, !.takeNext = FALSE]
            rc == addToRounds(h)
            g == addToBatch(f)
<1>2. g = CASE armA -> ra [] armB -> rb [] OTHER -> rc
  BY DEF addToBatch
<1>3. StillFails(f, rb)
  BY DEF StillFails, IsDemandFrame, DemandFields
<1>4. StillFails(f, h)
  <2>. HIDE DEF split
  <2>. QED
    BY DEF withSplit, StillFails, IsDemandFrame, DemandFields
<1>. HIDE DEF h
<1>5. StillFails(f, ra) /\ StillFails(f, rc)
  BY <1>1, <1>4 DEF StillFails
<1>. HIDE DEF armA, armB, ra, rb, rc, g
<1>6. g = ra \/ g = rb \/ g = rc
  BY <1>2
<1>. QED
  BY <1>3, <1>5, <1>6 DEF g

\* The stages of a turn of the demand loop take a failed call to a failed call.
LEMMA StagesKeepPanic ==
    ASSUME NEW f, IsDemandFrame(f)
    PROVE  /\ StillFails(f, appendRounds(f)) /\ StillFails(f, addToOpenBatch(f))
           /\ StillFails(f, recordSlot(f)) /\ StillFails(f, takeNextBatch(f))
<1>1. StillFails(f, appendRounds(f))
  <2>. DEFINE appended == internalBatchAppend(f.openRounds, f.unitCount)
              n == f.s.batchCount + 1
              isLast == f.b.nextBatchNo = 0
              armA == f.b.rounds # 0
              armB == f.b.rounds = 0 /\ appended.rounds = 0
              rb == [f EXCEPT !.done = TRUE, !.panic = @ \/ appended.panic]
              rc == [f EXCEPT !.b.rounds = appended.rounds,
                              !.b.nextBatchNo = IF isLast THEN n ELSE @,
                              !.openRounds = @ + appended.rounds,
                              !.updateBatch = TRUE,
                              !.s = IF isLast THEN [initTimeMark(@, n) EXCEPT !.batchCount = n, !.latestBatchNo = n]
                                    ELSE @]
              g == appendRounds(f)
  <2>1. g = CASE armA -> f [] armB -> rb [] OTHER -> rc
    BY DEF appendRounds
  <2>. HIDE DEF appended, n, isLast
  <2>2. StillFails(f, f) /\ StillFails(f, rb) /\ StillFails(f, rc)
    BY DEF StillFails, IsDemandFrame, DemandFields
  <2>. HIDE DEF armA, armB, rb, rc, g
  <2>3. g = f \/ g = rb \/ g = rc
    BY <2>1
  <2>. QED
    BY <2>2, <2>3 DEF g
<1>2. StillFails(f, addToOpenBatch(f))
  <2>. DEFINE a == addToBatch(f)
              armB == ~f.done /\ ~isOpen(f.b)
              rb == [f EXCEPT !.addPerRound = 0]
              rc == keepFirstOpen(unitsAdded(a))
              g == addToOpenBatch(f)
              armA == f.done
  <2>1. g = CASE armA -> f [] armB -> rb [] OTHER -> rc
    BY DEF addToOpenBatch
  <2>2. StillFails(f, f) /\ StillFails(f, rb)
    BY DEF StillFails, IsDemandFrame, DemandFields
  <2>3. StillFails(f, a)
    BY BatchKeepsPanic
  <2>. HIDE DEF a
  <2>4. StillFails(f, unitsAdded(a))
    BY <2>3 DEF StillFails, unitsAdded, IsDemandFrame, DemandFields
  <2>5. StillFails(f, rc)
    BY <2>4 DEF StillFails, keepFirstOpen, IsDemandFrame, DemandFields
  <2>. HIDE DEF armA, armB, rb, rc, g
  <2>6. g = f \/ g = rb \/ g = rc
    BY <2>1
  <2>. QED
    BY <2>2, <2>5, <2>6 DEF g
<1>3. StillFails(f, recordSlot(f))
  <2>. DEFINE units == f.addPerRound * f.b.rounds
              armA == f.b.rounds = 0
              armB == f.b.rounds > 0 /\ continuesSlot(f)
              rb == [f EXCEPT !.demand.rounds = @ + f.b.rounds]
              rc == [f EXCEPT !.log = PushDemand(@, f.demand),
                              !.demand = [startBatchNo |-> f.batchNo, premiumRate |-> f.rate,
                                          rounds |-> f.b.rounds, unitPerRound |-> f.addPerRound]]
              slot == CASE armA -> f [] armB -> rb [] OTHER -> rc
              ends == ~f.takeNext
              g == recordSlot(f)
  <2>1. StillFails(f, f) /\ StillFails(f, rb) /\ StillFails(f, rc)
    BY DEF StillFails, IsDemandFrame, DemandFields
  <2>2. g = IF f.done THEN f
            ELSE [slot EXCEPT !.unitCount = @ - units, !.entry.demandedUnits = @ + units, !.done = ends]
    BY DEF recordSlot
  <2>3. StillFails(f, slot)
    <3>. HIDE DEF armA, armB, rb, rc
    <3>1. slot = f \/ slot = rb \/ slot = rc
      OBVIOUS
    <3>. QED
      BY <2>1, <3>1
  <2>. HIDE DEF slot, units, ends
  <2>. QED
    BY <2>1, <2>2, <2>3 DEF StillFails, IsDemandFrame, DemandFields
<1>4. StillFails(f, takeNextBatch(f))
  BY DEF StillFails, takeNextBatch, IsDemandFrame, DemandFields
<1>. QED
  BY <1>1, <1>2, <1>3, <1>4

\* A stage leaves a frame alone that is done.
LEMMA StagesStop ==
    ASSUME NEW f, f.done
    PROVE  addToOpenBatch(f) = f /\ recordSlot(f) = f /\ takeNextBatch(f) = f
<1>1. addToOpenBatch(f) = f
  <2>. DEFINE armA == f.done
              armB == ~f.done /\ ~isOpen(f.b)
              rb == [f EXCEPT !.addPerRound = 0]
              rc == keepFirstOpen(unitsAdded(addToBatch(f)))
  <2>1. addToOpenBatch(f) = CASE armA -> f [] armB -> rb [] OTHER -> rc
    BY DEF addToOpenBatch
  <2>2. armA /\ ~armB
    OBVIOUS
  <2>. HIDE DEF armA, armB, rb, rc
  <2>. QED
    BY <2>1, <2>2
<1>2. recordSlot(f) = f
  BY Zenon DEF recordSlot
<1>3. takeNextBatch(f) = f
  BY Zenon DEF takeNextBatch
<1>. QED
  BY <1>1, <1>2, <1>3

\* A turn of the loop.
LEMMA DemandStepKeeps ==
    ASSUME NEW f, NEW s0, DemandGood(f, s0)
    PROVE  DemandGood(addDemandStep(f), s0)
<1>. DEFINE h == [f EXCEPT !.loopLimit = @ - 1]
            a == appendRounds(h)
            b == addToOpenBatch(a)
            c == recordSlot(b)
            d == takeNextBatch(c)
            g == addDemandStep(f)
<1>1. CASE f.done
  BY <1>1 DEF addDemandStep
<1>2. CASE ~f.done
  <2>1. g = d
    BY <1>2 DEF addDemandStep
  <2>2. /\ IsDemandFrame(h) /\ h.panic = f.panic /\ h.done = f.done /\ SameCounts(f, h) /\ h.s = f.s /\ h.b = f.b
        /\ h.openRounds = f.openRounds /\ h.updateBatch = f.updateBatch
    BY DEF DemandGood, IsDemandFrame, DemandFields, SameCounts
  <2>. HIDE DEF g, h
  <2>3. IsDemandFrame(a) /\ (h.panic => a.panic)
    BY <2>2, StagesKeepPanic DEF StillFails
  <2>. HIDE DEF a
  <2>4. IsDemandFrame(b) /\ (a.panic => b.panic)
    BY <2>3, StagesKeepPanic DEF StillFails
  <2>. HIDE DEF b
  <2>5. IsDemandFrame(c) /\ (b.panic => c.panic)
    BY <2>4, StagesKeepPanic DEF StillFails
  <2>. HIDE DEF c
  <2>6. IsDemandFrame(d) /\ (c.panic => d.panic)
    BY <2>5, StagesKeepPanic DEF StillFails
  <2>. HIDE DEF d
  <2>7. CASE f.panic
    BY <2>1, <2>2, <2>3, <2>4, <2>5, <2>6, <2>7 DEF DemandGood, g
  <2>8. CASE ~f.panic
    <3>1. PICK L : DemandBetween(f, L, s0)
      BY <1>2, <2>8 DEF DemandGood
    <3>2. DemandBetween(h, L, s0)
      BY <2>2, <3>1 DEF DemandBetween, DemandNumbers, SameCounts
    <3>3. /\ a.done => DemandFinished(a, L, s0)
          /\ ~a.done => \E M : DemandMid(a, L, M, s0)
      BY <1>2, <2>2, <3>2, AppendStep DEF a
    <3>4. CASE a.done
      <4>1. b = a
        BY <3>4, StagesStop DEF b
      <4>2. c = b
        BY <3>4, <4>1, StagesStop DEF c
      <4>3. d = c
        BY <3>4, <4>1, <4>2, StagesStop DEF d
      <4>. QED
        BY <2>1, <2>3, <3>3, <3>4, <4>1, <4>2, <4>3 DEF DemandGood, g
    <3>5. CASE ~a.done
      <4>1. PICK M : DemandMid(a, L, M, s0)
        BY <3>3, <3>5
      <4>2. /\ b.done => \E K : DemandFinished(b, K, s0)
            /\ ~b.done => UnitsPlaced(a, b, L, s0)
        BY <2>3, <3>5, <4>1, AddToOpenBatchStep DEF b
      <4>3. CASE b.done
        <5>1. c = b
          BY <4>3, StagesStop DEF c
        <5>2. d = c
          BY <4>3, <5>1, StagesStop DEF d
        <5>. QED
          BY <2>1, <2>4, <4>2, <4>3, <5>1, <5>2 DEF DemandGood, g
      <4>4. CASE ~b.done
        <5>1. PICK K : DemandMid(b, L, K, s0)
          BY <4>2, <4>4 DEF UnitsPlaced
        <5>2. b.addPerRound \in Nat /\ b.addPerRound * b.b.rounds <= b.unitCount
          BY <4>2, <4>4 DEF UnitsPlaced
        <5>3. DemandMid(c, L, K, s0)
          BY <2>4, <4>4, <5>1, <5>2, RecordStep DEF c
        <5>4. CASE c.done
          <6>1. d = c
            BY <5>4, StagesStop DEF d
          <6>2. \E J : DemandFinished(c, J, s0)
            BY <5>3, MidIsFinished
          <6>. QED
            BY <2>1, <2>5, <5>4, <6>1, <6>2 DEF DemandGood, g
        <5>5. CASE ~c.done
          <6>1. DemandBetween(d, K, s0)
            BY <2>5, <5>3, <5>5, TakeNextStep DEF d
          <6>2. DemandFinished(d, K, s0)
            BY <6>1, BetweenIsFinished
          <6>. QED
            BY <2>1, <2>6, <6>1, <6>2 DEF DemandGood, g
        <5>. QED
          BY <5>4, <5>5
      <4>. QED
        BY <4>3, <4>4
    <3>. QED
      BY <3>4, <3>5
  <2>. QED
    BY <2>7, <2>8
<1>. QED
  BY <1>1, <1>2

\* Iterating the turn of the demand loop gives the last of its frames.
LEMMA DemandLoopRuns ==
    ASSUME NEW n \in Nat, NEW frame
    PROVE  \E it : LoopFrames("demand", it, frame, n) /\ Iterate(addDemandStep, frame, n) = it[n]
<1>. DEFINE it == CHOOSE after : after = [k \in 0..n |-> IF k = 0 THEN frame ELSE addDemandStep(after[k - 1])]
<1>1. \E after : after = [k \in 0..n |-> IF k = 0 THEN frame ELSE addDemandStep(after[k - 1])]
  <2>1. PICK after : LoopFrames("demand", after, frame, n)
    BY FramesExist
  <2>2. \A f : LoopStep("demand", f) = addDemandStep(f)
    BY DEF LoopStep
  <2>3. after = [k \in 0..n |-> IF k = 0 THEN frame ELSE addDemandStep(after[k - 1])]
    BY <2>1, <2>2 DEF LoopFrames
  <2>. QED
    BY <2>3
<1>2. it = [k \in 0..n |-> IF k = 0 THEN frame ELSE addDemandStep(it[k - 1])]
  BY <1>1
<1>3. Iterate(addDemandStep, frame, n) = it[n]
  BY DEF Iterate
<1>. HIDE DEF it
<1>4. LoopFrames("demand", it, frame, n)
  BY <1>2 DEF LoopFrames, LoopStep
<1>. QED
  BY <1>3, <1>4

\* All turns of the demand loop fail or keep the list and the full batches.
LEMMA DemandLoopKeeps ==
    ASSUME NEW n \in Nat, NEW frame, NEW s0, DemandGood(frame, s0)
    PROVE  DemandGood(Iterate(addDemandStep, frame, n), s0)
<1>1. PICK it : LoopFrames("demand", it, frame, n) /\ Iterate(addDemandStep, frame, n) = it[n]
  BY DemandLoopRuns
<1>. DEFINE G == {k \in 0..n : DemandGood(it[k], s0)}
<1>2. \A k \in 0..n : it[k] = IF k = 0 THEN frame ELSE addDemandStep(it[k - 1])
  BY <1>1 DEF LoopFrames, LoopStep
<1>3. 0 \in G
  BY <1>2
<1>4. ASSUME NEW k \in 0..(n - 1), k \in G PROVE k + 1 \in G
  <2>1. k + 1 \in 0..n /\ k + 1 # 0 /\ (k + 1) - 1 = k /\ DemandGood(it[k], s0)
    BY <1>4
  <2>2. it[k + 1] = addDemandStep(it[k])
    BY <1>2, <2>1
  <2>3. DemandGood(it[k + 1], s0)
    BY <2>1, <2>2, DemandStepKeeps
  <2>. QED
    BY <2>1, <2>3
<1>5. n \in G
  <2>. HIDE DEF G
  <2>1. 0..n \subseteq G
    BY <1>3, <1>4, UpToInduction
  <2>. QED
    BY <2>1
<1>. QED
  BY <1>1, <1>5

-----------------------------------------------------------------------------
(* internalAddCoverageDemand as a whole.                                   *)

\* The frame before the loop.
LEMMA DemandEntered ==
    ASSUME NEW s, NEW L, EngineStore(s, L), NEW insured \in Insureds, NEW unitCount \in Nat, NEW rate, NEW limit,
           NEW found, found = findBatchToAppend(s, s.insureds[insured].nextBatchNo)
    PROVE  DemandGood(demandFrame(found, insured, unitCount, rate, limit), s)
<1>. DEFINE f == demandFrame(found, insured, unitCount, rate, limit)
            p == PartialRounds(found.s.partial)
            short == found.s.openRounds < p
<1>1. s.insureds[insured].nextBatchNo \in L \cup {0}
  BY DEF EngineStore, InsuredsIn
<1>2. PICK M : /\ Appendable(found.s, M, found.batchNo) /\ L \subseteq M /\ Frozen(s, found.s)
               /\ FoundAt(found, found.s, found.batchNo)
  <2>. DEFINE n == s.insureds[insured].nextBatchNo
  <2>1. n \in L \cup {0} /\ found = findBatchToAppend(s, n)
    BY <1>1
  <2>. HIDE DEF n
  <2>. QED
    BY <2>1, FindKeeps
<1>3. f = [s |-> found.s, b |-> found.b, batchNo |-> found.batchNo,
           isFirstOfOpen |-> found.isFirstOfOpen, insured |-> insured, rate |-> rate,
           entry |-> found.s.insureds[insured], demand |-> NoDemand, log |-> found.s.demands[insured],
           openRounds |-> found.s.openRounds - p, partialRounds |-> p,
           unitCount |-> unitCount, loopLimit |-> limit, addPerRound |-> 0,
           updateBatch |-> FALSE, takeNext |-> FALSE, done |-> FALSE,
           panic |-> found.panic \/ short]
  BY DEF demandFrame
<1>4. p \in Nat
  <2>1. found.s.partial.roundNo \in Nat /\ found.s.partial.roundCoverage \in Nat
    BY <1>2 DEF Appendable, EngineStore, PartialPlaced, IsPart
  <2>. QED
    BY <2>1 DEF PartialRounds
<1>. HIDE DEF p, short, f
<1>5. IsDemandFrame(f)
  BY <1>3 DEF IsDemandFrame, DemandFields
<1>6. short => f.panic
  BY <1>3
<1>7. ~short => DemandBetween(f, M, s)
  <2> SUFFICES ASSUME ~short PROVE DemandBetween(f, M, s)
    OBVIOUS
  <2>1. found.s.openRounds - p \in Nat
    <3>1. found.s.openRounds \in Nat
      BY <1>2 DEF Appendable, EngineStore
    <3>. QED
      BY <1>4, <3>1 DEF short
  <2>2. EntryIn(found.s.insureds[insured], M)
    BY <1>2 DEF Appendable, EngineStore, InsuredsIn, EntryIn
  <2>3. DemandNumbers(f, M)
    BY <1>3, <1>4, <2>1, <2>2 DEF DemandNumbers
  <2>4. f.s = found.s /\ f.batchNo = found.batchNo /\ f.b = BatchAt(found.s, found.batchNo)
    BY <1>2, <1>3 DEF FoundAt
  <2>5. IsBatch(f.b)
    BY <1>2, <2>4, AppendableFacts
  <2>. QED
    BY <1>2, <2>3, <2>4, <2>5 DEF DemandBetween, SameButTotal
<1>8. ~f.done
  BY <1>3
<1>9. DemandGood(f, s)
  BY <1>5, <1>6, <1>7, <1>8 DEF DemandGood
<1>. QED
  BY <1>9 DEF f

\* The sets of insureds to pull demand from are in no batch.
OnlyPullable(s, t) ==
    IsStore(t) /\ \A k \in StoreFields \ {"pullableDemands", "pullableBatchNo"} : t[k] = s[k]

\* setPullBatch writes the heads of the pull list only.
LEMMA PullBatchSet ==
    ASSUME NEW s, IsStore(s), NEW insured, NEW old, NEW pull
    PROVE  OnlyPullable(s, setPullBatch(s, insured, old, pull))
<1>1. \A u, n : OnlyPullable(s, u) =>
         OnlyPullable(s, removeFromPullable(u, insured, n)) /\ OnlyPullable(s, addToPullable(u, insured, n))
  <2> SUFFICES ASSUME NEW u, NEW n, OnlyPullable(s, u)
               PROVE  OnlyPullable(s, removeFromPullable(u, insured, n)) /\ OnlyPullable(s, addToPullable(u, insured, n))
    OBVIOUS
  <2>1. \A q : OnlyPullable(s, [u EXCEPT !.pullableDemands = q])
    BY DEF OnlyPullable, IsStore, StoreFields
  <2>2. OnlyPullable(s, addToPullable(u, insured, n))
    <3>. DEFINE q == Put(u.pullableDemands, n, IF Contains(PullableAt(u, n), insured)
                                               THEN PullableAt(u, n) ELSE Append(PullableAt(u, n), insured))
    <3>1. addToPullable(u, insured, n) = [u EXCEPT !.pullableDemands = q]
      BY DEF addToPullable
    <3>. HIDE DEF q
    <3>. QED
      BY <2>1, <3>1
  <2>3. OnlyPullable(s, removeFromPullable(u, insured, n))
    <3>. DEFINE q == [u.pullableDemands EXCEPT ![n] = SwapRemove(@, insured)]
    <3>1. removeFromPullable(u, insured, n) = u \/ removeFromPullable(u, insured, n) = [u EXCEPT !.pullableDemands = q]
      BY DEF removeFromPullable
    <3>. HIDE DEF q
    <3>. QED
      BY <2>1, <3>1
  <2>. QED
    BY <2>2, <2>3
<1>2. OnlyPullable(s, s)
  BY DEF OnlyPullable, IsStore, StoreFields
<1>3. \E u : /\ OnlyPullable(s, u)
             /\ setPullBatch(s, insured, old, pull) = u \/ setPullBatch(s, insured, old, pull) = addToPullable(u, insured, pull)
  <2>. DEFINE u == IF old \in {0, pull} THEN s ELSE removeFromPullable(s, insured, old)
  <2>1. OnlyPullable(s, u)
    BY <1>1, <1>2
  <2>2. setPullBatch(s, insured, old, pull) = u \/ setPullBatch(s, insured, old, pull) = addToPullable(u, insured, pull)
    BY DEF setPullBatch
  <2>. HIDE DEF u
  <2>. QED
    BY <2>1, <2>2
<1>. QED
  BY <1>1, <1>3

\* The frame is stored after the loop.
LEMMA DemandStored ==
    ASSUME NEW f, NEW L, NEW s0, DemandFinished(f, L, s0), NEW more, NEW r, r = demandAdded(f, more)
    PROVE  EngineStore(r.s, L) /\ Frozen(s0, r.s) /\ (r.panic <=> f.panic)
<1>. DEFINE t == FrameStored(f)
            old == f.s.insureds[f.insured].nextBatchNo
            enough == more \/ internalIsEnoughForMore(f.entry.demandedUnits, MinUnits[f.insured], f.unitCount)
            pull == IF enough THEN f.batchNo ELSE 0
            pulled == setPullBatch(t, f.insured, old, pull)
            rounds == f.openRounds + f.partialRounds
            log == PushDemand(f.log, f.demand)
            isFirst == f.isFirstOfOpen
            u == [pulled EXCEPT !.openRounds = rounds, !.insureds[f.insured] = f.entry, !.demands[f.insured] = log,
                                !.firstOpenBatchNo = IF isFirst THEN f.batchNo ELSE @]
<1>1. r = [s |-> u, remaining |-> f.unitCount, panic |-> f.panic]
  BY DEF demandAdded, FrameStored, FramePut
<1>. HIDE DEF enough
<1>2. r.s = u /\ (r.panic <=> f.panic)
  BY <1>1
<1>3. /\ EngineStore(t, L) /\ f.batchNo \in L /\ ~FullAt(t, f.batchNo) /\ Frozen(s0, t) /\ DemandNumbers(f, L)
      /\ IsStore(t) /\ f.insured \in Insureds /\ EntryIn(f.entry, L) /\ rounds \in Nat /\ t.batchCount > 0
  <2>1. Appendable(t, L, f.batchNo) /\ Frozen(s0, t) /\ DemandNumbers(f, L)
    BY DEF DemandFinished
  <2>. HIDE DEF t
  <2>2. rounds \in Nat /\ f.insured \in Insureds /\ EntryIn(f.entry, L)
    BY <2>1 DEF DemandNumbers
  <2>. QED
    BY <2>1, <2>2, AppendableFacts DEF Appendable, EngineStore
<1>. HIDE DEF t, old, pull, rounds, log, isFirst
<1>4. OnlyPullable(t, pulled)
  BY <1>3, PullBatchSet
<1>. HIDE DEF pulled
<1>5. /\ IsStore(pulled) /\ pulled.batches = t.batches /\ pulled.batchCount = t.batchCount /\ pulled.partial = t.partial
      /\ pulled.firstOpenBatchNo = t.firstOpenBatchNo /\ pulled.insureds = t.insureds
      /\ pulled.pendingCoverage = t.pendingCoverage
  BY <1>3, <1>4 DEF OnlyPullable, IsStore, StoreFields
<1>6. /\ IsStore(u) /\ u.batches = t.batches /\ u.batchCount = t.batchCount /\ u.partial = t.partial
      /\ u.firstOpenBatchNo = IF isFirst THEN f.batchNo ELSE t.firstOpenBatchNo
      /\ u.insureds = [t.insureds EXCEPT ![f.insured] = f.entry]
      /\ u.openRounds = rounds /\ u.pendingCoverage = t.pendingCoverage
  BY <1>5 DEF IsStore, StoreFields
<1>. HIDE DEF u
<1>7. \A k : BatchAt(u, k) = BatchAt(t, k) /\ NextOf(u, k) = NextOf(t, k) /\ (FullAt(u, k) <=> FullAt(t, k))
  BY <1>6 DEF BatchAt, NextOf, FullAt
<1>8. Linked(u, L)
  BY <1>3, <1>6, <1>7 DEF EngineStore, Linked, NoOthers, Reached
<1>9. Frozen(s0, u)
  <2>1. Frozen(t, u)
    BY <1>7 DEF Frozen
  <2>. QED
    BY <1>3, <2>1, FrozenSteps
<1>10. PartialPlaced(u, L)
  BY <1>3, <1>6, <1>7 DEF EngineStore, PartialPlaced
<1>11. FirstOpenPlaced(u, L)
  <2>1. u.firstOpenBatchNo \in {f.batchNo, t.firstOpenBatchNo}
    BY <1>6
  <2>2. f.batchNo # 0
    BY <1>3, LinksAreNumbers DEF EngineStore
  <2>3. t.firstOpenBatchNo \in L \cup {0} /\ t.firstOpenBatchNo # 0 /\ ~FullAt(t, t.firstOpenBatchNo)
    BY <1>3 DEF EngineStore, FirstOpenPlaced
  <2>. QED
    BY <1>3, <1>7, <2>1, <2>2, <2>3 DEF FirstOpenPlaced
<1>12. InsuredsIn(u.insureds, L)
  <2>1. InsuredsIn(t.insureds, L)
    BY <1>3 DEF EngineStore
  <2>. QED
    BY <1>3, <1>6, <2>1 DEF InsuredsIn, EntryIn
<1>13. EngineStore(u, L)
  BY <1>3, <1>6, <1>8, <1>10, <1>11, <1>12 DEF EngineStore
<1>. QED
  BY <1>2, <1>9, <1>13

\* Adding demand keeps the list, maybe with more batches.
LEMMA AddDemandKeeps ==
    ASSUME NEW s, NEW L, EngineStore(s, L), NEW insured \in Insureds, NEW unitCount \in Nat, NEW rate, NEW more,
           NEW limit \in Nat,
           NEW r, r = internalAddCoverageDemand(s, insured, unitCount, rate, more, limit), ~r.panic
    PROVE  \E M : EngineStore(r.s, M) /\ Frozen(s, r.s)
<1>. DEFINE found == findBatchToAppend(s, s.insureds[insured].nextBatchNo)
            frame == demandFrame(found, insured, unitCount, rate, limit)
            f == Iterate(addDemandStep, frame, limit)
<1>1. r = demandAdded(f, more)
  BY DEF internalAddCoverageDemand
<1>2. DemandGood(frame, s)
  <2>. HIDE DEF found
  <2>1. found = findBatchToAppend(s, s.insureds[insured].nextBatchNo)
    BY DEF found
  <2>. QED
    BY <2>1, DemandEntered
<1>. HIDE DEF frame
<1>3. DemandGood(f, s)
  BY <1>2, DemandLoopKeeps
<1>. HIDE DEF f
<1>4. ~f.panic
  <2>1. r.panic = f.panic
    BY <1>1 DEF demandAdded
  <2>. QED
    BY <2>1
<1>5. PICK M : DemandFinished(f, M, s)
  <2>1. PICK K : IF f.done THEN DemandFinished(f, K, s) ELSE DemandBetween(f, K, s)
    BY <1>3, <1>4 DEF DemandGood
  <2>2. f.done => DemandFinished(f, K, s)
    BY <2>1
  <2>3. ~f.done => DemandBetween(f, K, s)
    BY <2>1
  <2>4. DemandFinished(f, K, s)
    BY <2>2, <2>3, BetweenIsFinished
  <2>. QED
    BY <2>4
<1>6. EngineStore(r.s, M) /\ Frozen(s, r.s)
  BY <1>1, <1>5, DemandStored
<1>. QED
  BY <1>6

-----------------------------------------------------------------------------
(* The search for an insured to pull demand from.                          *)

PullFields == {"s", "batchNo", "peek", "found", "loopLimit", "done"}
PullFrame(s, f) == DOMAIN f = PullFields /\ OnlyPullable(s, f.s)

\* One turn of the pull loop writes the pull list only.
LEMMA PullStepKeeps ==
    ASSUME NEW s, NEW f, PullFrame(s, f)
    PROVE  PullFrame(s, pullStep(f))
<1>. DEFINE q == PullableAt(f.s, f.batchNo)
            budget == f.loopLimit - 1
            ready == {i \in DOMAIN q : f.s.insureds[q[i]].status = "Accepted"}
            others == Len(q) - (IF ready = {} THEN 0 ELSE Max(ready))
            found == ready # {} /\ others <= budget
            kept == Len(q) - Min({others, budget + 1}) - (IF found /\ ~f.peek THEN 1 ELSE 0)
            b == BatchAt(f.s, f.batchNo)
            last == found \/ ~isFull(b) \/ b.nextBatchNo = 0
            first == SubSeq(q, 1, kept)
            who == IF found THEN {q[Max(ready)]} ELSE {}
            left == budget - Min({others, budget})
            t == IF q = <<>> THEN f.s ELSE [f.s EXCEPT !.pullableDemands[f.batchNo] = first]
            g == pullStep(f)
<1>1. g = IF f.done \/ f.loopLimit = 0 THEN f
          ELSE [f EXCEPT !.s = IF q = <<>> THEN @ ELSE [@ EXCEPT !.pullableDemands[f.batchNo] = first],
                         !.found = who, !.loopLimit = left, !.done = last,
                         !.batchNo = IF last THEN @ ELSE b.nextBatchNo]
  BY DEF pullStep
<1>. HIDE DEF q, first, who, left, last, b, g
<1>2. OnlyPullable(s, t)
  <2>. DEFINE sets == [f.s.pullableDemands EXCEPT ![f.batchNo] = first]
  <2>1. t = f.s \/ t = [f.s EXCEPT !.pullableDemands = sets]
    BY DEF PullFrame, OnlyPullable, IsStore, StoreFields
  <2>. HIDE DEF t, sets
  <2>. QED
    BY <2>1 DEF PullFrame, OnlyPullable, IsStore, StoreFields
<1>3. g = f \/ (DOMAIN g = PullFields /\ g.s = t)
  BY <1>1 DEF PullFrame, PullFields
<1>. HIDE DEF t
<1>4. PullFrame(s, g)
  BY <1>2, <1>3 DEF PullFrame
<1>. QED
  BY <1>4 DEF g

\* Iterating the turn of the pull loop gives the last of its frames.
LEMMA PullLoopRuns ==
    ASSUME NEW n \in Nat, NEW frame
    PROVE  \E it : LoopFrames("pull", it, frame, n) /\ Iterate(pullStep, frame, n) = it[n]
<1>. DEFINE it == CHOOSE after : after = [k \in 0..n |-> IF k = 0 THEN frame ELSE pullStep(after[k - 1])]
<1>1. \E after : after = [k \in 0..n |-> IF k = 0 THEN frame ELSE pullStep(after[k - 1])]
  <2>1. PICK after : LoopFrames("pull", after, frame, n)
    BY FramesExist
  <2>2. \A f : LoopStep("pull", f) = pullStep(f)
    BY DEF LoopStep
  <2>3. after = [k \in 0..n |-> IF k = 0 THEN frame ELSE pullStep(after[k - 1])]
    BY <2>1, <2>2 DEF LoopFrames
  <2>. QED
    BY <2>3
<1>2. it = [k \in 0..n |-> IF k = 0 THEN frame ELSE pullStep(it[k - 1])]
  BY <1>1
<1>3. Iterate(pullStep, frame, n) = it[n]
  BY DEF Iterate
<1>. HIDE DEF it
<1>4. LoopFrames("pull", it, frame, n)
  BY <1>2 DEF LoopFrames, LoopStep
<1>. QED
  BY <1>3, <1>4

\* internalPullDemandCandidate writes the pull list only.
LEMMA PullKeeps ==
    ASSUME NEW s, IsStore(s), NEW limit \in Nat, NEW peek
    PROVE  OnlyPullable(s, internalPullDemandCandidate(s, limit, peek).s)
<1>. DEFINE frame == [s |-> s, batchNo |-> IF s.pullableBatchNo = 0 THEN 1 ELSE s.pullableBatchNo,
                      peek |-> peek, found |-> {}, loopLimit |-> limit, done |-> FALSE]
            f == Iterate(pullStep, frame, limit)
<1>1. internalPullDemandCandidate(s, limit, peek).s = [f.s EXCEPT !.pullableBatchNo = f.batchNo]
  BY DEF internalPullDemandCandidate
<1>2. PullFrame(s, frame)
  BY DEF PullFrame, PullFields, OnlyPullable
<1>. HIDE DEF frame
<1>3. PICK it : LoopFrames("pull", it, frame, limit) /\ f = it[limit]
  BY PullLoopRuns
<1>. HIDE DEF f
<1>. DEFINE G == {k \in 0..limit : PullFrame(s, it[k])}
<1>4. \A k \in 0..limit : it[k] = IF k = 0 THEN frame ELSE pullStep(it[k - 1])
  BY <1>3 DEF LoopFrames, LoopStep
<1>5. 0 \in G
  BY <1>2, <1>4
<1>6. ASSUME NEW k \in 0..(limit - 1), k \in G PROVE k + 1 \in G
  <2>1. k + 1 \in 0..limit /\ k + 1 # 0 /\ (k + 1) - 1 = k /\ PullFrame(s, it[k])
    BY <1>6
  <2>2. it[k + 1] = pullStep(it[k])
    BY <1>4, <2>1
  <2>3. PullFrame(s, it[k + 1])
    BY <2>1, <2>2, PullStepKeeps
  <2>. QED
    BY <2>1, <2>3
<1>7. limit \in G
  <2>. HIDE DEF G
  <2>1. 0..limit \subseteq G
    BY <1>5, <1>6, UpToInduction
  <2>. QED
    BY <2>1
<1>8. OnlyPullable(s, f.s)
  BY <1>3, <1>7 DEF PullFrame
<1>. QED
  BY <1>1, <1>8 DEF OnlyPullable, IsStore, StoreFields

-----------------------------------------------------------------------------
(* The engine while nothing is cancelled.                                  *)

(* The inductive invariant: some set of batches makes the list. *)
RoundsInv == allocated \in Int /\ \E L : EngineStore(Storage, L)

(* What of the storage the list is about. *)
SameEngine(s, t) ==
    /\ IsStore(t) /\ t.batches = s.batches /\ t.batchCount = s.batchCount /\ t.partial = s.partial
    /\ t.firstOpenBatchNo = s.firstOpenBatchNo /\ t.insureds = s.insureds
    /\ t.openRounds = s.openRounds /\ t.pendingCoverage = s.pendingCoverage

\* A step that changes no variable of the engine keeps the list and the coverage.
LEMMA SameEngineKeeps ==
    ASSUME NEW s, NEW L, EngineStore(s, L), NEW t, SameEngine(s, t)
    PROVE  /\ EngineStore(t, L) /\ Frozen(s, t) /\ StoreSum(t) = StoreSum(s)
           /\ \A k : BatchAt(t, k) = BatchAt(s, k)
<1>1. \A k : BatchAt(t, k) = BatchAt(s, k) /\ NextOf(t, k) = NextOf(s, k) /\ (FullAt(t, k) <=> FullAt(s, k))
  BY DEF SameEngine, BatchAt, NextOf, FullAt
<1>2. Linked(t, L) /\ Frozen(s, t)
  BY <1>1 DEF SameEngine, EngineStore, Linked, NoOthers, Reached, Frozen
<1>3. PartialPlaced(t, L) /\ FirstOpenPlaced(t, L)
  BY <1>1 DEF SameEngine, EngineStore, PartialPlaced, FirstOpenPlaced
<1>4. StoreSum(t) = StoreSum(s)
  BY <1>1 DEF StoreSum, SameEngine
<1>. QED
  BY <1>1, <1>2, <1>3, <1>4 DEF SameEngine, EngineStore

\* The storage, as a record of the variables, has the fields of a store.
LEMMA StorageIsStore == IsStore(Storage)
  BY DEF Storage, IsStore, StoreFields

\* Commit gives the variables the values of the record, the logs aside.
LEMMA Committed ==
    ASSUME NEW t, Commit(t)
    PROVE  SameEngine(t, Storage')
  BY DEF Commit, Storage, SameEngine, IsStore, StoreFields

\* The invariant holds before the first call: there is no batch.
LEMMA RoundsInit == Init => RoundsInv
<1> SUFFICES ASSUME Init PROVE RoundsInv
  OBVIOUS
<1>1. /\ Storage.batches = <<>> /\ Storage.batchCount = 0 /\ Storage.firstOpenBatchNo = 0
      /\ Storage.openRounds = 0 /\ Storage.pendingCoverage = 0
      /\ Storage.partial = [roundCoverage |-> 0, batchNo |-> 0, roundNo |-> 0]
      /\ Storage.insureds = [i \in Insureds |-> [nextBatchNo |-> 0, demandedUnits |-> 0, status |-> "Accepted"]]
  BY DEF Init, Storage
<1>2. \A k : BatchAt(Storage, k) = NoBatch
  BY <1>1 DEF BatchAt
<1>3. Linked(Storage, {})
  <2>1. Reached(Storage, {}) /\ NoOthers(Storage)
    BY <1>2 DEF Reached, NoOthers
  <2>. QED
    BY <1>1, <2>1 DEF Linked
<1>4. PartialPlaced(Storage, {}) /\ FirstOpenPlaced(Storage, {}) /\ InsuredsIn(Storage.insureds, {})
  BY <1>1, <1>2 DEF PartialPlaced, FirstOpenPlaced, InsuredsIn, IsPart, PartFields, PartFits, NoBatch
<1>5. EngineStore(Storage, {})
  BY <1>1, <1>3, <1>4, StorageIsStore DEF EngineStore
<1>. QED
  BY <1>5 DEF RoundsInv, Init

(* What each step of the engine keeps. *)
StepKept == RoundsInv' /\ Frozen(Storage, Storage')

\* internalAddCoverageDemand keeps the invariant and the full batches.
LEMMA DemandKept ==
    ASSUME RoundsInv, NEW insured \in Insureds, addCoverageDemand(insured)
    PROVE  StepKept
<1>1. PICK L : EngineStore(Storage, L)
  BY DEF RoundsInv
<1>2. PICK units \in UnitCounts, rate \in Rates, more \in HasMore, limit \in LoopLimits :
         \E r \in {internalAddCoverageDemand(Storage, insured, units, rate, more, limit)} :
            ~r.panic /\ Commit(r.s) /\ UNCHANGED <<now, allocated>>
  BY DEF addCoverageDemand
<1>. DEFINE s == Storage
            r == internalAddCoverageDemand(s, insured, units, rate, more, limit)
<1>3. ~r.panic /\ Commit(r.s) /\ UNCHANGED <<now, allocated>>
  BY <1>2
<1>4. units \in Nat /\ limit \in Nat
  BY RoundsAssumption
<1>5. EngineStore(s, L)
  BY <1>1
<1>. HIDE DEF s
<1>6. PICK M : EngineStore(r.s, M) /\ Frozen(s, r.s)
  <2>. HIDE DEF r
  <2>1. r = internalAddCoverageDemand(s, insured, units, rate, more, limit)
    BY DEF r
  <2>. QED
    BY <1>3, <1>4, <1>5, <2>1, AddDemandKeeps
<1>. HIDE DEF r
<1>7. EngineStore(Storage', M) /\ Frozen(r.s, Storage')
  BY <1>3, <1>6, Committed, SameEngineKeeps
<1>8. Frozen(s, Storage')
  BY <1>6, <1>7, FrozenSteps
<1>. QED
  BY <1>3, <1>7, <1>8 DEF StepKept, RoundsInv, s

(* Coverage as internalGetCoveredTotals finds it. *)
CountedIn(s) ==
    LET b == BatchAt(s, s.partial.batchNo)
    IN  UnitSize * (adjustedTotalUnits(s, b.totalUnitsBeforeBatch) + s.partial.roundNo * b.unitPerRound)
        + s.partial.roundCoverage

\* Coverage that is counted is in the rounds of the store.
LEMMA CountedIsStored ==
    ASSUME NEW s, NEW L, EngineStore(s, L)
    PROVE  CountedIn(s) = StoreSum(s) /\ StoreSum(s) \in Int
<1>. DEFINE b == BatchAt(s, s.partial.batchNo)
            p == s.partial
<1>1. b.totalUnitsBeforeBatch \in Nat /\ b.unitPerRound \in Nat
  <2>1. CASE s.partial.batchNo # 0
    <3>1. PartialFacts(s, L, b)
      BY <2>1, PartialBatch
    <3>. QED
      BY <3>1 DEF PartialFacts
  <2>2. CASE s.partial.batchNo = 0
    <3>1. 0 \in Nat /\ 0 \notin 1..s.batchCount
      BY DEF EngineStore, Linked
    <3>2. b = NoBatch
      BY <2>2, <3>1 DEF EngineStore, Linked, NoOthers
    <3>. QED
      BY <3>2 DEF NoBatch
  <2>. QED
    BY <2>1, <2>2
<1>2. p.roundNo \in Nat /\ p.roundCoverage \in Nat /\ UnitSize \in Nat /\ s.pendingCoverage = 0
  BY RoundsAssumption DEF EngineStore, PartialPlaced, IsPart
<1>. DEFINE before == b.totalUnitsBeforeBatch
            total == adjustedTotalUnits(s, before)
            base == UnitSize * (before + p.roundNo * b.unitPerRound)
<1>3. CountedIn(s) = UnitSize * (total + p.roundNo * b.unitPerRound) + p.roundCoverage
  BY DEF CountedIn
<1>4. StoreSum(s) = base + p.roundCoverage
  BY DEF StoreSum, SumIn
<1>. HIDE DEF b, before
<1>5. before \in Nat
  BY <1>1 DEF before
<1>6. total = before
  <2>1. total = IF 0 >= before THEN 0 ELSE before - 0
    BY <1>2 DEF adjustedTotalUnits
  <2>. HIDE DEF total
  <2>. QED
    BY <1>5, <2>1
<1>. HIDE DEF total
<1>7. base \in Nat
  BY <1>1, <1>2, <1>5, RoundsAdd
<1>8. CountedIn(s) = StoreSum(s)
  BY <1>3, <1>4, <1>6
<1>. HIDE DEF base, p
<1>9. StoreSum(s) \in Int
  BY <1>2, <1>4, <1>7 DEF p
<1>. QED
  BY <1>8, <1>9

\* CoverageCounted, of the variables, is the sum over the record, before and after a step.
LEMMA CoverageIsCounted == CoverageCounted = CountedIn(Storage) /\ CoverageCounted' = CountedIn(Storage')
  BY DEF CoverageCounted, CountedIn, CoveredUnits, Storage

\* internalAddCoverage keeps the invariant and the full batches, and places what it takes.
LEMMA CoverageKeptByCall ==
    ASSUME RoundsInv, addCoverage
    PROVE  StepKept /\ allocated' - allocated = CoverageCounted' - CoverageCounted
<1>1. PICK L : EngineStore(Storage, L)
  BY DEF RoundsInv
<1>2. PICK amount \in Amounts, limit \in CoverageLoopLimits :
         \E r \in {internalAddCoverage(Storage, amount, limit)} :
            ~r.panic /\ Commit(r.s) /\ allocated' = allocated + amount - r.remaining
  BY DEF addCoverage
<1>. DEFINE s == Storage
            r == internalAddCoverage(s, amount, limit)
<1>3. ~r.panic /\ Commit(r.s) /\ allocated' = allocated + amount - r.remaining
  BY <1>2
<1>4. amount \in Nat /\ limit \in Nat
  BY RoundsAssumption
<1>5. EngineStore(s, L)
  BY <1>1
<1>6. CoverageCounted = StoreSum(s) /\ StoreSum(s) \in Int
  BY <1>1, CountedIsStored, CoverageIsCounted
<1>. HIDE DEF s
<1>7. /\ EngineStore(r.s, L) /\ Frozen(s, r.s)
      /\ r.remaining \in Nat /\ StoreSum(r.s) + r.remaining = StoreSum(s) + amount
  <2>. HIDE DEF r
  <2>1. r = internalAddCoverage(s, amount, limit)
    BY DEF r
  <2>. QED
    BY <1>3, <1>4, <1>5, <2>1, AddCoverageKeeps
<1>. HIDE DEF r
<1>8. EngineStore(Storage', L) /\ Frozen(r.s, Storage') /\ StoreSum(Storage') = StoreSum(r.s)
  BY <1>3, <1>7, Committed, SameEngineKeeps
<1>9. Frozen(s, Storage')
  BY <1>7, <1>8, FrozenSteps
<1>10. CoverageCounted' = StoreSum(Storage') /\ StoreSum(Storage') \in Int
  <2>1. CountedIn(Storage') = StoreSum(Storage') /\ StoreSum(Storage') \in Int
    BY <1>8, CountedIsStored
  <2>. QED
    BY <2>1, CoverageIsCounted
<1>11. allocated' \in Int /\ allocated' - allocated = CoverageCounted' - CoverageCounted
  BY <1>3, <1>4, <1>6, <1>7, <1>8, <1>10 DEF RoundsInv
<1>. QED
  BY <1>8, <1>9, <1>11 DEF StepKept, RoundsInv, s

\* internalPullDemandCandidate keeps the invariant and the full batches.
LEMMA PullKept ==
    ASSUME RoundsInv, pullDemandCandidate
    PROVE  StepKept
<1>1. PICK L : EngineStore(Storage, L)
  BY DEF RoundsInv
<1>2. PICK limit \in LoopLimits, peek \in BOOLEAN :
         Commit(internalPullDemandCandidate(Storage, limit, peek).s) /\ UNCHANGED <<now, allocated>>
  BY DEF pullDemandCandidate
<1>. DEFINE t == internalPullDemandCandidate(Storage, limit, peek).s
<1>3. OnlyPullable(Storage, t)
  BY RoundsAssumption, StorageIsStore, PullKeeps
<1>4. Commit(t)
  BY <1>2
<1>. HIDE DEF t
<1>5. SameEngine(Storage, t)
  BY <1>3 DEF OnlyPullable, SameEngine, StoreFields
<1>6. SameEngine(t, Storage')
  BY <1>4, Committed
<1>7. SameEngine(Storage, Storage')
  BY <1>5, <1>6 DEF SameEngine
<1>. QED
  BY <1>1, <1>2, <1>7, SameEngineKeeps DEF StepKept, RoundsInv

\* The other steps do not touch the list.
LEMMA OthersKept ==
    ASSUME RoundsInv,
           (\E i \in Insureds : receiveDemandedCoverage(i)) \/ Tick \/ UNCHANGED vars
    PROVE  StepKept
<1>1. PICK L : EngineStore(Storage, L)
  BY DEF RoundsInv
<1>2. /\ UNCHANGED <<insureds, batches, batchCount, firstOpenBatchNo, openRounds, partial,
                     pendingCancelledCoverageUnits, allocated>>
  BY DEF receiveDemandedCoverage, Tick, vars, storageVars
<1>3. SameEngine(Storage, Storage')
  BY <1>2 DEF SameEngine, Storage, IsStore, StoreFields
<1>. QED
  BY <1>1, <1>2, <1>3, SameEngineKeeps DEF StepKept, RoundsInv

\* Every step of Allocation keeps the invariant and the full batches.
LEMMA AllocationKept ==
    ASSUME RoundsInv, [Allocation]_vars
    PROVE  /\ StepKept
           /\ addCoverage => allocated' - allocated = CoverageCounted' - CoverageCounted
<1>1. StepKept
  BY DemandKept, CoverageKeptByCall, PullKept, OthersKept DEF Allocation
<1>. QED
  BY <1>1, CoverageKeptByCall

-----------------------------------------------------------------------------
(* The list read from its first batch on.                                  *)

(* The sequence q of batches follows the links of s from the first batch on. *)
IsRun(s, q, L) ==
    /\ q \in Seq(L) /\ IsInjective(q)
    /\ q # <<>> => q[1] = 1
    /\ \A i \in 1..(Len(q) - 1) : NextOf(s, q[i]) = q[i + 1]

RunGoesTo(s, q, n) == IF q = <<>> THEN n = 1 ELSE NextOf(s, q[Len(q)]) = n

\* A run never comes back to a batch.
LEMMA RunGrows ==
    ASSUME NEW s, NEW L, Linked(s, L), NEW q, IsRun(s, q, L), NEW n \in L, RunGoesTo(s, q, n)
    PROVE  IsRun(s, Append(q, n), L) /\ RunGoesTo(s, Append(q, n), NextOf(s, n))
<1>. DEFINE len == Len(q)
            r == Append(q, n)
<1>1. /\ q \in Seq(L) /\ len \in Nat /\ DOMAIN q = 1..len /\ \A i \in 1..len : q[i] \in L
      /\ (q # <<>> <=> len > 0)
  BY ElementOfSeq, LenProperties, EmptySeq DEF IsRun
<1>2. /\ r \in Seq(L) /\ r # <<>> /\ Len(r) = len + 1 /\ \A i \in 1..len : r[i] = q[i]
      /\ r[len + 1] = n
  BY <1>1, AppendProperties
<1>3. DOMAIN r = 1..(len + 1)
  BY <1>2, LenProperties
<1>. HIDE DEF r
<1>4. len > 0 => q[1] = 1 /\ NextOf(s, q[len]) = n
  BY <1>1 DEF IsRun, RunGoesTo
<1>5. \A i \in 1..(len - 1) : NextOf(s, q[i]) = q[i + 1]
  BY DEF IsRun
<1>. HIDE DEF len
<1>6. \A i \in 1..len : q[i] # n
  <2> SUFFICES ASSUME NEW i \in 1..len, q[i] = n PROVE FALSE
    OBVIOUS
  <2>1. len > 0 /\ len \in 1..len
    BY <1>1
  <2>2. q[len] \in L /\ NextOf(s, q[len]) = n /\ n # 0
    BY <1>1, <1>4, <2>1, LinksAreNumbers
  <2>3. CASE i = 1
    BY <1>4, <2>1, <2>2, <2>3 DEF Linked
  <2>4. CASE i # 1
    <3>1. i - 1 \in 1..(len - 1) /\ i - 1 \in 1..len /\ (i - 1) + 1 = i /\ i - 1 # len
      BY <1>1, <2>4
    <3>2. NextOf(s, q[i - 1]) = n /\ q[i - 1] \in L
      BY <1>1, <1>5, <3>1
    <3>3. q[i - 1] = q[len]
      BY <2>2, <3>2 DEF Linked
    <3>. QED
      BY <1>1, <2>1, <3>1, <3>3 DEF IsRun, IsInjective
  <2>. QED
    BY <2>3, <2>4
<1>7. IsInjective(r)
  <2> SUFFICES ASSUME NEW i \in 1..(len + 1), NEW j \in 1..(len + 1), r[i] = r[j] PROVE i = j
    BY <1>3 DEF IsInjective
  <2>1. (i \in 1..len \/ i = len + 1) /\ (j \in 1..len \/ j = len + 1)
    BY <1>1
  <2>2. i \in 1..len /\ j \in 1..len => i = j
    BY <1>1, <1>2 DEF IsRun, IsInjective
  <2>. QED
    BY <1>2, <1>6, <2>1, <2>2
<1>8. r[1] = 1
  <2>1. CASE len = 0
    BY <1>1, <1>2, <2>1 DEF RunGoesTo
  <2>2. CASE len # 0
    BY <1>1, <1>2, <1>4, <2>2
  <2>. QED
    BY <2>1, <2>2
<1>9. \A i \in 1..len : NextOf(s, r[i]) = r[i + 1]
  <2> SUFFICES ASSUME NEW i \in 1..len PROVE NextOf(s, r[i]) = r[i + 1]
    OBVIOUS
  <2>1. CASE i = len
    BY <1>1, <1>2, <1>4, <2>1
  <2>2. CASE i # len
    <3>1. i \in 1..(len - 1) /\ i + 1 \in 1..len
      BY <1>1, <2>2
    <3>. QED
      BY <1>2, <1>5, <3>1
  <2>. QED
    BY <2>1, <2>2
<1>10. IsRun(s, r, L)
  <2>1. Len(r) - 1 = len
    BY <1>1, <1>2
  <2>. QED
    BY <1>2, <1>7, <1>8, <1>9, <2>1 DEF IsRun
<1>11. RunGoesTo(s, r, NextOf(s, n))
  BY <1>2 DEF RunGoesTo
<1>. QED
  BY <1>10, <1>11 DEF r

\* A run is no longer than there are batches.
LEMMA RunIsShort ==
    ASSUME NEW s, NEW L, Linked(s, L), NEW q, IsRun(s, q, L)
    PROVE  Len(q) \in Nat /\ Len(q) <= s.batchCount
<1>. DEFINE len == Len(q)
            count == s.batchCount
<1>1. len \in Nat /\ q \in [1..len -> L] /\ DOMAIN q = 1..len
  BY LenProperties DEF IsRun
<1>2. count \in Nat /\ L \subseteq 1..count
  BY DEF Linked
<1>. HIDE DEF len, count
<1> SUFFICES ASSUME ~(len <= count) PROVE FALSE
  BY <1>1 DEF len, count
<1>3. q \in [1..len -> 1..count]
  BY <1>1, <1>2
<1>4. /\ IsFiniteSet(1..len) /\ Cardinality(1..len) = len
      /\ IsFiniteSet(1..count) /\ Cardinality(1..count) = count
  BY <1>1, <1>2, FS_Interval
<1>5. Cardinality(1..count) < Cardinality(1..len)
  BY <1>1, <1>2, <1>4
<1>6. \E i, j \in 1..len : i # j /\ q[i] = q[j]
  BY <1>3, <1>4, <1>5, FS_PigeonHole
<1>. QED
  BY <1>1, <1>6 DEF IsRun, IsInjective

\* ChainFrom is what the last frame of its loop has read.
LEMMA ChainLoopRuns ==
    ASSUME NEW n, batchCount \in Nat
    PROVE  \E it : /\ LoopFrames("chain", it, [seq |-> <<>>, n |-> n], batchCount + 1)
                   /\ ChainFrom(n) = it[batchCount + 1].seq
<1>. DEFINE m == batchCount + 1
            frame == [seq |-> <<>>, n |-> n]
            it == CHOOSE after : after = [k \in 0..m |-> IF k = 0 THEN frame ELSE chainStep(after[k - 1])]
<1>1. m \in Nat
  OBVIOUS
<1>2. ChainFrom(n) = Iterate(chainStep, frame, m).seq
  BY DEF ChainFrom
<1>3. Iterate(chainStep, frame, m) = it[m]
  BY DEF Iterate
<1>. HIDE DEF m, frame
<1>4. \E after : after = [k \in 0..m |-> IF k = 0 THEN frame ELSE chainStep(after[k - 1])]
  <2>1. PICK after : LoopFrames("chain", after, frame, m)
    BY <1>1, FramesExist
  <2>2. \A f : LoopStep("chain", f) = chainStep(f)
    BY DEF LoopStep
  <2>3. after = [k \in 0..m |-> IF k = 0 THEN frame ELSE chainStep(after[k - 1])]
    BY <2>1, <2>2 DEF LoopFrames
  <2>. QED
    BY <2>3
<1>5. it = [k \in 0..m |-> IF k = 0 THEN frame ELSE chainStep(it[k - 1])]
  BY <1>4
<1>6. ChainFrom(n) = it[m].seq
  BY <1>2, <1>3
<1>. HIDE DEF it
<1>7. LoopFrames("chain", it, frame, m)
  BY <1>5 DEF LoopFrames, LoopStep
<1>8. LoopFrames("chain", it, [seq |-> <<>>, n |-> n], batchCount + 1) /\ ChainFrom(n) = it[batchCount + 1].seq
  BY <1>6, <1>7 DEF m, frame
<1>. QED
  BY <1>8

(* The frame f after k batches of the list were read. *)
ChainRead(f, k, L) ==
    /\ IsRun(Storage, f.seq, L) /\ f.n \in L \cup {0} /\ RunGoesTo(Storage, f.seq, f.n)
    /\ f.n # 0 => Len(f.seq) = k

\* One turn of ChainFrom from the first batch: it has read k links, or all of them.
LEMMA ChainStepReads ==
    ASSUME NEW L, Linked(Storage, L), NEW k \in Nat, NEW f, ChainRead(f, k, L)
    PROVE  ChainRead(chainStep(f), k + 1, L)
<1>1. CASE f.n = 0
  <2>1. chainStep(f) = f
    BY <1>1 DEF chainStep
  <2>. QED
    BY <1>1, <2>1 DEF ChainRead
<1>2. CASE f.n # 0
  <2>. DEFINE n == f.n
              q == f.seq
              g == chainStep(f)
  <2>1. g.seq = Append(q, n) /\ g.n = NextOf(Storage, n)
    BY <1>2 DEF chainStep, NextOf
  <2>2. n \in L /\ IsRun(Storage, q, L) /\ RunGoesTo(Storage, q, n) /\ Len(q) = k
    BY <1>2 DEF ChainRead
  <2>. HIDE DEF g, q, n
  <2>3. IsRun(Storage, g.seq, L) /\ RunGoesTo(Storage, g.seq, g.n)
    BY <2>1, <2>2, RunGrows
  <2>4. g.n \in L \cup {0}
    BY <2>1, <2>2 DEF Linked
  <2>5. Len(g.seq) = k + 1
    BY <2>1, <2>2, AppendProperties DEF IsRun
  <2>6. ChainRead(g, k + 1, L)
    BY <2>3, <2>4, <2>5 DEF ChainRead
  <2>. QED
    BY <2>6 DEF g
<1>. QED
  BY <1>1, <1>2

(* The sequence q is the whole list. *)
IsList(s, q, L) ==
    /\ IsRun(s, q, L) /\ q # <<>> /\ NextOf(s, q[Len(q)]) = 0
    /\ Len(q) \in Nat /\ Len(q) <= s.batchCount
    /\ Range(q) = L

\* The list is read to its end.
LEMMA ChainIsList ==
    ASSUME NEW L, Linked(Storage, L), Storage.batchCount > 0
    PROVE  IsList(Storage, Chain, L)
<1>. DEFINE m == batchCount + 1
            frame == [seq |-> <<>>, n |-> 1]
            q == Chain
<1>1. batchCount \in Nat /\ batchCount = Storage.batchCount /\ batchCount # 0 /\ 1 \in L
  BY DEF Linked, Storage
<1>2. PICK it : LoopFrames("chain", it, frame, m) /\ ChainFrom(1) = it[m].seq
  BY <1>1, ChainLoopRuns
<1>3. m \in Nat /\ \A k \in 0..m : it[k] = IF k = 0 THEN frame ELSE chainStep(it[k - 1])
  BY <1>1, <1>2 DEF LoopFrames, LoopStep
<1>4. q = it[m].seq
  BY <1>1, <1>2 DEF Chain
<1>5. ChainRead(frame, 0, L)
  <2>1. <<>> \in Seq(L) /\ Len(<<>>) = 0
    BY EmptySeq
  <2>2. IsInjective(<<>>)
    BY DEF IsInjective
  <2>3. IsRun(Storage, <<>>, L)
    BY <2>1, <2>2 DEF IsRun
  <2>. QED
    BY <1>1, <2>1, <2>3 DEF ChainRead, RunGoesTo
<1>. HIDE DEF frame, m, q
<1>. DEFINE G == {k \in 0..m : ChainRead(it[k], k, L)}
<1>6. 0 \in G
  BY <1>3, <1>5
<1>7. ASSUME NEW k \in 0..(m - 1), k \in G PROVE k + 1 \in G
  <2>1. k \in Nat /\ k + 1 \in 0..m /\ k + 1 # 0 /\ (k + 1) - 1 = k /\ ChainRead(it[k], k, L)
    BY <1>3, <1>7
  <2>2. it[k + 1] = chainStep(it[k])
    BY <1>3, <2>1
  <2>3. ChainRead(it[k + 1], k + 1, L)
    BY <2>1, <2>2, ChainStepReads
  <2>. QED
    BY <2>1, <2>3
<1>8. ChainRead(it[m], m, L)
  <2>. HIDE DEF G
  <2>1. 0..m \subseteq G
    BY <1>3, <1>6, <1>7, UpToInduction
  <2>2. m \in G
    BY <1>3, <2>1
  <2>. QED
    BY <2>2 DEF G
<1>9. IsRun(Storage, q, L) /\ Len(q) \in Nat /\ Len(q) <= Storage.batchCount
  BY <1>4, <1>8, RunIsShort DEF ChainRead
<1>10. it[m].n = 0
  <2>1. Len(q) # m
    BY <1>1, <1>9 DEF m
  <2>. QED
    BY <1>4, <1>8, <2>1 DEF ChainRead
<1>11. q # <<>> /\ NextOf(Storage, q[Len(q)]) = 0
  BY <1>4, <1>8, <1>10 DEF ChainRead, RunGoesTo
<1>12. Range(q) = L
  <2>1. q \in Seq(L) /\ DOMAIN q = 1..Len(q) /\ \A i \in 1..Len(q) : q[i] \in L
    BY <1>9, LenProperties, ElementOfSeq DEF IsRun
  <2>2. Len(q) > 0 /\ q[1] = 1
    BY <1>9, <1>11, <2>1, EmptySeq DEF IsRun
  <2>3. Range(q) \in SUBSET L /\ 1 \in Range(q)
    <3>1. 1 \in 1..Len(q)
      BY <1>9, <2>2
    <3>. QED
      BY <2>1, <2>2, <3>1 DEF Range
  <2>4. \A n \in Range(q) : NextOf(Storage, n) \in Range(q) \cup {0}
    <3> SUFFICES ASSUME NEW i \in 1..Len(q) PROVE NextOf(Storage, q[i]) \in Range(q) \cup {0}
      BY <2>1 DEF Range
    <3>1. CASE i = Len(q)
      BY <1>11, <3>1
    <3>2. CASE i # Len(q)
      <4>1. i \in 1..(Len(q) - 1) /\ i + 1 \in 1..Len(q)
        BY <1>9, <3>2
      <4>2. NextOf(Storage, q[i]) = q[i + 1]
        BY <1>9, <4>1 DEF IsRun
      <4>. QED
        BY <2>1, <4>1, <4>2 DEF Range
    <3>. QED
      BY <3>1, <3>2
  <2>. QED
    BY <2>3, <2>4 DEF Linked, Reached
<1>. QED
  BY <1>9, <1>11, <1>12 DEF IsList, q

(* The frame f after k batches were read from the place j of the list q on. *)
RestRead(f, k, q, j) ==
    \E n \in j..(Len(q) + 1) :
        /\ f.seq = SubSeq(q, j, n - 1) /\ f.n = (IF n <= Len(q) THEN q[n] ELSE 0)
        /\ n = j + k \/ n = Len(q) + 1

\* One turn of ChainFrom from the batch at a place of the list.
LEMMA RestStepReads ==
    ASSUME NEW L, Linked(Storage, L), NEW q, IsList(Storage, q, L), NEW j \in 1..Len(q),
           NEW k \in Nat, NEW f, RestRead(f, k, q, j)
    PROVE  RestRead(chainStep(f), k + 1, q, j)
<1>. DEFINE len == Len(q)
            g == chainStep(f)
<1>1. /\ q \in Seq(L) /\ len \in Nat /\ \A i \in 1..len : q[i] \in L
      /\ \A i \in 1..(len - 1) : NextOf(Storage, q[i]) = q[i + 1]
      /\ NextOf(Storage, q[len]) = 0
  BY ElementOfSeq DEF IsList, IsRun
<1>2. PICK n \in j..(len + 1) :
         /\ f.seq = SubSeq(q, j, n - 1) /\ f.n = (IF n <= len THEN q[n] ELSE 0)
         /\ n = j + k \/ n = len + 1
  BY DEF RestRead
<1>3. CASE n = len + 1
  <2>1. f.n = 0
    BY <1>1, <1>2, <1>3
  <2>2. g = f
    BY <2>1 DEF chainStep
  <2>. QED
    BY <1>2, <1>3, <2>2 DEF RestRead
<1>4. CASE n # len + 1
  <2>1. n \in j..len /\ n \in 1..len /\ n + 1 \in j..(len + 1) /\ (n + 1) - 1 = n /\ n + 1 = j + (k + 1) /\ j \in 1..len
    BY <1>1, <1>2, <1>4
  <2>2. f.n = q[n] /\ q[n] \in L /\ q[n] # 0
    BY <1>1, <1>2, <2>1, LinksAreNumbers
  <2>3. g.seq = Append(SubSeq(q, j, n - 1), q[n]) /\ g.n = NextOf(Storage, q[n])
    BY <1>2, <2>2 DEF chainStep, NextOf
  <2>. HIDE DEF g
  <2>4. SubSeq(q, j, n) = SubSeq(q, j, n - 1) \o <<q[n]>>
    BY <1>1, <2>1, SubSeqRecursiveSecond
  <2>5. Append(SubSeq(q, j, n - 1), q[n]) = SubSeq(q, j, n - 1) \o <<q[n]>>
    <3>1. \A i \in j..(n - 1) : q[i] \in L
      BY <1>1, <2>1
    <3>2. SubSeq(q, j, n - 1) \in Seq(L)
      BY <2>1, <3>1, SubSeqProperties
    <3>. QED
      BY <2>2, <3>2, AppendIsConcat
  <2>6. g.seq = SubSeq(q, j, (n + 1) - 1)
    BY <2>1, <2>3, <2>4, <2>5
  <2>7. g.n = IF n + 1 <= len THEN q[n + 1] ELSE 0
    <3>1. CASE n = len
      BY <1>1, <2>3, <3>1
    <3>2. CASE n # len
      <4>1. n \in 1..(len - 1) /\ n + 1 <= len
        BY <1>1, <2>1, <3>2
      <4>. QED
        BY <1>1, <2>3, <4>1
    <3>. QED
      BY <3>1, <3>2
  <2>8. RestRead(g, k + 1, q, j)
    BY <2>1, <2>6, <2>7 DEF RestRead
  <2>. QED
    BY <2>8 DEF g
<1>. QED
  BY <1>3, <1>4

\* The list read from one of its batches on is the rest of the list.
LEMMA RestOfList ==
    ASSUME NEW L, Linked(Storage, L), NEW q, IsList(Storage, q, L), NEW j \in 1..Len(q)
    PROVE  ChainFrom(q[j]) = SubSeq(q, j, Len(q))
<1>. DEFINE m == batchCount + 1
            len == Len(q)
            frame == [seq |-> <<>>, n |-> q[j]]
<1>1. batchCount \in Nat /\ len \in Nat /\ len <= batchCount
  BY DEF Linked, IsList, Storage
<1>2. PICK it : LoopFrames("chain", it, frame, m) /\ ChainFrom(q[j]) = it[m].seq
  BY <1>1, ChainLoopRuns
<1>3. m \in Nat /\ \A k \in 0..m : it[k] = IF k = 0 THEN frame ELSE chainStep(it[k - 1])
  BY <1>1, <1>2 DEF LoopFrames, LoopStep
<1>4. RestRead(frame, 0, q, j)
  <2>1. j \in j..(len + 1) /\ j <= len /\ j \in Int /\ j - 1 \in Int /\ j - 1 < j /\ j = j + 0
    BY <1>1
  <2>2. SubSeq(q, j, j - 1) = <<>>
    BY <2>1, SubSeqEmpty
  <2>. QED
    BY <2>1, <2>2 DEF RestRead
<1>. HIDE DEF frame, m
<1>. DEFINE G == {k \in 0..m : RestRead(it[k], k, q, j)}
<1>5. 0 \in G
  BY <1>3, <1>4
<1>6. ASSUME NEW k \in 0..(m - 1), k \in G PROVE k + 1 \in G
  <2>1. k \in Nat /\ k + 1 \in 0..m /\ k + 1 # 0 /\ (k + 1) - 1 = k /\ RestRead(it[k], k, q, j)
    BY <1>3, <1>6
  <2>2. it[k + 1] = chainStep(it[k])
    BY <1>3, <2>1
  <2>3. RestRead(it[k + 1], k + 1, q, j)
    BY <2>1, <2>2, RestStepReads
  <2>. QED
    BY <2>1, <2>3
<1>7. RestRead(it[m], m, q, j)
  <2>. HIDE DEF G
  <2>1. 0..m \subseteq G
    BY <1>3, <1>5, <1>6, UpToInduction
  <2>2. m \in G
    BY <1>3, <2>1
  <2>. QED
    BY <2>2 DEF G
<1>8. PICK n \in j..(len + 1) : it[m].seq = SubSeq(q, j, n - 1) /\ (n = j + m \/ n = len + 1)
  BY <1>7 DEF RestRead
<1>9. n - 1 = len
  BY <1>1, <1>8 DEF m
<1>. QED
  BY <1>2, <1>8, <1>9

\* What the places of the full batches are.
LEMMA FullBefore ==
    ASSUME NEW L, EngineStore(Storage, L), NEW q, IsList(Storage, q, L), NEW j \in 1..Len(q),
           q[j] = Storage.partial.batchNo
    PROVE  /\ \A k \in 1..(j - 1) : FullAt(Storage, q[k])
           /\ \A k \in j..Len(q) : ~FullAt(Storage, q[k])
<1>. DEFINE len == Len(q)
<1>1. /\ len \in Nat /\ \A i \in 1..len : q[i] \in L
      /\ \A i \in 1..(len - 1) : NextOf(Storage, q[i]) = q[i + 1]
  BY ElementOfSeq DEF IsList, IsRun
<1>2. /\ \A n \in L : NextOf(Storage, n) # 0 /\ FullAt(Storage, NextOf(Storage, n)) => FullAt(Storage, n)
      /\ 0 \notin L
  BY LinksAreNumbers DEF EngineStore, Linked
<1>3. ~FullAt(Storage, q[j]) /\ \A n \in L : NextOf(Storage, n) = q[j] => FullAt(Storage, n)
  BY <1>1, <1>2 DEF EngineStore, PartialPlaced
<1>4. \A i \in 1..(len - 1) : FullAt(Storage, q[i + 1]) => FullAt(Storage, q[i])
  <2> SUFFICES ASSUME NEW i \in 1..(len - 1), FullAt(Storage, q[i + 1]) PROVE FullAt(Storage, q[i])
    OBVIOUS
  <2>1. i \in 1..len /\ i + 1 \in 1..len /\ NextOf(Storage, q[i]) = q[i + 1]
    BY <1>1
  <2>2. q[i] \in L /\ q[i + 1] \in L
    BY <1>1, <2>1
  <2>. QED
    BY <1>2, <2>1, <2>2
<1>. HIDE DEF len
<1>5. \A k \in j..len : ~FullAt(Storage, q[k])
  <2>. DEFINE m == len - j
              G == {k \in 0..m : ~FullAt(Storage, q[j + k])}
  <2>1. m \in Nat /\ j \in Nat /\ j + 0 = j
    BY <1>1 DEF len
  <2>2. 0 \in G
    BY <1>3, <2>1
  <2>3. ASSUME NEW k \in 0..(m - 1), k \in G PROVE k + 1 \in G
    <3>1. k + 1 \in 0..m /\ j + k \in 1..(len - 1) /\ (j + k) + 1 = j + (k + 1) /\ ~FullAt(Storage, q[j + k])
      BY <1>1, <2>1, <2>3
    <3>2. ~FullAt(Storage, q[j + (k + 1)])
      BY <1>4, <3>1
    <3>. QED
      BY <3>1, <3>2
  <2>4. 0..m \subseteq G
    <3>. HIDE DEF G, m
    <3>. QED
      BY <2>1, <2>2, <2>3, UpToInduction
  <2>5. ASSUME NEW k \in j..len PROVE ~FullAt(Storage, q[k])
    <3>1. k - j \in 0..m /\ j + (k - j) = k
      BY <1>1, <2>1, <2>5
    <3>. QED
      BY <2>4, <3>1
  <2>. QED
    BY <2>5
<1>6. \A k \in 1..(j - 1) : FullAt(Storage, q[k])
  <2>1. CASE j = 1
    BY <2>1
  <2>2. CASE j # 1
    <3>. DEFINE m == j - 2
                G == {k \in 0..m : FullAt(Storage, q[(j - 1) - k])}
    <3>1. m \in Nat /\ j \in Nat /\ (j - 1) - 0 = j - 1 /\ j <= len /\ j - 1 \in 1..(len - 1) /\ (j - 1) + 1 = j
      BY <1>1, <2>2 DEF len
    <3>2. 0 \in G
      <4>1. FullAt(Storage, q[j - 1])
        BY <1>1, <1>3, <3>1
      <4>. QED
        BY <3>1, <4>1
    <3>3. ASSUME NEW k \in 0..(m - 1), k \in G PROVE k + 1 \in G
      <4>1. k + 1 \in 0..m /\ (j - 1) - (k + 1) \in 1..(len - 1)
            /\ ((j - 1) - (k + 1)) + 1 = (j - 1) - k /\ FullAt(Storage, q[(j - 1) - k])
        BY <1>1, <3>1, <3>3
      <4>2. FullAt(Storage, q[(j - 1) - (k + 1)])
        BY <1>4, <4>1
      <4>. QED
        BY <4>1, <4>2
    <3>4. 0..m \subseteq G
      <4>. HIDE DEF G, m
      <4>. QED
        BY <3>1, <3>2, <3>3, UpToInduction
    <3>5. ASSUME NEW k \in 1..(j - 1) PROVE FullAt(Storage, q[k])
      <4>1. (j - 1) - k \in 0..m /\ (j - 1) - ((j - 1) - k) = k
        BY <3>1, <3>5
      <4>. QED
        BY <3>4, <4>1
    <3>. QED
      BY <3>5
  <2>. QED
    BY <2>1, <2>2
<1>. QED
  BY <1>5, <1>6 DEF len

\* The invariant is about the list that one reads from the storage.
LEMMA RoundsInvListed == RoundsInv => ListWellFormed
<1> SUFFICES ASSUME RoundsInv PROVE ListWellFormed
  OBVIOUS
<1>1. PICK L : EngineStore(Storage, L)
  BY DEF RoundsInv
<1>2. /\ Storage.batchCount = batchCount /\ Storage.partial = partial /\ Storage.firstOpenBatchNo = firstOpenBatchNo
      /\ Linked(Storage, L)
  BY <1>1 DEF Storage, EngineStore
<1>3. PartialRoundNotFull
  <2>1. PartFits(partial, BatchAt(Storage, partial.batchNo))
    BY <1>1, <1>2 DEF EngineStore, PartialPlaced
  <2>. QED
    BY <2>1 DEF PartFits, PartialRoundNotFull
<1>4. ASSUME batchCount > 0
      PROVE  LET tail == SubSeq(Chain, 1, Len(Chain) - Len(OpenChain))
             IN  /\ IsInjective(Chain)
                 /\ BatchAt(Storage, Last(Chain)).rounds = 0
                 /\ tail \o OpenChain = Chain
                 /\ \A k \in DOMAIN tail : isFull(BatchAt(Storage, tail[k]))
                 /\ \A k \in DOMAIN OpenChain : ~isFull(BatchAt(Storage, OpenChain[k]))
                 /\ firstOpenBatchNo \in Range(OpenChain)
  <2>. DEFINE q == Chain
              len == Len(q)
              rest == OpenChain
              tail == SubSeq(q, 1, len - Len(rest))
  <2>1. IsList(Storage, q, L)
    BY <1>2, <1>4, ChainIsList
  <2>. HIDE DEF q
  <2>2. /\ q \in Seq(L) /\ len \in Nat /\ len > 0 /\ DOMAIN q = 1..len /\ \A i \in 1..len : q[i] \in L
        /\ IsInjective(q) /\ NextOf(Storage, q[len]) = 0 /\ Range(q) = L
    <3>1. q \in Seq(L) /\ q # <<>> /\ IsInjective(q) /\ NextOf(Storage, q[len]) = 0 /\ Range(q) = L
      BY <2>1 DEF IsList, IsRun
    <3>. QED
      BY <3>1, LenProperties, ElementOfSeq, EmptySeq
  <2>3. BatchAt(Storage, Last(q)).rounds = 0
    <3>1. q[len] \in L /\ Last(q) = q[len]
      BY <2>2 DEF Last
    <3>2. LastIsEmpty(BatchAt(Storage, q[len]))
      BY <1>2, <3>1 DEF Linked
    <3>. QED
      BY <2>2, <3>1, <3>2 DEF LastIsEmpty, NextOf
  <2>4. partial.batchNo \in L /\ firstOpenBatchNo \in L /\ ~FullAt(Storage, firstOpenBatchNo)
    BY <1>1, <1>2, <1>4 DEF EngineStore, PartialPlaced, FirstOpenPlaced
  <2>5. PICK j \in 1..len : q[j] = partial.batchNo
    BY <2>2, <2>4 DEF Range
  <2>6. rest = SubSeq(q, j, len)
    <3>1. rest = ChainFrom(q[j])
      BY <2>5 DEF OpenChain
    <3>. QED
      BY <1>2, <2>1, <3>1, RestOfList
  <2>. HIDE DEF rest
  <2>7. /\ Len(rest) = len - j + 1 /\ rest \in Seq(L)
        /\ \A i \in 1..(len - j + 1) : rest[i] = q[j + i - 1]
    <3>1. j \in Int /\ len \in Int /\ j <= len /\ \A i \in j..len : q[i] \in L
      BY <2>2
    <3>2. /\ SubSeq(q, j, len) \in Seq(L) /\ Len(SubSeq(q, j, len)) = len - j + 1
          /\ \A i \in 1..(len - j + 1) : SubSeq(q, j, len)[i] = q[j + i - 1]
      BY <3>1, SubSeqProperties
    <3>. QED
      BY <2>6, <3>2
  <2>8. DOMAIN rest = 1..(len - j + 1)
    BY <2>7, LenProperties
  <2>9. tail = SubSeq(q, 1, j - 1)
    BY <2>2, <2>7
  <2>. HIDE DEF tail
  <2>10. tail \o rest = q
    <3>1. 1 \in 1..(len + 1) /\ j - 1 \in (1 - 1)..len /\ len \in (j - 1)..len /\ (j - 1) + 1 = j
      BY <2>2
    <3>2. SubSeq(q, 1, j - 1) \o SubSeq(q, (j - 1) + 1, len) = SubSeq(q, 1, len)
      <4>. DEFINE i == j - 1
      <4>1. i \in (1 - 1)..len /\ len \in i..len /\ 1 \in 1..(len + 1)
        BY <3>1
      <4>. HIDE DEF i
      <4>2. SubSeq(q, 1, i) \o SubSeq(q, i + 1, len) = SubSeq(q, 1, len)
        BY <2>2, <4>1, ConcatAdjacentSubSeq
      <4>. QED
        BY <4>2 DEF i
    <3>3. SubSeq(q, 1, len) = q
      BY <2>2, SubSeqFull
    <3>. QED
      BY <2>6, <2>9, <3>1, <3>2, <3>3
  <2>11. /\ \A k \in 1..(j - 1) : FullAt(Storage, q[k])
         /\ \A k \in j..len : ~FullAt(Storage, q[k])
    BY <1>1, <1>2, <2>1, <2>5, FullBefore
  <2>12. \A k \in DOMAIN tail : isFull(BatchAt(Storage, tail[k]))
    <3>1. j - 1 \in Nat /\ j - 1 \in Int /\ 1 \in Int /\ (j - 1) - 1 + 1 = j - 1 /\ \A i \in 1..(j - 1) : q[i] \in L /\ 1 + i - 1 = i
      BY <2>2
    <3>2. /\ tail \in Seq(L) /\ Len(tail) = IF 1 <= j - 1 THEN (j - 1) - 1 + 1 ELSE 0
          /\ \A i \in 1..((j - 1) - 1 + 1) : tail[i] = q[1 + i - 1]
      BY <2>9, <3>1, SubSeqProperties
    <3>3. Len(tail) = j - 1 /\ \A i \in 1..(j - 1) : tail[i] = q[i]
      BY <3>1, <3>2
    <3>4. DOMAIN tail = 1..(j - 1)
      BY <3>2, <3>3, LenProperties
    <3>. QED
      BY <2>11, <3>3, <3>4 DEF FullAt
  <2>13. \A k \in DOMAIN rest : ~isFull(BatchAt(Storage, rest[k]))
    <3> SUFFICES ASSUME NEW k \in 1..(len - j + 1) PROVE ~FullAt(Storage, rest[k])
      BY <2>8 DEF FullAt
    <3>1. j + k - 1 \in j..len
      BY <2>2
    <3>. QED
      BY <2>7, <2>11, <3>1
  <2>14. firstOpenBatchNo \in Range(rest)
    <3>1. PICK i \in 1..len : q[i] = firstOpenBatchNo
      BY <2>2, <2>4 DEF Range
    <3>2. i \notin 1..(j - 1)
      BY <2>4, <2>11, <3>1
    <3>3. i - j + 1 \in 1..(len - j + 1) /\ j + (i - j + 1) - 1 = i
      BY <2>2, <3>2
    <3>4. rest[i - j + 1] = q[i]
      BY <2>7, <3>3
    <3>. QED
      BY <2>8, <3>1, <3>3, <3>4 DEF Range
  <2>. QED
    BY <2>2, <2>3, <2>10, <2>12, <2>13, <2>14 DEF q, tail, rest
<1>. QED
  BY <1>3, <1>4 DEF ListWellFormed

-----------------------------------------------------------------------------
(* Demand logs and batches.  Every batch of the list has a place: the      *)
(* rounds in front of it.  A slot of a demand log takes the places from    *)
(* the one of its first batch on, and ends where a batch begins.           *)

Slots == [startBatchNo : Nat, premiumRate : Nat, rounds : Nat \ {0}, unitPerRound : Nat \ {0}]

(* A slot has units in each of its rounds, and so has the batch. *)
Kinds == {"units", "rate"}
Weight(kind, d) == IF kind = "rate" THEN d.unitPerRound * d.premiumRate ELSE d.unitPerRound
HeldBy(kind, b) == IF kind = "rate" THEN b.roundPremiumRateSum ELSE b.unitPerRound

Covers(pos, d, n) == pos[d.startBatchNo] <= pos[n] /\ pos[n] < pos[d.startBatchNo] + d.rounds
SlotWeight(kind, pos, d, n) == IF Covers(pos, d, n) THEN Weight(kind, d) ELSE 0

LogWeight(kind, pos, log, n) ==
    SumFunctionOnSet([k \in DOMAIN log |-> SlotWeight(kind, pos, log[k], n)], DOMAIN log)
AllWeight(kind, pos, logs, n) ==
    SumFunctionOnSet([i \in Insureds |-> LogWeight(kind, pos, logs[i], n)], Insureds)

UnitsIn(d) == d.rounds * d.unitPerRound
LogUnits(log) == SumFunctionOnSet([k \in DOMAIN log |-> UnitsIn(log[k])], DOMAIN log)

RoundsAt(s, n) == BatchAt(s, n).rounds

SameShape(b, c) ==
    /\ b.nextBatchNo = c.nextBatchNo /\ b.rounds = c.rounds
    /\ b.unitPerRound = c.unitPerRound /\ b.roundPremiumRateSum = c.roundPremiumRateSum

(* The batch n is at its place, and the next one is behind its rounds. *)
PlacedBatch(s, pos, n) ==
    /\ RoundsAt(s, n) \in Nat
    /\ \A kind \in Kinds : HeldBy(kind, BatchAt(s, n)) \in Nat
    /\ NextOf(s, n) # 0 =>
          NextOf(s, n) \in DOMAIN pos /\ RoundsAt(s, n) > 0 /\ pos[NextOf(s, n)] = pos[n] + RoundsAt(s, n)
    /\ NextOf(s, n) = 0 => RoundsAt(s, n) = 0 /\ \A kind \in Kinds : HeldBy(kind, BatchAt(s, n)) = 0

(* The batch m is in front of n, or behind all its rounds. *)
Apart(s, pos, n, m) ==
    pos[m] < pos[n] \/ (RoundsAt(s, n) > 0 /\ pos[n] + RoundsAt(s, n) <= pos[m])

Placed(s, pos) ==
    /\ s.batchCount \in Nat /\ DOMAIN pos \subseteq 1..s.batchCount /\ pos \in [DOMAIN pos -> Nat]
    /\ s.batchCount > 0 => 1 \in DOMAIN pos
    /\ \A n \in DOMAIN pos : PlacedBatch(s, pos, n)
    /\ \A n \in DOMAIN pos : \A m \in DOMAIN pos : n # m => Apart(s, pos, n, m)

(* The slot d begins with a batch and ends where a batch begins. *)
SlotPlaced(pos, d) ==
    /\ d.startBatchNo \in DOMAIN pos
    /\ \E e \in DOMAIN pos : pos[e] = pos[d.startBatchNo] + d.rounds

LogPlaced(pos, log) == log \in Seq(Slots) /\ \A k \in DOMAIN log : SlotPlaced(pos, log[k])
LogsPlaced(pos, logs) == logs \in [Insureds -> Seq(Slots)] /\ \A i \in Insureds : LogPlaced(pos, logs[i])

(* Each batch asks for what the logs put there. *)
Asked(s, pos, logs) ==
    \A n \in DOMAIN pos, kind \in Kinds : HeldBy(kind, BatchAt(s, n)) = AllWeight(kind, pos, logs, n)

Described(s, pos, logs) == Placed(s, pos) /\ LogsPlaced(pos, logs) /\ Asked(s, pos, logs)

\* A sum with one more summand at its end.
LEMMA SumLonger ==
    ASSUME NEW n \in Nat, NEW f, NEW g, \A k \in 1..n : f[k] \in Int /\ g[k] = f[k], g[n + 1] \in Int
    PROVE  /\ Summable(f, 1..n) /\ Summable(g, 1..(n + 1))
           /\ SumFunctionOnSet(g, 1..(n + 1)) = SumFunctionOnSet(f, 1..n) + g[n + 1]
<1>1. IsFiniteSet(1..n)
  BY FS_Interval
<1>2. Summable(f, 1..n) /\ Summable(g, 1..n)
  BY <1>1 DEF Summable
<1>3. SumFunctionOnSet(g, 1..n) = SumFunctionOnSet(f, 1..n) /\ SumFunctionOnSet(f, 1..n) \in Int
  BY <1>2, SumSame, SumInt
<1>4. n + 1 \notin 1..n /\ 1..(n + 1) = (1..n) \cup {n + 1}
  OBVIOUS
<1>. DEFINE R == 1..(n + 1)
            T == (1..n) \cup {n + 1}
<1>5. Summable(g, T) /\ SumFunctionOnSet(g, T) = g[n + 1] + SumFunctionOnSet(g, 1..n)
  BY <1>2, <1>4, SumAdd
<1>6. R = T
  BY <1>4
<1>. HIDE DEF R, T
<1>7. Summable(g, R) /\ SumFunctionOnSet(g, R) = SumFunctionOnSet(f, 1..n) + g[n + 1]
  BY <1>3, <1>5, <1>6
<1>. QED
  BY <1>2, <1>7 DEF R

\* What a slot puts into a round is a number.
LEMMA SlotNumbers ==
    ASSUME NEW d \in Slots, NEW kind \in Kinds, NEW pos, NEW n
    PROVE  /\ Weight(kind, d) \in Nat /\ SlotWeight(kind, pos, d, n) \in Nat /\ UnitsIn(d) \in Nat
<1>1. d.unitPerRound \in Nat /\ d.premiumRate \in Nat /\ d.rounds \in Nat
  BY DEF Slots
<1>2. d.unitPerRound * d.premiumRate \in Nat /\ d.rounds * d.unitPerRound \in Nat
  BY <1>1
<1>. QED
  BY <1>1, <1>2 DEF Weight, SlotWeight, UnitsIn

\* Sums over a log are numbers, and grow by the slot that is appended.
LEMMA LogLonger ==
    ASSUME NEW log \in Seq(Slots), NEW d \in Slots, NEW kind \in Kinds, NEW pos, NEW n
    PROVE  /\ Append(log, d) \in Seq(Slots)
           /\ LogWeight(kind, pos, log, n) \in Int /\ LogUnits(log) \in Int
           /\ LogWeight(kind, pos, Append(log, d), n) = LogWeight(kind, pos, log, n) + SlotWeight(kind, pos, d, n)
           /\ LogUnits(Append(log, d)) = LogUnits(log) + UnitsIn(d)
<1>. DEFINE len == Len(log)
            more == Append(log, d)
            f == [k \in DOMAIN log |-> SlotWeight(kind, pos, log[k], n)]
            g == [k \in DOMAIN more |-> SlotWeight(kind, pos, more[k], n)]
            u == [k \in DOMAIN log |-> UnitsIn(log[k])]
            v == [k \in DOMAIN more |-> UnitsIn(more[k])]
<1>1. /\ len \in Nat /\ DOMAIN log = 1..len /\ DOMAIN more = 1..(len + 1) /\ more \in Seq(Slots)
      /\ \A k \in 1..len : log[k] \in Slots /\ more[k] = log[k]
      /\ more[len + 1] = d
  OBVIOUS
<1>. HIDE DEF len, more
<1>2. len + 1 \in 1..(len + 1) /\ \A k \in 1..len : k \in 1..(len + 1)
  BY <1>1
<1>3. \A k \in 1..len : SlotWeight(kind, pos, log[k], n) \in Int /\ UnitsIn(log[k]) \in Int
  BY <1>1, SlotNumbers
<1>4. SlotWeight(kind, pos, d, n) \in Int /\ UnitsIn(d) \in Int
  BY SlotNumbers
<1>5. /\ \A k \in 1..len : f[k] \in Int /\ g[k] = f[k]
      /\ g[len + 1] = SlotWeight(kind, pos, d, n)
      /\ \A k \in 1..len : u[k] \in Int /\ v[k] = u[k]
      /\ v[len + 1] = UnitsIn(d)
  BY <1>1, <1>2, <1>3
<1>6. LogWeight(kind, pos, log, n) = SumFunctionOnSet(f, 1..len) /\ LogWeight(kind, pos, more, n) = SumFunctionOnSet(g, 1..(len + 1))
  BY <1>1 DEF LogWeight
<1>7. LogUnits(log) = SumFunctionOnSet(u, 1..len) /\ LogUnits(more) = SumFunctionOnSet(v, 1..(len + 1))
  BY <1>1 DEF LogUnits
<1>. HIDE DEF f, g, u, v
<1>8. Summable(f, 1..len) /\ SumFunctionOnSet(g, 1..(len + 1)) = SumFunctionOnSet(f, 1..len) + SlotWeight(kind, pos, d, n)
  BY <1>1, <1>4, <1>5, SumLonger
<1>9. Summable(u, 1..len) /\ SumFunctionOnSet(v, 1..(len + 1)) = SumFunctionOnSet(u, 1..len) + UnitsIn(d)
  BY <1>1, <1>4, <1>5, SumLonger
<1>10. SumFunctionOnSet(f, 1..len) \in Int /\ SumFunctionOnSet(u, 1..len) \in Int
  BY <1>8, <1>9, SumInt
<1>. QED
  BY <1>1, <1>6, <1>7, <1>8, <1>9, <1>10 DEF more

\* The sums of a log depend on the places only as far as its slots do.
LEMMA LogWeightSame ==
    ASSUME NEW log \in Seq(Slots), NEW kind \in Kinds, NEW pos, NEW n, NEW qos, NEW m,
           \A k \in DOMAIN log : SlotWeight(kind, qos, log[k], m) = SlotWeight(kind, pos, log[k], n)
    PROVE  LogWeight(kind, qos, log, m) = LogWeight(kind, pos, log, n) /\ LogWeight(kind, pos, log, n) \in Int
<1>. DEFINE f == [k \in DOMAIN log |-> SlotWeight(kind, pos, log[k], n)]
            g == [k \in DOMAIN log |-> SlotWeight(kind, qos, log[k], m)]
<1>1. DOMAIN log = 1..Len(log) /\ Len(log) \in Nat /\ \A k \in DOMAIN log : log[k] \in Slots
  OBVIOUS
<1>2. \A k \in DOMAIN log : f[k] \in Int
  BY <1>1, SlotNumbers
<1>3. IsFiniteSet(DOMAIN log)
  BY <1>1, FS_Interval
<1>4. Summable(f, DOMAIN log)
  BY <1>2, <1>3 DEF Summable
<1>5. \A k \in DOMAIN log : f[k] = g[k]
  OBVIOUS
<1>. HIDE DEF f, g
<1>6. SumFunctionOnSet(f, DOMAIN log) = SumFunctionOnSet(g, DOMAIN log) /\ SumFunctionOnSet(f, DOMAIN log) \in Int
  BY <1>4, <1>5, SumSame, SumInt
<1>. QED
  BY <1>6 DEF LogWeight, f, g

(* The logs put into the place of m, by qos, what they put into n, by pos. *)
SameWeights(kind, logs, pos, n, qos, m) ==
    \A i \in Insureds : \A k \in DOMAIN logs[i] :
        SlotWeight(kind, qos, logs[i][k], m) = SlotWeight(kind, pos, logs[i][k], n)

\* ... and so do the sums of all logs.
LEMMA AllWeightSame ==
    ASSUME NEW logs \in [Insureds -> Seq(Slots)], NEW kind \in Kinds, NEW pos, NEW n, NEW qos, NEW m,
           SameWeights(kind, logs, pos, n, qos, m)
    PROVE  AllWeight(kind, qos, logs, m) = AllWeight(kind, pos, logs, n)
<1>. DEFINE f == [i \in Insureds |-> LogWeight(kind, pos, logs[i], n)]
            g == [i \in Insureds |-> LogWeight(kind, qos, logs[i], m)]
<1>1. \A i \in Insureds : LogWeight(kind, qos, logs[i], m) = LogWeight(kind, pos, logs[i], n) /\ LogWeight(kind, pos, logs[i], n) \in Int
  <2>. TAKE i \in Insureds
  <2>1. logs[i] \in Seq(Slots)
    OBVIOUS
  <2>2. \A k \in DOMAIN logs[i] : SlotWeight(kind, qos, logs[i][k], m) = SlotWeight(kind, pos, logs[i][k], n)
    BY DEF SameWeights
  <2>. QED
    BY <2>1, <2>2, LogWeightSame
<1>2. IsFiniteSet(Insureds)
  BY RoundsAssumption
<1>3. Summable(f, Insureds) /\ \A i \in Insureds : f[i] = g[i]
  BY <1>1, <1>2 DEF Summable
<1>. HIDE DEF f, g
<1>4. SumFunctionOnSet(f, Insureds) = SumFunctionOnSet(g, Insureds)
  BY <1>3, SumSame
<1>. QED
  BY <1>4 DEF AllWeight, f, g

ReplaceLog(logs, i, log) == [logs EXCEPT ![i] = log]

\* When a log changes, the sum of all logs changes by what it changes.
LEMMA AllWeightChanged ==
    ASSUME NEW logs \in [Insureds -> Seq(Slots)], NEW i \in Insureds, NEW log \in Seq(Slots),
           NEW kind \in Kinds, NEW pos, NEW n, NEW x \in Int,
           LogWeight(kind, pos, log, n) = LogWeight(kind, pos, logs[i], n) + x
    PROVE  AllWeight(kind, pos, ReplaceLog(logs, i, log), n) = AllWeight(kind, pos, logs, n) + x
<1>. DEFINE f == [j \in Insureds |-> LogWeight(kind, pos, logs[j], n)]
            g == [j \in Insureds |-> LogWeight(kind, pos, ReplaceLog(logs, i, log)[j], n)]
<1>1. \A j \in Insureds : LogWeight(kind, pos, logs[j], n) \in Int
  <2>. TAKE j \in Insureds
  <2>1. logs[j] \in Seq(Slots)
    OBVIOUS
  <2>. QED
    BY <2>1, LogWeightSame
<1>2. IsFiniteSet(Insureds)
  BY RoundsAssumption
<1>3. Summable(f, Insureds) /\ f[i] \in Int
  BY <1>1, <1>2 DEF Summable
<1>4. ChangedAt(f, g, Insureds, i) /\ g[i] = f[i] + x
  BY DEF ChangedAt, ReplaceLog
<1>. HIDE DEF f, g
<1>7. g[i] \in Int
  BY <1>3, <1>4
<1>5. SumFunctionOnSet(g, Insureds) = SumFunctionOnSet(f, Insureds) - f[i] + g[i]
  BY <1>3, <1>4, <1>7, SumChange
<1>6. SumFunctionOnSet(f, Insureds) \in Int
  BY <1>3, SumInt
<1>. QED
  BY <1>3, <1>4, <1>5, <1>6 DEF AllWeight, f, g

-----------------------------------------------------------------------------
(* What an operation does to the places.                                   *)

\* A batch has its place, and the others are in front of it or behind its rounds.
LEMMA PlaceNumbers ==
    ASSUME NEW s, NEW pos, Placed(s, pos), NEW n \in DOMAIN pos
    PROVE  /\ n \in Nat /\ n # 0 /\ pos[n] \in Nat /\ RoundsAt(s, n) \in Nat /\ PlacedBatch(s, pos, n)
           /\ \A k \in DOMAIN pos : k # n => Apart(s, pos, n, k) /\ Apart(s, pos, k, n) /\ pos[k] \in Nat
<1>1. n \in 1..s.batchCount /\ pos[n] \in Nat /\ PlacedBatch(s, pos, n) /\ s.batchCount \in Nat
  BY DEF Placed
<1>2. n \in Nat /\ n # 0
  BY <1>1
<1>3. \A k \in DOMAIN pos : k # n => Apart(s, pos, n, k) /\ Apart(s, pos, k, n) /\ pos[k] \in Nat
  BY DEF Placed
<1>. QED
  BY <1>1, <1>2, <1>3 DEF PlacedBatch

\* Only the batch n begins within its rounds.
LEMMA OneBatchWithin ==
    ASSUME NEW s, NEW pos, Placed(s, pos), NEW n \in DOMAIN pos, NEW k \in DOMAIN pos,
           pos[n] <= pos[k], pos[k] < pos[n] + RoundsAt(s, n)
    PROVE  k = n
<1>1. k # n => Apart(s, pos, n, k)
  BY PlaceNumbers
<1>2. pos[n] \in Nat /\ pos[k] \in Nat /\ RoundsAt(s, n) \in Nat
  BY PlaceNumbers
<1>. QED
  BY <1>1, <1>2 DEF Apart

\* All batches of the list have a place.
LEMMA LiveArePlaced ==
    ASSUME NEW s, NEW L, Linked(s, L), NEW pos, Placed(s, pos)
    PROVE  L \subseteq DOMAIN pos
<1>. DEFINE S == L \cap DOMAIN pos
<1>1. CASE s.batchCount = 0
  BY <1>1 DEF Linked
<1>2. CASE s.batchCount # 0
  <2>1. s.batchCount > 0
    BY <1>2 DEF Linked
  <2>2. 1 \in S /\ S \in SUBSET L
    BY <2>1 DEF Linked, Placed
  <2>3. \A n \in S : NextOf(s, n) \in S \cup {0}
    BY DEF Linked, Placed, PlacedBatch
  <2>4. S = L
    BY <2>2, <2>3 DEF Linked, Reached
  <2>. QED
    BY <2>4
<1>. QED
  BY <1>1, <1>2

\* The places and the logs do not depend on totals and states, nor on batches without a place.
LEMMA ShapeKeeps ==
    ASSUME NEW s, NEW t, NEW pos, NEW logs, Described(s, pos, logs),
           t.batchCount \in Nat, s.batchCount <= t.batchCount, t.batchCount > 0 => s.batchCount > 0,
           \A k \in DOMAIN pos : SameShape(BatchAt(t, k), BatchAt(s, k))
    PROVE  Described(t, pos, logs)
<1>1. Placed(s, pos) /\ LogsPlaced(pos, logs) /\ Asked(s, pos, logs)
  BY DEF Described
<1>2. \A k \in DOMAIN pos : /\ RoundsAt(t, k) = RoundsAt(s, k) /\ NextOf(t, k) = NextOf(s, k)
                            /\ \A kind \in Kinds : HeldBy(kind, BatchAt(t, k)) = HeldBy(kind, BatchAt(s, k))
  BY DEF SameShape, RoundsAt, NextOf, HeldBy
<1>3. \A k \in DOMAIN pos : PlacedBatch(t, pos, k)
  BY <1>1, <1>2 DEF Placed, PlacedBatch
<1>4. \A n \in DOMAIN pos : \A m \in DOMAIN pos : n # m => Apart(t, pos, n, m)
  BY <1>1, <1>2 DEF Placed, Apart
<1>5. DOMAIN pos \subseteq 1..t.batchCount
  <2>1. s.batchCount \in Nat /\ DOMAIN pos \subseteq 1..s.batchCount
    BY <1>1 DEF Placed
  <2>2. 1..s.batchCount \subseteq 1..t.batchCount
    BY <2>1
  <2>. QED
    BY <2>1, <2>2
<1>6. Placed(t, pos)
  BY <1>1, <1>3, <1>4, <1>5 DEF Placed
<1>7. Asked(t, pos, logs)
  BY <1>1, <1>2 DEF Asked
<1>. QED
  BY <1>1, <1>6, <1>7 DEF Described

(* The batch n of s is divided in t: its first rounds stay, and the other  *)
(* ones, if any, are in the new batch m behind it.                         *)
DividedAt(s, t, pos, n, m) ==
    LET b == BatchAt(t, n)
        c == BatchAt(t, m)
    IN  /\ t.batchCount \in Nat /\ s.batchCount <= t.batchCount
        /\ t.batchCount > 0 => s.batchCount > 0
        /\ m \in 1..t.batchCount /\ m \notin DOMAIN pos
        /\ \A k \in DOMAIN pos : k # n => SameShape(BatchAt(t, k), BatchAt(s, k))
        /\ b.rounds \in Nat /\ b.rounds > 0 /\ b.nextBatchNo = m
        /\ c.rounds \in Nat /\ c.nextBatchNo = NextOf(s, n)
        /\ RoundsAt(s, n) = 0 => c.rounds = 0
        /\ RoundsAt(s, n) > 0 => c.rounds > 0 /\ b.rounds + c.rounds = RoundsAt(s, n)
        /\ \A kind \in Kinds : HeldBy(kind, b) = HeldBy(kind, BatchAt(s, n)) /\ HeldBy(kind, c) = HeldBy(kind, BatchAt(s, n))

(* The places with the new batch. *)
WithPlace(pos, m, place) == [k \in DOMAIN pos \cup {m} |-> IF k = m THEN place ELSE pos[k]]

\* When a batch is divided, its place and those of the others stay.
LEMMA DividedIsPlaced ==
    ASSUME NEW s, NEW t, NEW pos, Placed(s, pos), NEW n \in DOMAIN pos, NEW m, DividedAt(s, t, pos, n, m),
           NEW qos, qos = WithPlace(pos, m, pos[n] + RoundsAt(t, n))
    PROVE  Placed(t, qos)
<1>. DEFINE r == RoundsAt(t, n)
            q == RoundsAt(t, m)
            p == pos[n]
            old == RoundsAt(s, n)
<1>1. /\ r \in Nat /\ r > 0 /\ q \in Nat /\ NextOf(t, n) = m /\ NextOf(t, m) = NextOf(s, n)
      /\ old = 0 => q = 0
      /\ old > 0 => q > 0 /\ r + q = old
      /\ m \notin DOMAIN pos /\ m \in 1..t.batchCount /\ t.batchCount \in Nat /\ s.batchCount <= t.batchCount
      /\ t.batchCount > 0 => s.batchCount > 0
  BY DEF DividedAt, RoundsAt, NextOf
<1>2. p \in Nat /\ old \in Nat /\ PlacedBatch(s, pos, n) /\ n # m /\ m # 0
  BY <1>1, PlaceNumbers
<1>3. /\ DOMAIN qos = DOMAIN pos \cup {m} /\ qos[m] = p + r /\ qos[n] = p
      /\ \A k \in DOMAIN pos : qos[k] = pos[k]
  BY <1>1 DEF WithPlace
<1>4. \A k \in DOMAIN pos : k # n => /\ RoundsAt(t, k) = RoundsAt(s, k) /\ NextOf(t, k) = NextOf(s, k)
                                     /\ \A kind \in Kinds : HeldBy(kind, BatchAt(t, k)) = HeldBy(kind, BatchAt(s, k))
  BY DEF DividedAt, SameShape, RoundsAt, NextOf, HeldBy
<1>5. \A kind \in Kinds : /\ HeldBy(kind, BatchAt(t, n)) = HeldBy(kind, BatchAt(s, n))
                          /\ HeldBy(kind, BatchAt(t, m)) = HeldBy(kind, BatchAt(s, n))
  BY DEF DividedAt
<1>. HIDE DEF r, q, p, old
<1>6. qos \in [DOMAIN qos -> Nat] /\ DOMAIN qos \subseteq 1..t.batchCount /\ (t.batchCount > 0 => 1 \in DOMAIN qos)
  <2>1. s.batchCount \in Nat /\ DOMAIN pos \subseteq 1..s.batchCount /\ pos \in [DOMAIN pos -> Nat] /\ (s.batchCount > 0 => 1 \in DOMAIN pos)
    BY DEF Placed
  <2>2. 1..s.batchCount \subseteq 1..t.batchCount
    BY <1>1, <2>1
  <2>3. p + r \in Nat
    BY <1>1, <1>2
  <2>4. qos = WithPlace(pos, m, p + r)
    BY DEF p, r
  <2>5. qos \in [DOMAIN pos \cup {m} -> Nat]
    BY <2>1, <2>3, <2>4 DEF WithPlace
  <2>. QED
    BY <1>1, <1>3, <2>1, <2>2, <2>5
<1>7. /\ old > 0 => NextOf(s, n) \in DOMAIN pos /\ NextOf(s, n) # 0 /\ pos[NextOf(s, n)] = p + old
      /\ old = 0 => NextOf(s, n) = 0 /\ \A kind \in Kinds : HeldBy(kind, BatchAt(s, n)) = 0
      /\ \A kind \in Kinds : HeldBy(kind, BatchAt(s, n)) \in Nat
  BY <1>2 DEF PlacedBatch, old, p
<1>8. PlacedBatch(t, qos, n)
  BY <1>1, <1>2, <1>3, <1>5, <1>7 DEF PlacedBatch, r
<1>9. PlacedBatch(t, qos, m)
  <2>1. CASE old = 0
    BY <1>1, <1>2, <1>5, <1>7, <2>1 DEF PlacedBatch, q
  <2>2. CASE old > 0
    <3>1. NextOf(t, m) # 0 /\ NextOf(t, m) \in DOMAIN qos /\ qos[NextOf(t, m)] = qos[m] + q
      BY <1>1, <1>2, <1>3, <1>7, <2>2
    <3>. QED
      BY <1>1, <1>5, <1>7, <2>2, <3>1 DEF PlacedBatch, q
  <2>. QED
    BY <1>2, <2>1, <2>2
<1>10. \A k \in DOMAIN pos : k # n => PlacedBatch(t, qos, k)
  <2> SUFFICES ASSUME NEW k \in DOMAIN pos, k # n PROVE PlacedBatch(t, qos, k)
    OBVIOUS
  <2>1. PlacedBatch(s, pos, k)
    BY PlaceNumbers
  <2>. QED
    BY <1>3, <1>4, <2>1 DEF PlacedBatch
<1>11. \A k \in DOMAIN pos : k # n => /\ pos[k] \in Nat /\ RoundsAt(s, k) \in Nat
                                      /\ pos[k] < p \/ (p + r + q <= pos[k] /\ q > 0)
                                      /\ p < pos[k] \/ (RoundsAt(s, k) > 0 /\ pos[k] + RoundsAt(s, k) <= p)
  <2> SUFFICES ASSUME NEW k \in DOMAIN pos, k # n
               PROVE  /\ pos[k] \in Nat /\ RoundsAt(s, k) \in Nat
                      /\ pos[k] < p \/ (p + r + q <= pos[k] /\ q > 0)
                      /\ p < pos[k] \/ (RoundsAt(s, k) > 0 /\ pos[k] + RoundsAt(s, k) <= p)
    OBVIOUS
  <2>1. pos[k] \in Nat /\ RoundsAt(s, k) \in Nat /\ Apart(s, pos, n, k) /\ Apart(s, pos, k, n)
    BY PlaceNumbers
  <2>2. pos[k] < p \/ (old > 0 /\ p + old <= pos[k])
    BY <2>1 DEF Apart, p, old
  <2>3. p < pos[k] \/ (RoundsAt(s, k) > 0 /\ pos[k] + RoundsAt(s, k) <= p)
    BY <2>1 DEF Apart, p
  <2>4. old > 0 => p + r + q = p + old /\ q > 0
    BY <1>1, <1>2
  <2>. QED
    BY <2>1, <2>2, <2>3, <2>4
<1>12. \A k \in DOMAIN pos : k # n => /\ Apart(t, qos, n, k) /\ Apart(t, qos, k, n)
                                      /\ Apart(t, qos, m, k) /\ Apart(t, qos, k, m)
  <2> SUFFICES ASSUME NEW k \in DOMAIN pos, k # n
               PROVE  /\ Apart(t, qos, n, k) /\ Apart(t, qos, k, n)
                      /\ Apart(t, qos, m, k) /\ Apart(t, qos, k, m)
    OBVIOUS
  <2>1. /\ pos[k] \in Nat /\ RoundsAt(s, k) \in Nat
        /\ pos[k] < p \/ (p + r + q <= pos[k] /\ q > 0)
        /\ p < pos[k] \/ (RoundsAt(s, k) > 0 /\ pos[k] + RoundsAt(s, k) <= p)
    BY <1>11
  <2>2. qos[k] = pos[k] /\ qos[n] = p /\ qos[m] = p + r /\ RoundsAt(t, k) = RoundsAt(s, k)
        /\ RoundsAt(t, n) = r /\ RoundsAt(t, m) = q
    BY <1>3, <1>4 DEF r, q
  <2>3. Apart(t, qos, n, k)
    BY <1>1, <1>2, <2>1, <2>2 DEF Apart
  <2>4. Apart(t, qos, k, n)
    BY <1>1, <1>2, <2>1, <2>2 DEF Apart
  <2>5. Apart(t, qos, m, k)
    BY <1>1, <1>2, <2>1, <2>2 DEF Apart
  <2>6. Apart(t, qos, k, m)
    BY <1>1, <1>2, <2>1, <2>2 DEF Apart
  <2>. QED
    BY <2>3, <2>4, <2>5, <2>6
<1>13. Apart(t, qos, n, m) /\ Apart(t, qos, m, n)
  BY <1>1, <1>2, <1>3 DEF Apart, r
<1>14. \A j \in DOMAIN pos : \A k \in DOMAIN pos : j # n /\ k # n /\ j # k => Apart(t, qos, j, k)
  <2>1. \A j \in DOMAIN pos : \A k \in DOMAIN pos : j # k => Apart(s, pos, j, k)
    BY DEF Placed
  <2>. QED
    BY <1>3, <1>4, <2>1 DEF Apart
<1>15. \A k \in DOMAIN qos : PlacedBatch(t, qos, k)
  BY <1>3, <1>8, <1>9, <1>10
<1>16. \A j \in DOMAIN qos : \A k \in DOMAIN qos : j # k => Apart(t, qos, j, k)
  BY <1>3, <1>12, <1>13, <1>14
<1>. QED
  BY <1>1, <1>6, <1>15, <1>16 DEF Placed

\* ... and both parts have the slots of the whole: no slot begins or ends between them.
LEMMA DividedIsCovered ==
    ASSUME NEW s, NEW t, NEW pos, Placed(s, pos), NEW n \in DOMAIN pos, NEW m, DividedAt(s, t, pos, n, m),
           NEW qos, qos = WithPlace(pos, m, pos[n] + RoundsAt(t, n)),
           NEW d \in Slots, SlotPlaced(pos, d), NEW kind \in Kinds
    PROVE  /\ SlotWeight(kind, qos, d, m) = SlotWeight(kind, pos, d, n)
           /\ \A k \in DOMAIN pos : SlotWeight(kind, qos, d, k) = SlotWeight(kind, pos, d, k)
           /\ SlotPlaced(qos, d)
<1>. DEFINE r == RoundsAt(t, n)
            q == RoundsAt(t, m)
            p == pos[n]
            a == d.startBatchNo
<1>1. /\ r \in Nat /\ r > 0 /\ q \in Nat /\ RoundsAt(s, n) \in Nat /\ m \notin DOMAIN pos
      /\ RoundsAt(s, n) > 0 => q > 0 /\ r + q = RoundsAt(s, n)
  BY PlaceNumbers DEF DividedAt, RoundsAt
<1>2. /\ DOMAIN qos = DOMAIN pos \cup {m} /\ qos[m] = p + r
      /\ \A k \in DOMAIN pos : qos[k] = pos[k]
  BY <1>1 DEF WithPlace
<1>3. PICK e \in DOMAIN pos : pos[e] = pos[a] + d.rounds
  BY DEF SlotPlaced
<1>4. a \in DOMAIN pos /\ p \in Nat /\ pos[a] \in Nat /\ d.rounds \in Nat
  BY PlaceNumbers DEF SlotPlaced, Slots
<1>5. \A k \in DOMAIN pos : k # n => pos[k] \in Nat /\ (pos[k] < p \/ (p + r + q <= pos[k] /\ q > 0))
  <2> SUFFICES ASSUME NEW k \in DOMAIN pos, k # n
               PROVE  pos[k] \in Nat /\ (pos[k] < p \/ (p + r + q <= pos[k] /\ q > 0))
    OBVIOUS
  <2>1. pos[k] \in Nat /\ (pos[k] < p \/ (RoundsAt(s, n) > 0 /\ p + RoundsAt(s, n) <= pos[k]))
    BY PlaceNumbers DEF Apart
  <2>. HIDE DEF r, q, p
  <2>2. RoundsAt(s, n) > 0 => p + r + q = p + RoundsAt(s, n)
    BY <1>1, <1>4
  <2>. QED
    BY <1>1, <2>1, <2>2
<1>. HIDE DEF r, q, p, a
<1>6. \A k \in DOMAIN pos : Covers(qos, d, k) <=> Covers(pos, d, k)
  BY <1>2, <1>4 DEF Covers, a
<1>7. Covers(qos, d, m) <=> (pos[a] <= p + r /\ p + r < pos[a] + d.rounds)
  BY <1>2, <1>4 DEF Covers, a
<1>8. Covers(pos, d, n) <=> (pos[a] <= p /\ p < pos[a] + d.rounds)
  BY DEF Covers, a, p
<1>9. Covers(qos, d, m) => Covers(pos, d, n)
  <2>1. pos[a] <= p + r => pos[a] <= p
    BY <1>1, <1>4, <1>5 DEF p
  <2>. QED
    BY <1>1, <1>4, <1>7, <1>8, <2>1
<1>10. Covers(pos, d, n) => Covers(qos, d, m)
  <2> SUFFICES ASSUME pos[a] <= p, p < pos[e] PROVE p + r < pos[e]
    BY <1>1, <1>3, <1>4, <1>7, <1>8
  <2>1. e # n
    BY <1>4 DEF p
  <2>2. pos[e] \in Nat /\ p + r + q <= pos[e] /\ q > 0
    BY <1>4, <1>5, <2>1
  <2>. QED
    BY <1>1, <1>4, <2>2
<1>11. SlotPlaced(qos, d)
  BY <1>2, <1>3, <1>4 DEF SlotPlaced, a
<1>. QED
  BY <1>6, <1>9, <1>10, <1>11 DEF SlotWeight

\* Dividing a batch leaves the logs as they are in order.
LEMMA DividedIsDescribed ==
    ASSUME NEW s, NEW t, NEW pos, NEW logs, Described(s, pos, logs), NEW n \in DOMAIN pos, NEW m, DividedAt(s, t, pos, n, m),
           NEW qos, qos = WithPlace(pos, m, pos[n] + RoundsAt(t, n))
    PROVE  Described(t, qos, logs)
<1>1. Placed(s, pos) /\ LogsPlaced(pos, logs) /\ Asked(s, pos, logs) /\ logs \in [Insureds -> Seq(Slots)]
  BY DEF Described, LogsPlaced
<1>2. Placed(t, qos)
  BY <1>1, DividedIsPlaced
<1>3. \A i \in Insureds : \A j \in DOMAIN logs[i] : logs[i][j] \in Slots /\ SlotPlaced(pos, logs[i][j])
  BY <1>1 DEF LogsPlaced, LogPlaced
<1>4. \A i \in Insureds : \A j \in DOMAIN logs[i] : \A kind \in Kinds :
         /\ SlotWeight(kind, qos, logs[i][j], m) = SlotWeight(kind, pos, logs[i][j], n)
         /\ \A k \in DOMAIN pos : SlotWeight(kind, qos, logs[i][j], k) = SlotWeight(kind, pos, logs[i][j], k)
         /\ SlotPlaced(qos, logs[i][j])
  BY <1>1, <1>3, DividedIsCovered
<1>5. LogsPlaced(qos, logs)
  <2>1. Kinds # {}
    BY DEF Kinds
  <2>. QED
    BY <1>1, <1>4, <2>1 DEF LogsPlaced, LogPlaced
<1>6. \A kind \in Kinds : AllWeight(kind, qos, logs, m) = AllWeight(kind, pos, logs, n)
  <2>1. \A kind \in Kinds : SameWeights(kind, logs, pos, n, qos, m)
    BY <1>4 DEF SameWeights
  <2>. QED
    BY <1>1, <2>1, AllWeightSame
<1>7. \A kind \in Kinds : \A k \in DOMAIN pos : AllWeight(kind, qos, logs, k) = AllWeight(kind, pos, logs, k)
  <2>1. \A kind \in Kinds : \A k \in DOMAIN pos : SameWeights(kind, logs, pos, k, qos, k)
    BY <1>4 DEF SameWeights
  <2>. QED
    BY <1>1, <2>1, AllWeightSame
<1>8. DOMAIN qos = DOMAIN pos \cup {m}
  BY DEF WithPlace
<1>9. \A kind \in Kinds : /\ HeldBy(kind, BatchAt(t, n)) = HeldBy(kind, BatchAt(s, n))
                          /\ HeldBy(kind, BatchAt(t, m)) = HeldBy(kind, BatchAt(s, n))
                          /\ \A k \in DOMAIN pos : k # n => HeldBy(kind, BatchAt(t, k)) = HeldBy(kind, BatchAt(s, k))
  BY DEF DividedAt, SameShape, HeldBy
<1>10. Asked(t, qos, logs)
  BY <1>1, <1>6, <1>7, <1>8, <1>9 DEF Asked
<1>. QED
  BY <1>2, <1>5, <1>10 DEF Described

(* Only the units of batch n differ, by those of d in each of its rounds. *)
UnitsAddedAt(s, t, pos, n, d) ==
    /\ t.batchCount = s.batchCount
    /\ \A k \in DOMAIN pos : k # n => SameShape(BatchAt(t, k), BatchAt(s, k))
    /\ RoundsAt(t, n) = RoundsAt(s, n) /\ NextOf(t, n) = NextOf(s, n) /\ RoundsAt(s, n) > 0
    /\ \A kind \in Kinds : HeldBy(kind, BatchAt(t, n)) = HeldBy(kind, BatchAt(s, n)) + Weight(kind, d)

(* ... and so does the log of an insured. *)
LogAddedAt(pos, n, d, old, log) ==
    \A kind \in Kinds : \A k \in DOMAIN pos :
        LogWeight(kind, pos, log, k) = LogWeight(kind, pos, old, k) + (IF k = n THEN Weight(kind, d) ELSE 0)

\* Units that are added to a batch and to a log leave the logs in order.
LEMMA AddedIsDescribed ==
    ASSUME NEW s, NEW t, NEW pos, NEW logs, Described(s, pos, logs), NEW n \in DOMAIN pos, NEW d \in Slots,
           UnitsAddedAt(s, t, pos, n, d),
           NEW i \in Insureds, NEW log, LogPlaced(pos, log), LogAddedAt(pos, n, d, logs[i], log)
    PROVE  Described(t, pos, ReplaceLog(logs, i, log))
<1>. DEFINE new == ReplaceLog(logs, i, log)
<1>1. Placed(s, pos) /\ LogsPlaced(pos, logs) /\ Asked(s, pos, logs) /\ logs \in [Insureds -> Seq(Slots)]
      /\ log \in Seq(Slots)
  BY DEF Described, LogsPlaced, LogPlaced
<1>2. \A kind \in Kinds : Weight(kind, d) \in Nat
  BY SlotNumbers
<1>3. LogsPlaced(pos, new)
  <2>1. new \in [Insureds -> Seq(Slots)] /\ \A j \in Insureds : new[j] = IF j = i THEN log ELSE logs[j]
    BY <1>1 DEF ReplaceLog
  <2>. QED
    BY <1>1, <2>1 DEF LogsPlaced
<1>4. \A k \in DOMAIN pos : k # n => /\ RoundsAt(t, k) = RoundsAt(s, k) /\ NextOf(t, k) = NextOf(s, k)
                                     /\ \A kind \in Kinds : HeldBy(kind, BatchAt(t, k)) = HeldBy(kind, BatchAt(s, k))
  BY DEF UnitsAddedAt, SameShape, RoundsAt, NextOf, HeldBy
<1>5. /\ RoundsAt(t, n) = RoundsAt(s, n) /\ NextOf(t, n) = NextOf(s, n) /\ RoundsAt(s, n) > 0 /\ t.batchCount = s.batchCount
      /\ \A kind \in Kinds : HeldBy(kind, BatchAt(t, n)) = HeldBy(kind, BatchAt(s, n)) + Weight(kind, d)
  BY DEF UnitsAddedAt
<1>6. \A k \in DOMAIN pos : PlacedBatch(t, pos, k)
  <2>1. \A k \in DOMAIN pos : k # n => PlacedBatch(t, pos, k)
    BY <1>1, <1>4 DEF Placed, PlacedBatch
  <2>2. PlacedBatch(s, pos, n)
    BY <1>1 DEF Placed
  <2>3. \A kind \in Kinds : HeldBy(kind, BatchAt(t, n)) \in Nat
    BY <1>2, <1>5, <2>2 DEF PlacedBatch
  <2>4. RoundsAt(s, n) # 0
    BY <1>5
  <2>5. PlacedBatch(t, pos, n)
    BY <1>5, <2>2, <2>3, <2>4 DEF PlacedBatch
  <2>. QED
    BY <2>1, <2>5
<1>7. \A k \in DOMAIN pos : RoundsAt(t, k) = RoundsAt(s, k)
  BY <1>4, <1>5
<1>8. Placed(t, pos)
  <2>1. \A j \in DOMAIN pos : \A k \in DOMAIN pos : j # k => Apart(t, pos, j, k)
    BY <1>1, <1>7 DEF Placed, Apart
  <2>. QED
    BY <1>1, <1>5, <1>6, <2>1 DEF Placed
<1>9. Asked(t, pos, new)
  <2> SUFFICES ASSUME NEW k \in DOMAIN pos, NEW kind \in Kinds
               PROVE  HeldBy(kind, BatchAt(t, k)) = AllWeight(kind, pos, new, k)
    BY DEF Asked
  <2>. DEFINE x == IF k = n THEN Weight(kind, d) ELSE 0
  <2>1. x \in Int
    BY <1>2
  <2>2. LogWeight(kind, pos, log, k) = LogWeight(kind, pos, logs[i], k) + x
    BY DEF LogAddedAt
  <2>3. HeldBy(kind, BatchAt(s, k)) = AllWeight(kind, pos, logs, k) /\ HeldBy(kind, BatchAt(s, k)) \in Nat
    BY <1>1 DEF Asked, Placed, PlacedBatch
  <2>4. HeldBy(kind, BatchAt(t, k)) = HeldBy(kind, BatchAt(s, k)) + x
    BY <1>4, <1>5, <2>3
  <2>. HIDE DEF x, new
  <2>5. AllWeight(kind, pos, ReplaceLog(logs, i, log), k) = AllWeight(kind, pos, logs, k) + x
    BY <1>1, <2>1, <2>2, AllWeightChanged
  <2>. QED
    BY <2>3, <2>4, <2>5 DEF new
<1>. QED
  BY <1>3, <1>8, <1>9 DEF Described

-----------------------------------------------------------------------------
(* A slot is written.                                                      *)

(* The slot in hand: it is written to the log when it has units. *)
PendingSlots == [startBatchNo : Nat, premiumRate : Nat, rounds : Nat, unitPerRound : Nat]

(* It ends in front of batch n. *)
PendingEnds(pos, d, n) ==
    d.unitPerRound # 0 => n \in DOMAIN pos /\ d.startBatchNo \in DOMAIN pos /\ pos[n] = pos[d.startBatchNo] + d.rounds

LongerSlot(d, rounds) == [d EXCEPT !.rounds = @ + rounds]
NewSlot(n, rate, rounds, units) ==
    [startBatchNo |-> n, premiumRate |-> rate, rounds |-> rounds, unitPerRound |-> units]

\* A new slot over the batch n of the list.
LEMMA NewSlotAdded ==
    ASSUME NEW s, NEW pos, Placed(s, pos), NEW n \in DOMAIN pos, RoundsAt(s, n) > 0,
           NEW old, LogPlaced(pos, old), NEW d \in Slots, d.startBatchNo = n, d.rounds = RoundsAt(s, n)
    PROVE  /\ LogPlaced(pos, Append(old, d)) /\ LogAddedAt(pos, n, d, old, Append(old, d))
           /\ LogUnits(Append(old, d)) = LogUnits(old) + UnitsIn(d)
           /\ PendingEnds(pos, d, NextOf(s, n))
<1>1. old \in Seq(Slots) /\ pos[n] \in Nat /\ RoundsAt(s, n) \in Nat /\ PlacedBatch(s, pos, n)
  BY PlaceNumbers DEF LogPlaced
<1>2. NextOf(s, n) \in DOMAIN pos /\ pos[NextOf(s, n)] = pos[n] + RoundsAt(s, n)
  BY <1>1 DEF PlacedBatch
<1>3. SlotPlaced(pos, d)
  BY <1>2 DEF SlotPlaced
<1>4. LogPlaced(pos, Append(old, d))
  <2>. DEFINE more == Append(old, d)
  <2>1. more \in Seq(Slots) /\ \A k \in DOMAIN more : more[k] = d \/ (k \in DOMAIN old /\ more[k] = old[k])
    BY <1>1
  <2>. HIDE DEF more
  <2>2. LogPlaced(pos, more)
    BY <1>3, <2>1 DEF LogPlaced
  <2>. QED
    BY <2>2 DEF more
<1>5. \A k \in DOMAIN pos : Covers(pos, d, k) <=> k = n
  <2> SUFFICES ASSUME NEW k \in DOMAIN pos PROVE Covers(pos, d, k) <=> k = n
    OBVIOUS
  <2>1. Covers(pos, d, k) => k = n
    BY OneBatchWithin DEF Covers
  <2>2. k = n => Covers(pos, d, k)
    BY <1>1 DEF Covers
  <2>. QED
    BY <2>1, <2>2
<1>6. LogAddedAt(pos, n, d, old, Append(old, d))
  <2> SUFFICES ASSUME NEW kind \in Kinds, NEW k \in DOMAIN pos
               PROVE  LogWeight(kind, pos, Append(old, d), k)
                         = LogWeight(kind, pos, old, k) + (IF k = n THEN Weight(kind, d) ELSE 0)
    BY DEF LogAddedAt
  <2>1. LogWeight(kind, pos, Append(old, d), k) = LogWeight(kind, pos, old, k) + SlotWeight(kind, pos, d, k)
    BY <1>1, LogLonger
  <2>. QED
    BY <1>5, <2>1 DEF SlotWeight
<1>7. LogUnits(Append(old, d)) = LogUnits(old) + UnitsIn(d)
  <2>1. "rate" \in Kinds
    BY DEF Kinds
  <2>. QED
    BY <1>1, <2>1, LogLonger
<1>. QED
  BY <1>2, <1>4, <1>6, <1>7 DEF PendingEnds

\* A slot that ends in front of batch n goes on over it.
LEMMA LongerSlotAdded ==
    ASSUME NEW s, NEW pos, Placed(s, pos), NEW n \in DOMAIN pos, RoundsAt(s, n) > 0,
           NEW log, NEW c \in Slots, log \in Seq(Slots), LogPlaced(pos, Append(log, c)), PendingEnds(pos, c, n),
           NEW d, d = LongerSlot(c, RoundsAt(s, n))
    PROVE  /\ d \in Slots /\ LogPlaced(pos, Append(log, d))
           /\ LogAddedAt(pos, n, d, Append(log, c), Append(log, d))
           /\ LogUnits(Append(log, d)) = LogUnits(Append(log, c)) + RoundsAt(s, n) * d.unitPerRound
           /\ PendingEnds(pos, d, NextOf(s, n))
<1>. DEFINE r == RoundsAt(s, n)
            a == c.startBatchNo
<1>1. pos[n] \in Nat /\ r \in Nat /\ PlacedBatch(s, pos, n) /\ r > 0
  BY PlaceNumbers
<1>2. c.unitPerRound \in Nat \ {0} /\ c.rounds \in Nat \ {0} /\ c.premiumRate \in Nat
  BY DEF Slots
<1>3. a \in DOMAIN pos /\ pos[n] = pos[a] + c.rounds /\ pos[a] \in Nat
  BY <1>2, PlaceNumbers DEF PendingEnds
<1>4. NextOf(s, n) \in DOMAIN pos /\ pos[NextOf(s, n)] = pos[n] + r
  BY <1>1 DEF PlacedBatch
<1>. HIDE DEF r
<1>5. /\ d \in Slots /\ d.startBatchNo = a /\ d.rounds = c.rounds + r /\ d.unitPerRound = c.unitPerRound
      /\ d.premiumRate = c.premiumRate
  <2>1. d = [c EXCEPT !.rounds = c.rounds + r]
    BY DEF LongerSlot, r, Slots
  <2>2. c.rounds + r \in Nat \ {0}
    BY <1>1, <1>2
  <2>. QED
    BY <2>1, <2>2 DEF Slots, a
<1>6. SlotPlaced(pos, d) /\ PendingEnds(pos, d, NextOf(s, n))
  BY <1>1, <1>2, <1>3, <1>4, <1>5 DEF SlotPlaced, PendingEnds
<1>7. LogPlaced(pos, Append(log, d))
  <2>. DEFINE more == Append(log, d)
              old == Append(log, c)
  <2>1. more \in Seq(Slots) /\ \A k \in DOMAIN more : more[k] = d \/ (k \in DOMAIN old /\ more[k] = old[k])
    BY <1>5
  <2>2. LogPlaced(pos, old)
    OBVIOUS
  <2>. HIDE DEF more, old
  <2>3. LogPlaced(pos, more)
    BY <1>6, <2>1, <2>2 DEF LogPlaced
  <2>. QED
    BY <2>3 DEF more
<1>8. \A kind \in Kinds : Weight(kind, d) = Weight(kind, c)
  BY <1>5 DEF Weight
<1>9. \A k \in DOMAIN pos : /\ k # n => (Covers(pos, d, k) <=> Covers(pos, c, k))
                            /\ Covers(pos, d, n) /\ ~Covers(pos, c, n)
  <2>1. Covers(pos, d, n) /\ ~Covers(pos, c, n)
    BY <1>1, <1>2, <1>3, <1>5 DEF Covers
  <2>2. ASSUME NEW k \in DOMAIN pos, k # n PROVE Covers(pos, d, k) <=> Covers(pos, c, k)
    <3>1. pos[k] \in Nat /\ (pos[k] < pos[n] \/ pos[n] + r <= pos[k])
      BY <2>2, PlaceNumbers DEF Apart, r
    <3>. QED
      BY <1>1, <1>2, <1>3, <1>5, <3>1 DEF Covers
  <2>. QED
    BY <2>1, <2>2
<1>10. LogAddedAt(pos, n, d, Append(log, c), Append(log, d))
  <2> SUFFICES ASSUME NEW kind \in Kinds, NEW k \in DOMAIN pos
               PROVE  LogWeight(kind, pos, Append(log, d), k)
                         = LogWeight(kind, pos, Append(log, c), k) + (IF k = n THEN Weight(kind, d) ELSE 0)
    BY DEF LogAddedAt
  <2>1. LogWeight(kind, pos, Append(log, d), k) = LogWeight(kind, pos, log, k) + SlotWeight(kind, pos, d, k)
        /\ LogWeight(kind, pos, Append(log, c), k) = LogWeight(kind, pos, log, k) + SlotWeight(kind, pos, c, k)
        /\ LogWeight(kind, pos, log, k) \in Int
    BY <1>5, LogLonger
  <2>2. SlotWeight(kind, pos, d, k) = SlotWeight(kind, pos, c, k) + (IF k = n THEN Weight(kind, d) ELSE 0)
    <3>1. Weight(kind, c) \in Nat
      BY SlotNumbers
    <3>2. CASE k = n
      BY <1>8, <1>9, <3>1, <3>2 DEF SlotWeight
    <3>3. CASE k # n
      BY <1>8, <1>9, <3>1, <3>3 DEF SlotWeight
    <3>. QED
      BY <3>2, <3>3
  <2>3. SlotWeight(kind, pos, c, k) \in Nat /\ Weight(kind, d) \in Nat
    BY <1>5, SlotNumbers
  <2>. QED
    BY <2>1, <2>2, <2>3
<1>11. LogUnits(Append(log, d)) = LogUnits(Append(log, c)) + r * d.unitPerRound
  <2>. DEFINE u == c.rounds * c.unitPerRound
              v == r * c.unitPerRound
  <2>1. "rate" \in Kinds
    BY DEF Kinds
  <2>2. LogUnits(Append(log, d)) = LogUnits(log) + UnitsIn(d) /\ LogUnits(Append(log, c)) = LogUnits(log) + UnitsIn(c)
        /\ LogUnits(log) \in Int
    BY <1>5, <2>1, LogLonger
  <2>3. u \in Nat /\ v \in Nat /\ UnitsIn(d) = u + v /\ UnitsIn(c) = u
    BY <1>1, <1>2, <1>5 DEF UnitsIn
  <2>. HIDE DEF u, v
  <2>4. LogUnits(Append(log, d)) = LogUnits(Append(log, c)) + v
    BY <2>2, <2>3
  <2>. QED
    BY <1>5, <2>4 DEF v
<1>. QED
  BY <1>5, <1>6, <1>7, <1>10, <1>11 DEF r

-----------------------------------------------------------------------------
(* The log of the insured in the loop of internalAddCoverageDemand.        *)

(* The log with the slot in hand, and the logs of all insureds with it. *)
LogOf(f) == PushDemand(f.log, f.demand)
LogsWith(f, log) == ReplaceLog(f.s.demands, f.insured, log)

(* What recordSlot makes of them. *)
RecordedDemand(f) ==
    IF continuesSlot(f) THEN LongerSlot(f.demand, f.b.rounds)
    ELSE NewSlot(f.batchNo, f.rate, f.b.rounds, f.addPerRound)
RecordedLog(f) == IF continuesSlot(f) THEN f.log ELSE LogOf(f)
RecordedOf(f)  == PushDemand(RecordedLog(f), RecordedDemand(f))

InHand(f) ==
    /\ f.insured \in Insureds /\ f.s.demands \in [Insureds -> Seq(Slots)]
    /\ f.log \in Seq(Slots) /\ f.demand \in PendingSlots /\ f.rate \in Nat
    /\ f.demand.unitPerRound # 0 => f.demand \in Slots

(* The units of each insured are those of its log. *)
HandCounted(f) ==
    /\ f.entry.demandedUnits = LogUnits(LogOf(f))
    /\ \A i \in Insureds : i # f.insured => f.s.insureds[i].demandedUnits = LogUnits(f.s.demands[i])

SlotsHeld(f) == InHand(f) /\ HandCounted(f)

DescribedAs(s, logs) == \E pos : Described(s, pos, logs)

(* Before a turn of the loop ... *)
LogBetween(f) ==
    /\ SlotsHeld(f) /\ SameShape(f.b, BatchAt(f.s, f.batchNo))
    /\ \E pos : Described(f.s, pos, LogsWith(f, LogOf(f))) /\ PendingEnds(pos, f.demand, f.batchNo)

(* ... after the last one ... *)
LogFinished(f) == SlotsHeld(f) /\ DescribedAs(FrameStored(f), LogsWith(f, LogOf(f)))

(* ... within a turn: the store is described without the batch of the frame *)
(* and with it ...                                                          *)
LogMid(f) ==
    /\ SlotsHeld(f) /\ DescribedAs(f.s, LogsWith(f, LogOf(f)))
    /\ \E pos : Described(FramePut(f), pos, LogsWith(f, LogOf(f))) /\ PendingEnds(pos, f.demand, f.batchNo)

(* ... and when the batch has the units that the log will have. *)
LogAdded(f) ==
    /\ SlotsHeld(f) /\ DescribedAs(f.s, LogsWith(f, LogOf(f)))
    /\ f.addPerRound \in Nat
    /\ LogUnits(RecordedOf(f)) = LogUnits(LogOf(f)) + f.addPerRound * f.b.rounds
    /\ RecordedDemand(f) \in PendingSlots /\ RecordedLog(f) \in Seq(Slots)
    /\ f.addPerRound # 0 => RecordedDemand(f) \in Slots
    /\ f.addPerRound = 0 => RecordedOf(f) = LogOf(f)
    /\ \E pos : /\ Described(FramePut(f), pos, LogsWith(f, RecordedOf(f)))
                /\ PendingEnds(pos, RecordedDemand(f), f.b.nextBatchNo)

(* The demand in hand is not changed. *)
SameHand(f, g) ==
    /\ g.log = f.log /\ g.demand = f.demand /\ g.rate = f.rate
    /\ g.insured = f.insured /\ g.entry = f.entry /\ g.batchNo = f.batchNo
    /\ g.s.demands = f.s.demands /\ g.s.insureds = f.s.insureds

\* What is known of the demand in hand stays known.
LEMMA HandKeeps ==
    ASSUME NEW f, NEW g, SameHand(f, g), SlotsHeld(f)
    PROVE  SlotsHeld(g) /\ LogOf(g) = LogOf(f) /\ \A log : LogsWith(g, log) = LogsWith(f, log)
<1>1. LogOf(g) = LogOf(f)
  BY DEF SameHand, LogOf
<1>2. \A log : LogsWith(g, log) = LogsWith(f, log)
  BY DEF SameHand, LogsWith
<1>3. InHand(g)
  BY DEF SameHand, SlotsHeld, InHand
<1>4. HandCounted(g)
  BY <1>1 DEF SameHand, SlotsHeld, HandCounted
<1>. QED
  BY <1>1, <1>2, <1>3, <1>4 DEF SlotsHeld

(* The slot, its log and its rate are not changed. *)
SameSlot(f, g) == IsDemandFrame(g) /\ g.log = f.log /\ g.demand = f.demand /\ g.rate = f.rate

\* The stages before recordSlot do not touch the slot in hand.
LEMMA StagesKeepSlot ==
    ASSUME NEW f, IsDemandFrame(f)
    PROVE  /\ SameSlot(f, appendRounds(f)) /\ SameSlot(f, unitsAdded(f)) /\ SameSlot(f, keepFirstOpen(f))
           /\ \A split : SameSlot(f, withSplit(f, split))
           /\ \A limits, add : SameSlot(f, addUnits(f, limits, add))
<1>1. SameSlot(f, appendRounds(f))
  <2>. DEFINE appended == internalBatchAppend(f.openRounds, f.unitCount)
              n == f.s.batchCount + 1
              isLast == f.b.nextBatchNo = 0
              armA == f.b.rounds # 0
              armB == f.b.rounds = 0 /\ appended.rounds = 0
              rb == [f EXCEPT !.done = TRUE, !.panic = @ \/ appended.panic]
              rc == [f EXCEPT !.b.rounds = appended.rounds,
                              !.b.nextBatchNo = IF isLast THEN n ELSE @,
                              !.openRounds = @ + appended.rounds,
                              !.updateBatch = TRUE,
                              !.s = IF isLast THEN [initTimeMark(@, n) EXCEPT !.batchCount = n, !.latestBatchNo = n]
                                    ELSE @]
              g == appendRounds(f)
  <2>1. g = CASE armA -> f [] armB -> rb [] OTHER -> rc
    BY DEF appendRounds
  <2>. HIDE DEF appended, n, isLast
  <2>2. SameSlot(f, f) /\ SameSlot(f, rb) /\ SameSlot(f, rc)
    BY DEF SameSlot, IsDemandFrame, DemandFields
  <2>. HIDE DEF armA, armB, rb, rc, g
  <2>3. g = f \/ g = rb \/ g = rc
    BY <2>1
  <2>. QED
    BY <2>2, <2>3 DEF g
<1>2. SameSlot(f, unitsAdded(f)) /\ SameSlot(f, keepFirstOpen(f))
  BY DEF SameSlot, unitsAdded, keepFirstOpen, IsDemandFrame, DemandFields
<1>3. \A split : SameSlot(f, withSplit(f, split))
  BY DEF SameSlot, withSplit, IsDemandFrame, DemandFields
<1>4. ASSUME NEW limits, NEW add PROVE SameSlot(f, addUnits(f, limits, add))
  <2>. DEFINE units == f.b.unitPerRound + add
              state == IF units < limits.min THEN f.b.state
                       ELSE IF f.isFirstOfOpen /\ units >= limits.ready THEN "Ready" ELSE "ReadyMin"
              g == [f EXCEPT !.b.unitPerRound = units, !.b.roundPremiumRateSum = @ + f.rate * add, !.b.state = state,
                             !.addPerRound = add, !.takeNext = limits.share > 0]
  <2>1. addUnits(f, limits, add) = g
    BY DEF addUnits
  <2>. HIDE DEF units, state
  <2>2. SameSlot(f, g)
    BY DEF SameSlot, IsDemandFrame, DemandFields
  <2>. QED
    BY <2>1, <2>2
<1>. QED
  BY <1>1, <1>2, <1>3, <1>4

\* The log with the slot in hand is a log of slots.
LEMMA LogOfIsLog ==
    ASSUME NEW f, InHand(f)
    PROVE  /\ LogOf(f) \in Seq(Slots)
           /\ f.demand.unitPerRound = 0 => LogOf(f) = f.log
           /\ f.demand.unitPerRound # 0 => LogOf(f) = Append(f.log, f.demand)
<1>1. f.demand.unitPerRound # 0 => Append(f.log, f.demand) \in Seq(Slots)
  <2>1. f.log \in Seq(Slots) /\ (f.demand.unitPerRound # 0 => f.demand \in Slots)
    BY DEF InHand
  <2>. QED
    BY <2>1
<1>. QED
  BY <1>1 DEF LogOf, PushDemand, InHand

\* Whole batches that differ in totals and states only.
LEMMA DescribedMoves ==
    ASSUME NEW s, NEW t, NEW pos, NEW logs, Described(s, pos, logs), s.batchCount > 0,
           t.batchCount \in Nat, s.batchCount <= t.batchCount,
           \A k \in DOMAIN pos : SameShape(BatchAt(t, k), BatchAt(s, k))
    PROVE  Described(t, pos, logs)
  BY ShapeKeeps

\* A frame between two turns is described with its batch, too.
LEMMA BetweenIsMid ==
    ASSUME NEW f, NEW L, NEW s0, DemandBetween(f, L, s0), LogBetween(f)
    PROVE  LogMid(f) /\ LogFinished(f)
<1>. DEFINE n == f.batchNo
            t == FramePut(f)
            logs == LogsWith(f, LogOf(f))
<1>1. /\ n \in Nat /\ IsStore(f.s) /\ f.s.batchCount > 0 /\ f.s.batchCount \in Nat
  BY AppendableFacts DEF DemandBetween, Linked
<1>2. t = PutBatch(f.s, n, f.b)
  BY DEF FramePut
<1>. HIDE DEF t
<1>3. t.batchCount = f.s.batchCount /\ BatchAt(t, n) = f.b /\ Elsewhere(f.s, t, n)
  BY <1>1, <1>2, PutBatchStores
<1>4. PICK pos : Described(f.s, pos, logs) /\ PendingEnds(pos, f.demand, n)
  BY DEF LogBetween
<1>5. \A k \in DOMAIN pos : SameShape(BatchAt(t, k), BatchAt(f.s, k))
  <2>1. \A k \in DOMAIN pos : k \in Nat
    BY <1>4, PlaceNumbers DEF Described
  <2>2. SameShape(f.b, BatchAt(f.s, n)) /\ \A k : SameShape(BatchAt(f.s, k), BatchAt(f.s, k))
    BY DEF LogBetween, SameShape
  <2>. QED
    BY <1>3, <2>1, <2>2 DEF Elsewhere
<1>6. Described(t, pos, logs)
  BY <1>1, <1>3, <1>4, <1>5, DescribedMoves
<1>7. LogMid(f)
  BY <1>4, <1>6 DEF LogMid, LogBetween, DescribedAs, t
<1>8. LogFinished(f)
  <2>1. FrameStored(f) = f.s \/ FrameStored(f) = t
    BY DEF FrameStored, t
  <2>2. DescribedAs(f.s, logs) /\ DescribedAs(t, logs)
    BY <1>4, <1>6 DEF DescribedAs
  <2>. QED
    BY <2>1, <2>2 DEF LogFinished, LogBetween
<1>. QED
  BY <1>7, <1>8

\* A batch of the list that has no rounds yet is the last one.
LEMMA NoRoundsIsLast ==
    ASSUME NEW s, NEW pos, Placed(s, pos), NEW n \in DOMAIN pos, RoundsAt(s, n) = 0
    PROVE  NextOf(s, n) = 0 /\ \A kind \in Kinds : HeldBy(kind, BatchAt(s, n)) = 0
<1>1. PlacedBatch(s, pos, n)
  BY PlaceNumbers
<1>2. NextOf(s, n) = 0
  BY <1>1 DEF PlacedBatch
<1>. QED
  BY <1>1, <1>2 DEF PlacedBatch

\* The slot in hand ends where it did when there is one more batch.
LEMMA PendingKept ==
    ASSUME NEW pos, NEW d, NEW n, PendingEnds(pos, d, n), NEW m, m \notin DOMAIN pos, NEW place,
           NEW qos, qos = WithPlace(pos, m, place)
    PROVE  PendingEnds(qos, d, n)
  BY DEF PendingEnds, WithPlace

\* After appendRounds the batches ask for what the logs say.
LEMMA AppendLogs ==
    ASSUME NEW f, IsDemandFrame(f), NEW L, NEW s0, DemandBetween(f, L, s0), LogBetween(f), ~f.done,
           NEW g, g = appendRounds(f)
    PROVE  /\ g.done => LogFinished(g)
           /\ ~g.done => LogMid(g)
<1>. DEFINE n == f.batchNo
            r == internalBatchAppend(f.openRounds, f.unitCount).rounds
            m == f.s.batchCount + 1
            logs == LogsWith(f, LogOf(f))
<1>1. /\ f.b.rounds # 0 => g = f
      /\ f.b.rounds = 0 /\ r = 0 =>
            /\ IsDemandFrame(g) /\ g.done = TRUE /\ SameCounts(f, g) /\ (f.panic => g.panic)
            /\ g.s = f.s /\ g.b = f.b /\ g.updateBatch = f.updateBatch /\ g.openRounds = f.openRounds
      /\ f.b.rounds = 0 /\ r # 0 => RoundsAppended(f, g, r, m)
  BY AppendCases DEF DemandBetween
<1>2. SlotsHeld(f) /\ LogMid(f) /\ LogFinished(f) /\ SameSlot(f, g)
  BY BetweenIsMid, StagesKeepSlot DEF LogBetween
<1>3. r \in Nat
  BY AppendedRounds DEF DemandBetween, DemandNumbers
<1>. HIDE DEF r
<1>4. CASE f.b.rounds # 0
  BY <1>1, <1>2, <1>4
<1>5. CASE f.b.rounds = 0 /\ r = 0
  <2>1. /\ g.done = TRUE /\ SameCounts(f, g) /\ g.s = f.s /\ g.b = f.b /\ g.updateBatch = f.updateBatch
    BY <1>1, <1>5
  <2>2. SameHand(f, g)
    BY <1>2, <2>1 DEF SameHand, SameSlot, SameCounts
  <2>3. FrameStored(g) = FrameStored(f)
    BY <2>1 DEF FrameStored, FramePut, SameCounts
  <2>4. SlotsHeld(g) /\ LogsWith(g, LogOf(g)) = logs
    BY <1>2, <2>2, HandKeeps
  <2>. QED
    BY <1>2, <2>1, <2>3, <2>4 DEF LogFinished
<1>6. CASE f.b.rounds = 0 /\ r # 0
  <2>1. RoundsAppended(f, g, r, m)
    BY <1>1, <1>6
  <2>2. PICK pos : Described(f.s, pos, logs) /\ PendingEnds(pos, f.demand, n)
    BY DEF LogBetween
  <2>3. /\ n \in L /\ n \in Nat /\ IsStore(f.s) /\ Linked(f.s, L) /\ f.s.batchCount > 0 /\ f.s.batchCount \in Nat
        /\ SameShape(f.b, BatchAt(f.s, n)) /\ Placed(f.s, pos)
    BY <2>2, AppendableFacts DEF DemandBetween, Appendable, Linked, LogBetween, Described
  <2>4. n \in DOMAIN pos
    BY <2>3, LiveArePlaced
  <2>5. RoundsAt(f.s, n) = 0 /\ NextOf(f.s, n) = f.b.nextBatchNo
    BY <1>6, <2>3 DEF SameShape, RoundsAt, NextOf
  <2>6. f.b.nextBatchNo = 0 /\ \A kind \in Kinds : HeldBy(kind, BatchAt(f.s, n)) = 0
    BY <2>3, <2>4, <2>5, NoRoundsIsLast
  <2>7. g.b = KeptRounds(f.b, r, m) /\ g.s = NewLast(f.s, m) /\ SameCounts(f, g)
    BY <2>1, <2>6 DEF RoundsAppended
  <2>8. /\ m \in Nat /\ m \in 1..m /\ f.s.batchCount <= m /\ m \notin 1..f.s.batchCount /\ m > 0
    BY <2>3
  <2>9. DOMAIN pos \subseteq 1..f.s.batchCount /\ m \notin DOMAIN pos /\ n # m /\ \A k \in DOMAIN pos : k \in Nat
    BY <2>3, <2>4, <2>8 DEF Placed
  <2>10. BatchAt(f.s, m) = NoBatch
    BY <2>3, <2>8 DEF Linked, NoOthers
  <2>. HIDE DEF m
  <2>11. g.s.batchCount = m /\ g.s.batches = f.s.batches /\ IsStore(g.s) /\ g.s.demands = f.s.demands /\ g.s.insureds = f.s.insureds
    <3>. DEFINE marked == initTimeMark(f.s, m)
    <3>1. OnlyMarked(f.s, marked)
      BY <2>3, InitMarked
    <3>2. g.s = [marked EXCEPT !.batchCount = m, !.latestBatchNo = m]
      BY <2>7 DEF NewLast
    <3>. HIDE DEF marked
    <3>. QED
      BY <3>1, <3>2 DEF OnlyMarked, IsStore, StoreFields, SameHeads
  <2>12. SameHand(f, g)
    BY <1>2, <2>7, <2>11 DEF SameHand, SameSlot, SameCounts
  <2>13. SlotsHeld(g) /\ LogsWith(g, LogOf(g)) = logs
    BY <1>2, <2>12, HandKeeps
  <2>14. \A k : BatchAt(g.s, k) = BatchAt(f.s, k) /\ SameShape(BatchAt(g.s, k), BatchAt(f.s, k))
    BY <2>11 DEF BatchAt, SameShape
  <2>15. Described(g.s, pos, logs)
    BY <2>2, <2>3, <2>8, <2>11, <2>14, DescribedMoves
  <2>. DEFINE t == FramePut(g)
  <2>16. t = PutBatch(g.s, n, g.b)
    BY <2>7 DEF FramePut, SameCounts
  <2>. HIDE DEF t
  <2>17. t.batchCount = m /\ BatchAt(t, n) = g.b /\ Elsewhere(g.s, t, n)
    BY <2>3, <2>11, <2>16, PutBatchStores
  <2>18. IsBatch(f.b)
    BY DEF DemandBetween
  <2>19. /\ g.b.rounds = r /\ g.b.nextBatchNo = m
         /\ \A kind \in Kinds : HeldBy(kind, g.b) = HeldBy(kind, BatchAt(f.s, n))
    <3>1. g.b.rounds = r /\ g.b.nextBatchNo = m /\ g.b.unitPerRound = f.b.unitPerRound
          /\ g.b.roundPremiumRateSum = f.b.roundPremiumRateSum
      BY <2>7, <2>18 DEF KeptRounds, IsBatch, BatchFields
    <3>. QED
      BY <2>3, <3>1 DEF SameShape, HeldBy
  <2>20. BatchAt(t, m) = NoBatch /\ \A kind \in Kinds : HeldBy(kind, NoBatch) = 0
    BY <2>8, <2>9, <2>10, <2>14, <2>17 DEF Elsewhere, HeldBy, NoBatch
  <2>21. DividedAt(f.s, t, pos, n, m)
    <3>1. NoBatch.rounds = 0 /\ NoBatch.nextBatchNo = 0
      BY DEF NoBatch
    <3>2. \A k \in DOMAIN pos : k # n => SameShape(BatchAt(t, k), BatchAt(f.s, k))
      BY <2>9, <2>14, <2>17 DEF Elsewhere
    <3>3. r > 0
      BY <1>3, <1>6
    <3>. QED
      BY <1>3, <2>3, <2>5, <2>6, <2>8, <2>9, <2>17, <2>19, <2>20, <3>1, <3>2, <3>3 DEF DividedAt
  <2>. DEFINE qos == WithPlace(pos, m, pos[n] + RoundsAt(t, n))
  <2>22. Described(t, qos, logs)
    BY <2>2, <2>4, <2>21, DividedIsDescribed
  <2>23. PendingEnds(qos, g.demand, g.batchNo)
    <3>1. PendingEnds(qos, f.demand, n)
      BY <2>2, <2>9, PendingKept
    <3>. QED
      BY <2>12, <3>1 DEF SameHand
  <2>. HIDE DEF qos
  <2>24. LogMid(g)
    BY <2>13, <2>15, <2>22, <2>23 DEF LogMid, DescribedAs, t
  <2>25. g.done = f.done
    BY <2>1 DEF RoundsAppended
  <2>. QED
    BY <2>24, <2>25
<1>. QED
  BY <1>4, <1>5, <1>6

\* addUnits puts the units of the frame and their rate into the batch.
LEMMA AddUnitsHeld ==
    ASSUME NEW f, IsDemandFrame(f), IsBatch(f.b), NEW limits, NEW add,
           NEW g, g = addUnits(f, limits, add)
    PROVE  /\ g.addPerRound = add /\ g.b.unitPerRound = f.b.unitPerRound + add
           /\ g.b.roundPremiumRateSum = f.b.roundPremiumRateSum + f.rate * add
<1>. DEFINE units == f.b.unitPerRound + add
            state == IF units < limits.min THEN f.b.state
                     ELSE IF f.isFirstOfOpen /\ units >= limits.ready THEN "Ready" ELSE "ReadyMin"
            takes == limits.share > 0
            sum == f.b.roundPremiumRateSum + f.rate * add
<1>1. g = [f EXCEPT !.b.unitPerRound = units, !.b.roundPremiumRateSum = @ + f.rate * add, !.b.state = state,
                    !.addPerRound = add, !.takeNext = takes]
  BY DEF addUnits
<1>. HIDE DEF units, state, takes
<1>2. g = [f EXCEPT !.b.unitPerRound = units, !.b.roundPremiumRateSum = sum, !.b.state = state,
                    !.addPerRound = add, !.takeNext = takes]
  BY <1>1 DEF IsDemandFrame, DemandFields, IsBatch, BatchFields
<1>. HIDE DEF sum
<1>. DEFINE c == [f.b EXCEPT !.unitPerRound = units, !.roundPremiumRateSum = sum, !.state = state]
<1>3. g = [f EXCEPT !.b = c, !.addPerRound = add, !.takeNext = takes]
  BY <1>2 DEF IsDemandFrame, DemandFields
<1>4. c.unitPerRound = units /\ c.roundPremiumRateSum = sum
  BY DEF IsBatch, BatchFields
<1>. HIDE DEF c
<1>5. g.addPerRound = add /\ g.b = c
  BY <1>3 DEF IsDemandFrame, DemandFields
<1>. QED
  BY <1>4, <1>5 DEF units, sum

\* A batch is split with the slot in hand as it was.
LEMMA SplitLogs ==
    ASSUME NEW f, IsDemandFrame(f), NEW L, NEW M, NEW s0, DemandMid(f, L, M, s0), LogMid(f),
           NEW remaining \in Nat, remaining # 0, remaining < f.b.rounds,
           NEW g, g = withSplit(f, splitBatch(f.s, remaining, f.b))
    PROVE  LogMid(g)
<1>. DEFINE n == f.batchNo
            k == f.s.batchCount + 1
            split == splitBatch(f.s, remaining, f.b)
            moved == MovedRounds(f.b, remaining, k)
            t == FramePut(f)
            u == FramePut(g)
            logs == LogsWith(f, LogOf(f))
<1>1. /\ n \in Nat /\ IsStore(f.s) /\ f.s.batchCount > 0 /\ f.s.batchCount \in Nat /\ IsBatch(f.b)
      /\ Linked(t, M) /\ n \in M
  BY AppendableFacts DEF DemandMid, Linked, Appendable
<1>2. t = PutBatch(f.s, n, f.b)
  BY DEF FramePut
<1>. HIDE DEF t
<1>3. t.batchCount = f.s.batchCount /\ BatchAt(t, n) = f.b /\ Elsewhere(f.s, t, n)
  BY <1>1, <1>2, PutBatchStores
<1>4. /\ k \in Nat /\ k > 0 /\ f.s.batchCount <= k /\ k \notin 1..f.s.batchCount /\ k \in 1..k
  BY <1>1
<1>5. f.b.rounds \in Nat /\ f.b.rounds # remaining
  BY <1>1 DEF IsBatch
<1>. HIDE DEF split
<1>6. SplitOff(f.s, split.s, k, moved) /\ split.b = KeptRounds(f.b, remaining, k)
  BY <1>1, <1>4, <1>5, SplitEffects DEF split
<1>7. SameSlot(f, g) /\ SameCounts(f, g) /\ g.s = split.s /\ g.b = split.b
  <2>1. SameSlot(f, g)
    BY StagesKeepSlot DEF split
  <2>2. g = [f EXCEPT !.s = split.s, !.b = split.b, !.panic = @ \/ split.panic]
    BY DEF withSplit, split
  <2>. QED
    BY <2>1, <2>2 DEF IsDemandFrame, DemandFields, SameCounts
<1>. HIDE DEF k
<1>8. IsStore(g.s) /\ SameHeads(f.s, g.s) /\ g.s.batchCount = k /\ BatchAt(g.s, k) = moved /\ Elsewhere(f.s, g.s, k)
  BY <1>6, <1>7 DEF SplitOff
<1>9. SlotsHeld(g) /\ LogsWith(g, LogOf(g)) = logs /\ SameHand(f, g)
  <2>1. SameHand(f, g)
    BY <1>7, <1>8 DEF SameHand, SameSlot, SameCounts, SameHeads
  <2>. QED
    BY <2>1, HandKeeps DEF LogMid
<1>10. /\ g.b.rounds = remaining /\ g.b.nextBatchNo = k
       /\ moved.rounds = f.b.rounds - remaining /\ moved.nextBatchNo = f.b.nextBatchNo
       /\ \A kind \in Kinds : HeldBy(kind, g.b) = HeldBy(kind, f.b) /\ HeldBy(kind, moved) = HeldBy(kind, f.b)
  BY <1>1, <1>6, <1>7 DEF KeptRounds, MovedRounds, IsBatch, BatchFields, HeldBy
<1>. HIDE DEF moved
<1>11. DescribedAs(g.s, logs)
  <2>1. PICK pos : Described(f.s, pos, logs)
    BY DEF LogMid, DescribedAs
  <2>2. \A j \in DOMAIN pos : j \in Nat /\ j # k
    BY <1>4, <2>1 DEF Described, Placed
  <2>3. \A j \in DOMAIN pos : SameShape(BatchAt(g.s, j), BatchAt(f.s, j))
    BY <1>8, <2>2 DEF Elsewhere, SameShape
  <2>4. Described(g.s, pos, logs)
    BY <1>1, <1>4, <1>8, <2>1, <2>3, DescribedMoves
  <2>. QED
    BY <2>4 DEF DescribedAs
<1>12. PICK pos : Described(t, pos, logs) /\ PendingEnds(pos, f.demand, n)
  BY DEF LogMid, t
<1>13. n \in DOMAIN pos /\ \A j \in DOMAIN pos : j \in Nat /\ j # k
  <2>1. Placed(t, pos)
    BY <1>12 DEF Described
  <2>2. n \in DOMAIN pos
    BY <1>1, <2>1, LiveArePlaced
  <2>. QED
    BY <1>3, <1>4, <2>1, <2>2 DEF Placed
<1>14. u = PutBatch(g.s, n, g.b)
  BY <1>7 DEF FramePut, SameCounts
<1>. HIDE DEF u
<1>15. u.batchCount = k /\ BatchAt(u, n) = g.b /\ Elsewhere(g.s, u, n)
  BY <1>1, <1>8, <1>14, PutBatchStores
<1>16. BatchAt(u, k) = moved /\ \A j \in Nat : j # n /\ j # k => BatchAt(u, j) = BatchAt(t, j)
  BY <1>3, <1>4, <1>8, <1>13, <1>15 DEF Elsewhere
<1>17. DividedAt(t, u, pos, n, k)
  <2>1. \A j \in DOMAIN pos : j # n => SameShape(BatchAt(u, j), BatchAt(t, j))
    BY <1>13, <1>16 DEF SameShape
  <2>2. RoundsAt(t, n) = f.b.rounds /\ NextOf(t, n) = f.b.nextBatchNo
    BY <1>3 DEF RoundsAt, NextOf
  <2>3. f.b.rounds > 0 /\ moved.rounds \in Nat /\ moved.rounds > 0 /\ remaining + moved.rounds = f.b.rounds /\ remaining > 0
    BY <1>5, <1>10
  <2>. QED
    BY <1>1, <1>3, <1>4, <1>10, <1>13, <1>15, <1>16, <2>1, <2>2, <2>3 DEF DividedAt
<1>. DEFINE qos == WithPlace(pos, k, pos[n] + RoundsAt(u, n))
<1>18. Described(u, qos, logs)
  BY <1>12, <1>13, <1>17, DividedIsDescribed
<1>19. PendingEnds(qos, g.demand, g.batchNo)
  <2>1. PendingEnds(qos, f.demand, n)
    BY <1>12, <1>13, PendingKept
  <2>. QED
    BY <1>9, <2>1 DEF SameHand
<1>. HIDE DEF qos
<1>. QED
  BY <1>9, <1>11, <1>18, <1>19 DEF LogMid, u

\* What recordSlot makes of the slot in hand and its log.
LEMMA RecordedCases ==
    ASSUME NEW f, InHand(f), f.addPerRound \in Nat, f.b.rounds \in Nat \ {0}, f.batchNo \in Nat
    PROVE  LET d == RecordedDemand(f)
           IN  /\ d \in PendingSlots /\ d.unitPerRound = f.addPerRound /\ d.premiumRate = f.rate
               /\ RecordedLog(f) \in Seq(Slots)
               /\ f.addPerRound = 0 => RecordedOf(f) = LogOf(f)
               /\ f.addPerRound # 0 => RecordedOf(f) = Append(RecordedLog(f), d) /\ d \in Slots
<1>. DEFINE d == RecordedDemand(f)
<1>1. /\ f.log \in Seq(Slots) /\ f.demand \in PendingSlots /\ f.rate \in Nat /\ LogOf(f) \in Seq(Slots)
      /\ f.demand.unitPerRound # 0 => f.demand \in Slots
      /\ f.demand.unitPerRound = 0 => LogOf(f) = f.log
  BY LogOfIsLog DEF InHand
<1>2. d \in PendingSlots /\ d.unitPerRound = f.addPerRound /\ d.premiumRate = f.rate /\ d.rounds # 0
  <2>1. CASE continuesSlot(f)
    <3>1. d = LongerSlot(f.demand, f.b.rounds)
      BY <2>1 DEF RecordedDemand
    <3>2. d = [f.demand EXCEPT !.rounds = f.demand.rounds + f.b.rounds]
      BY <1>1, <3>1 DEF LongerSlot, PendingSlots
    <3>3. f.demand.rounds + f.b.rounds \in Nat \ {0}
      BY <1>1 DEF PendingSlots
    <3>. HIDE DEF d
    <3>. QED
      BY <1>1, <2>1, <3>2, <3>3 DEF PendingSlots, continuesSlot
  <2>2. CASE ~continuesSlot(f)
    <3>1. d = NewSlot(f.batchNo, f.rate, f.b.rounds, f.addPerRound)
      BY <2>2 DEF RecordedDemand
    <3>. HIDE DEF d
    <3>. QED
      BY <1>1, <3>1 DEF PendingSlots, NewSlot
  <2>. QED
    BY <2>1, <2>2
<1>3. RecordedLog(f) \in Seq(Slots)
  BY <1>1 DEF RecordedLog
<1>. HIDE DEF d
<1>4. RecordedOf(f) = IF d.unitPerRound = 0 THEN RecordedLog(f) ELSE Append(RecordedLog(f), d)
  BY DEF RecordedOf, PushDemand, d
<1>5. f.addPerRound = 0 => RecordedOf(f) = LogOf(f)
  <2> SUFFICES ASSUME f.addPerRound = 0 PROVE RecordedLog(f) = LogOf(f)
    BY <1>2, <1>4
  <2>1. continuesSlot(f) => LogOf(f) = f.log
    BY <1>1 DEF continuesSlot
  <2>. QED
    BY <2>1 DEF RecordedLog
<1>6. f.addPerRound # 0 => RecordedOf(f) = Append(RecordedLog(f), d) /\ d \in Slots
  <2>1. d.unitPerRound # 0 /\ d \in PendingSlots /\ d.rounds # 0 => d \in Slots
    BY DEF PendingSlots, Slots
  <2>. QED
    BY <1>2, <1>4, <2>1
<1>. QED
  BY <1>2, <1>3, <1>5, <1>6 DEF d

(* The frame g after units were added, or not, to the batch of f. *)
UnitsPut(f, g) ==
    /\ SameHand(f, g) /\ g.s = f.s /\ g.addPerRound \in Nat
    /\ g.b.rounds = f.b.rounds /\ g.b.nextBatchNo = f.b.nextBatchNo
    /\ g.b.unitPerRound = f.b.unitPerRound + g.addPerRound
    /\ g.b.roundPremiumRateSum = f.b.roundPremiumRateSum + f.rate * g.addPerRound

\* Units that are in the batch are what recordSlot will write to the log.
LEMMA UnitsPutLogs ==
    ASSUME NEW f, NEW L, NEW M, NEW s0, DemandMid(f, L, M, s0), LogMid(f), NEW g, UnitsPut(f, g)
    PROVE  LogAdded(g)
<1>. DEFINE n == f.batchNo
            t == FramePut(f)
            u == FramePut(g)
            old == LogOf(f)
            logs == LogsWith(f, old)
            i == f.insured
            d == RecordedDemand(g)
            add == g.addPerRound
            new == RecordedOf(g)
<1>1. /\ n \in Nat /\ IsStore(f.s) /\ f.s.batchCount > 0 /\ f.s.batchCount \in Nat /\ IsBatch(f.b)
      /\ Linked(t, M) /\ n \in M /\ f.b.rounds \in Nat \ {0}
  BY AppendableFacts DEF DemandMid, Linked, Appendable, IsBatch
<1>2. /\ SameHand(f, g) /\ g.s = f.s /\ add \in Nat /\ g.batchNo = n /\ g.rate = f.rate /\ g.insured = i
      /\ g.demand = f.demand /\ g.log = f.log /\ g.b.rounds = f.b.rounds /\ g.b.nextBatchNo = f.b.nextBatchNo
  BY DEF UnitsPut, SameHand
<1>3. SlotsHeld(f) /\ SlotsHeld(g) /\ LogOf(g) = old /\ (\A log : LogsWith(g, log) = LogsWith(f, log)) /\ InHand(g)
  BY <1>2, HandKeeps DEF LogMid, SlotsHeld
<1>4. /\ d \in PendingSlots /\ d.unitPerRound = add /\ d.premiumRate = f.rate
      /\ RecordedLog(g) \in Seq(Slots)
      /\ add = 0 => new = old
      /\ add # 0 => new = Append(RecordedLog(g), d) /\ d \in Slots
  BY <1>1, <1>2, <1>3, RecordedCases
<1>. HIDE DEF new
<1>5. t = PutBatch(f.s, n, f.b) /\ u = PutBatch(f.s, n, g.b)
  BY <1>2 DEF FramePut
<1>. HIDE DEF t, u
<1>6. t.batchCount = f.s.batchCount /\ BatchAt(t, n) = f.b /\ Elsewhere(f.s, t, n)
  BY <1>1, <1>5, PutBatchStores
<1>7. u.batchCount = f.s.batchCount /\ BatchAt(u, n) = g.b /\ Elsewhere(f.s, u, n)
  BY <1>1, <1>5, PutBatchStores
<1>8. PICK pos : Described(t, pos, logs) /\ PendingEnds(pos, f.demand, n)
  BY DEF LogMid, t
<1>9. /\ Placed(t, pos) /\ n \in DOMAIN pos /\ \A j \in DOMAIN pos : j \in Nat
      /\ logs \in [Insureds -> Seq(Slots)] /\ i \in Insureds /\ LogPlaced(pos, old) /\ logs[i] = old
  <2>1. Placed(t, pos) /\ LogsPlaced(pos, logs)
    BY <1>8 DEF Described
  <2>2. n \in DOMAIN pos
    BY <1>1, <2>1, LiveArePlaced
  <2>3. i \in Insureds /\ logs[i] = old
    BY <1>3 DEF InHand, SlotsHeld, LogsWith, ReplaceLog
  <2>. QED
    BY <2>1, <2>2, <2>3 DEF Placed, LogsPlaced
<1>10. RoundsAt(t, n) = f.b.rounds /\ NextOf(t, n) = f.b.nextBatchNo /\ RoundsAt(t, n) > 0
  BY <1>1, <1>6 DEF RoundsAt, NextOf
<1>11. \A j \in DOMAIN pos : j # n => SameShape(BatchAt(u, j), BatchAt(t, j))
  BY <1>6, <1>7, <1>9 DEF Elsewhere, SameShape
<1>12. /\ f.b.unitPerRound \in Nat /\ f.b.roundPremiumRateSum \in Int /\ f.rate \in Nat
  <2>1. PlacedBatch(t, pos, n) /\ "rate" \in Kinds
    BY <1>9, PlaceNumbers DEF Kinds
  <2>2. HeldBy("rate", f.b) \in Nat
    BY <1>6, <2>1 DEF PlacedBatch
  <2>. QED
    BY <1>1, <1>3, <2>2 DEF HeldBy, IsBatch, InHand, SlotsHeld
<1>13. CASE add = 0
  <2>1. f.rate * add = 0
    BY <1>12, <1>13
  <2>2. SameShape(g.b, f.b)
    BY <1>2, <1>12, <1>13, <2>1 DEF SameShape, UnitsPut
  <2>3. Described(u, pos, logs)
    <3>1. \A j \in DOMAIN pos : SameShape(BatchAt(u, j), BatchAt(t, j))
      BY <1>6, <1>7, <1>11, <2>2
    <3>. QED
      BY <1>1, <1>6, <1>7, <1>8, <3>1, DescribedMoves
  <2>4. PendingEnds(pos, d, g.b.nextBatchNo)
    BY <1>4, <1>13 DEF PendingEnds
  <2>5. LogUnits(new) = LogUnits(old) + add * g.b.rounds
    <3>1. add * g.b.rounds = 0
      BY <1>1, <1>2, <1>13
    <3>2. LogUnits(old) \in Int
      <4>1. f.entry.demandedUnits = LogUnits(old) /\ f.entry.demandedUnits \in Nat
        BY <1>3 DEF SlotsHeld, HandCounted, DemandMid, DemandNumbers, EntryIn
      <4>. QED
        BY <4>1
    <3>. QED
      BY <1>4, <1>13, <3>1, <3>2
  <2>6. Described(u, pos, LogsWith(g, new))
    BY <1>3, <1>4, <1>13, <2>3
  <2>. QED
    BY <1>2, <1>3, <1>4, <1>13, <2>4, <2>5, <2>6 DEF LogAdded, LogMid, new, u
<1>14. CASE add # 0
  <2>1. d \in Slots /\ new = Append(RecordedLog(g), d)
    BY <1>4, <1>14
  <2>2. UnitsAddedAt(t, u, pos, n, d)
    <3>1. f.rate * add = d.unitPerRound * d.premiumRate /\ d.unitPerRound = add
      BY <1>2, <1>4, <1>12
    <3>. DEFINE w == f.rate * add
    <3>2. g.b.unitPerRound = f.b.unitPerRound + add /\ g.b.roundPremiumRateSum = f.b.roundPremiumRateSum + w
      BY DEF UnitsPut
    <3>3. w = d.unitPerRound * d.premiumRate
      BY <3>1
    <3>. HIDE DEF w
    <3>4. \A kind \in Kinds : HeldBy(kind, g.b) = HeldBy(kind, f.b) + Weight(kind, d)
      BY <3>1, <3>2, <3>3 DEF HeldBy, Weight
    <3>. QED
      BY <1>2, <1>6, <1>7, <1>10, <1>11, <3>4 DEF UnitsAddedAt, RoundsAt, NextOf
  <2>3. /\ LogPlaced(pos, new) /\ LogAddedAt(pos, n, d, old, new)
        /\ LogUnits(new) = LogUnits(old) + add * g.b.rounds
        /\ PendingEnds(pos, d, NextOf(t, n))
    <3>1. CASE continuesSlot(g)
      <4>1. f.demand.unitPerRound = add /\ RecordedLog(g) = f.log /\ d = LongerSlot(f.demand, RoundsAt(t, n))
        BY <1>2, <1>10, <3>1 DEF continuesSlot, RecordedLog, RecordedDemand
      <4>2. f.demand \in Slots /\ f.log \in Seq(Slots) /\ old = Append(f.log, f.demand) /\ new = Append(f.log, d)
        BY <1>3, <1>14, <2>1, <4>1, LogOfIsLog DEF SlotsHeld, InHand
      <4>. HIDE DEF d, old
      <4>3. /\ LogPlaced(pos, Append(f.log, d)) /\ LogAddedAt(pos, n, d, Append(f.log, f.demand), Append(f.log, d))
            /\ LogUnits(Append(f.log, d)) = LogUnits(Append(f.log, f.demand)) + RoundsAt(t, n) * d.unitPerRound
            /\ PendingEnds(pos, d, NextOf(t, n))
        BY <1>8, <1>9, <1>10, <4>1, <4>2, LongerSlotAdded
      <4>4. RoundsAt(t, n) * d.unitPerRound = add * g.b.rounds
        BY <1>1, <1>2, <1>4, <1>10
      <4>. QED
        BY <4>2, <4>3, <4>4
    <3>2. CASE ~continuesSlot(g)
      <4>1. RecordedLog(g) = old /\ d = NewSlot(n, f.rate, RoundsAt(t, n), add)
        BY <1>2, <1>3, <1>10, <3>2 DEF RecordedLog, RecordedDemand
      <4>2. d.startBatchNo = n /\ d.rounds = RoundsAt(t, n) /\ new = Append(old, d)
        BY <2>1, <4>1 DEF NewSlot
      <4>. HIDE DEF d, old
      <4>3. /\ LogPlaced(pos, Append(old, d)) /\ LogAddedAt(pos, n, d, old, Append(old, d))
            /\ LogUnits(Append(old, d)) = LogUnits(old) + UnitsIn(d)
            /\ PendingEnds(pos, d, NextOf(t, n))
        BY <1>9, <1>10, <2>1, <4>2, NewSlotAdded
      <4>4. UnitsIn(d) = add * g.b.rounds
        BY <1>1, <1>2, <1>4, <1>10, <4>2 DEF UnitsIn
      <4>. QED
        BY <4>2, <4>3, <4>4
    <3>. QED
      BY <3>1, <3>2
  <2>. HIDE DEF d, old
  <2>4. Described(u, pos, ReplaceLog(logs, i, new))
    <3>. HIDE DEF logs, i
    <3>. QED
      BY <1>8, <1>9, <2>1, <2>2, <2>3, AddedIsDescribed
  <2>5. ReplaceLog(logs, i, new) = LogsWith(g, new)
    BY <1>3, <1>9 DEF LogsWith, ReplaceLog
  <2>6. PendingEnds(pos, d, g.b.nextBatchNo)
    BY <1>2, <1>10, <2>3
  <2>7. LogUnits(RecordedOf(g)) = LogUnits(LogOf(g)) + g.addPerRound * g.b.rounds
    BY <1>3, <2>3 DEF new
  <2>8. Described(FramePut(g), pos, LogsWith(g, RecordedOf(g))) /\ PendingEnds(pos, RecordedDemand(g), g.b.nextBatchNo)
    BY <2>4, <2>5, <2>6 DEF d, new, u
  <2>9. DescribedAs(g.s, LogsWith(g, LogOf(g)))
    BY <1>2, <1>3 DEF LogMid, old
  <2>10. RecordedDemand(g) \in PendingSlots /\ RecordedLog(g) \in Seq(Slots) /\ RecordedDemand(g) \in Slots
    BY <1>4, <2>1 DEF d
  <2>. QED
    BY <1>2, <1>3, <1>14, <2>7, <2>8, <2>9, <2>10 DEF LogAdded
<1>. QED
  BY <1>13, <1>14

\* The batch in hand holds numbers.
LEMMA HeldNumbers ==
    ASSUME NEW f, NEW L, NEW M, NEW s0, DemandMid(f, L, M, s0), LogMid(f)
    PROVE  f.b.unitPerRound \in Nat /\ f.b.roundPremiumRateSum \in Nat /\ f.rate \in Nat
<1>. DEFINE t == FramePut(f)
            n == f.batchNo
<1>1. n \in Nat /\ IsStore(f.s) /\ Linked(t, M) /\ n \in M /\ IsBatch(f.b)
  BY AppendableFacts DEF DemandMid, Appendable
<1>2. t = PutBatch(f.s, n, f.b)
  BY DEF FramePut
<1>. HIDE DEF t
<1>3. BatchAt(t, n) = f.b
  BY <1>1, <1>2, PutBatchStores
<1>4. PICK pos : Placed(t, pos)
  BY DEF LogMid, Described, t
<1>5. PlacedBatch(t, pos, n)
  BY <1>1, <1>4, LiveArePlaced, PlaceNumbers
<1>6. "rate" \in Kinds
  BY DEF Kinds
<1>7. HeldBy("rate", f.b) \in Nat
  BY <1>3, <1>5, <1>6 DEF PlacedBatch
<1>. QED
  BY <1>1, <1>7 DEF HeldBy, IsBatch, LogMid, SlotsHeld, InHand

\* A turn that adds no units to the batch leaves the logs as they are.
LEMMA NothingPut ==
    ASSUME NEW f, IsDemandFrame(f), NEW L, NEW M, NEW s0, DemandMid(f, L, M, s0), LogMid(f), NEW takes,
           NEW g, g = [f EXCEPT !.addPerRound = 0, !.takeNext = takes] \/ g = [f EXCEPT !.addPerRound = 0]
    PROVE  LogAdded(g) /\ g.addPerRound = 0
<1>1. SameHand(f, g) /\ g.s = f.s /\ g.b = f.b /\ g.addPerRound = 0
  BY DEF IsDemandFrame, DemandFields, SameHand
<1>2. f.b.unitPerRound \in Nat /\ f.b.roundPremiumRateSum \in Nat /\ f.rate * 0 = 0
  BY HeldNumbers
<1>3. UnitsPut(f, g)
  BY <1>1, <1>2 DEF UnitsPut
<1>. QED
  BY <1>1, <1>3, UnitsPutLogs

\* Units are added within the limits of the pool.
LEMMA AddToRoundsLogs ==
    ASSUME NEW f, IsDemandFrame(f), NEW L, NEW M, NEW s0, DemandMid(f, L, M, s0), LogMid(f),
           NEW g, g = addToRounds(f)
    PROVE  LogAdded(g)
<1>. DEFINE limits == internalRoundLimits(adjustedTotalUnits(f.s, f.b.totalUnitsBeforeBatch), f.b.rounds,
                                          f.b.unitPerRound, f.entry.demandedUnits, MaxShare[f.insured])
            add == unitsToAdd(f, limits)
<1>1. g = addUnits(f, limits, add)
  BY DEF addToRounds, addWithinLimits
<1>2. BatchChanged(f, g) /\ g.addPerRound \in Nat
  BY AddToRoundsStep
<1>. HIDE DEF limits, add
<1>3. /\ g.addPerRound = add /\ g.b.unitPerRound = f.b.unitPerRound + add
      /\ g.b.roundPremiumRateSum = f.b.roundPremiumRateSum + f.rate * add
  BY <1>1, AddUnitsHeld DEF DemandMid
<1>4. SameSlot(f, g)
  BY <1>1, StagesKeepSlot
<1>5. UnitsPut(f, g)
  BY <1>2, <1>3, <1>4 DEF UnitsPut, SameHand, SameSlot, BatchChanged, SameCounts
<1>. QED
  BY <1>5, UnitsPutLogs

\* addToBatch as a whole.
LEMMA AddToBatchLogs ==
    ASSUME NEW f, IsDemandFrame(f), NEW L, NEW M, NEW s0, DemandMid(f, L, M, s0), LogMid(f),
           NEW g, g = addToBatch(f)
    PROVE  LogAdded(g)
<1>. DEFINE splitRounds == internalBatchSplit(f.entry.demandedUnits, MinUnits[f.insured], f.b.rounds, f.unitCount)
            armA == f.unitCount >= f.b.rounds
            armB == f.unitCount < f.b.rounds /\ splitRounds = 0
            h == withSplit(f, splitBatch(f.s, splitRounds, f.b))
            ra == addToRounds(f)
            rb == [f EXCEPT !.addPerRound = 0, !.takeNext = FALSE]
            rc == addToRounds(h)
<1>1. g = CASE armA -> ra [] armB -> rb [] OTHER -> rc
  BY DEF addToBatch
<1>2. f.unitCount \in Nat /\ f.b.rounds \in Nat
  BY DEF DemandMid, DemandNumbers, IsBatch
<1>3. splitRounds \in {0, f.unitCount}
  BY SplitSize
<1>. HIDE DEF splitRounds
<1>4. ~armA /\ ~armB => splitRounds = f.unitCount /\ splitRounds # 0 /\ splitRounds \in Nat /\ splitRounds < f.b.rounds
  BY <1>2, <1>3
<1>5. armA => ~armB
  BY <1>2
<1>6. LogAdded(ra)
  <2>. HIDE DEF ra
  <2>1. ra = addToRounds(f)
    BY DEF ra
  <2>. QED
    BY <2>1, AddToRoundsLogs
<1>7. LogAdded(rb)
  BY NothingPut
<1>8. ~armA /\ ~armB => LogAdded(rc)
  <2> SUFFICES ASSUME ~armA, ~armB PROVE LogAdded(rc)
    OBVIOUS
  <2>. HIDE DEF armA, armB, h, rc
  <2>1. FrameSplit(f, h, splitRounds) /\ (\E K : DemandMid(h, L, K, s0)) /\ LogMid(h)
    BY <1>4, SplitStep, SplitLogs DEF h
  <2>2. PICK K : DemandMid(h, L, K, s0)
    BY <2>1
  <2>3. IsDemandFrame(h)
    BY <2>1 DEF FrameSplit
  <2>4. rc = addToRounds(h)
    BY DEF rc
  <2>. QED
    BY <2>1, <2>2, <2>3, <2>4, AddToRoundsLogs
<1>. HIDE DEF armA, armB, ra, rb, rc
<1>9. g = ra \/ g = rb \/ (~armA /\ ~armB /\ g = rc)
  BY <1>1, <1>5
<1>. QED
  BY <1>6, <1>7, <1>8, <1>9

(* The frames differ in none of the batches. *)
SameBatches(f, g) ==
    /\ SameHand(f, g) /\ g.b = f.b /\ g.addPerRound = f.addPerRound
    /\ g.s.batches = f.s.batches /\ g.s.batchCount = f.s.batchCount

\* What is recorded of added units stays recorded.
LEMMA LogAddedKeeps ==
    ASSUME NEW f, NEW L, NEW M, NEW s0, DemandMid(f, L, M, s0), LogAdded(f), NEW g, SameBatches(f, g), IsStore(g.s)
    PROVE  LogAdded(g)
<1>. DEFINE n == f.batchNo
            t == FramePut(f)
            u == FramePut(g)
<1>1. /\ n \in Nat /\ IsStore(f.s) /\ f.s.batchCount > 0 /\ f.s.batchCount \in Nat
  BY AppendableFacts DEF DemandMid, Linked
<1>2. /\ SameHand(f, g) /\ g.b = f.b /\ g.addPerRound = f.addPerRound /\ g.batchNo = n /\ g.s.batchCount = f.s.batchCount
      /\ g.demand = f.demand /\ g.log = f.log /\ g.rate = f.rate
  BY DEF SameBatches, SameHand
<1>3. SlotsHeld(g) /\ LogOf(g) = LogOf(f) /\ \A log : LogsWith(g, log) = LogsWith(f, log)
  BY <1>2, HandKeeps DEF LogAdded
<1>4. RecordedDemand(g) = RecordedDemand(f) /\ RecordedLog(g) = RecordedLog(f) /\ RecordedOf(g) = RecordedOf(f)
  <2>1. continuesSlot(g) <=> continuesSlot(f)
    BY <1>2 DEF continuesSlot
  <2>2. RecordedDemand(g) = RecordedDemand(f) /\ RecordedLog(g) = RecordedLog(f)
    BY <1>2, <1>3, <2>1 DEF RecordedDemand, RecordedLog
  <2>. QED
    BY <2>2 DEF RecordedOf
<1>5. \A k : BatchAt(g.s, k) = BatchAt(f.s, k) /\ SameShape(BatchAt(g.s, k), BatchAt(f.s, k))
  BY DEF SameBatches, BatchAt, SameShape
<1>6. t = PutBatch(f.s, n, f.b) /\ u = PutBatch(g.s, n, f.b)
  BY <1>2 DEF FramePut
<1>. HIDE DEF t, u
<1>7. /\ t.batchCount = f.s.batchCount /\ BatchAt(t, n) = f.b /\ Elsewhere(f.s, t, n)
      /\ u.batchCount = f.s.batchCount /\ BatchAt(u, n) = f.b /\ Elsewhere(g.s, u, n)
  BY <1>1, <1>2, <1>6, PutBatchStores
<1>8. \A k \in Nat : SameShape(BatchAt(u, k), BatchAt(t, k))
  BY <1>5, <1>7 DEF Elsewhere, SameShape
<1>9. DescribedAs(g.s, LogsWith(g, LogOf(g)))
  <2>1. PICK pos : Described(f.s, pos, LogsWith(f, LogOf(f)))
    BY DEF LogAdded, DescribedAs
  <2>2. Described(g.s, pos, LogsWith(f, LogOf(f)))
    BY <1>1, <1>2, <1>5, <2>1, DescribedMoves
  <2>. QED
    BY <1>3, <2>2 DEF DescribedAs
<1>10. \E pos : /\ Described(u, pos, LogsWith(g, RecordedOf(g)))
                /\ PendingEnds(pos, RecordedDemand(g), g.b.nextBatchNo)
  <2>1. PICK pos : Described(t, pos, LogsWith(f, RecordedOf(f))) /\ PendingEnds(pos, RecordedDemand(f), f.b.nextBatchNo)
    BY DEF LogAdded, t
  <2>2. \A k \in DOMAIN pos : k \in Nat
    BY <2>1, PlaceNumbers DEF Described
  <2>3. Described(u, pos, LogsWith(f, RecordedOf(f)))
    BY <1>1, <1>7, <1>8, <2>1, <2>2, DescribedMoves
  <2>. QED
    BY <1>2, <1>3, <1>4, <2>1, <2>3
<1>. QED
  BY <1>2, <1>3, <1>4, <1>9, <1>10 DEF LogAdded, u

\* ... and the end of the turn when nothing was put into the batch.
LEMMA AddToOpenBatchLogs ==
    ASSUME NEW f, IsDemandFrame(f), NEW L, NEW M, NEW s0, DemandMid(f, L, M, s0), LogMid(f), ~f.done,
           NEW g, g = addToOpenBatch(f)
    PROVE  /\ g.done => LogFinished(g)
           /\ ~g.done => LogAdded(g) /\ (~g.updateBatch => g.addPerRound = 0)
<1>. DEFINE armA == f.done
            armB == ~f.done /\ ~isOpen(f.b)
            rb == [f EXCEPT !.addPerRound = 0]
            rc == keepFirstOpen(unitsAdded(addToBatch(f)))
<1>1. g = CASE armA -> f [] armB -> rb [] OTHER -> rc
  BY DEF addToOpenBatch
<1>2. CASE ~isOpen(f.b)
  <2>1. ~armA /\ armB
    BY <1>2
  <2>. HIDE DEF armA, armB, rb, rc
  <2>2. g = rb
    BY <1>1, <2>1
  <2>3. LogAdded(g) /\ g.addPerRound = 0 /\ ~g.done
    BY <2>2, NothingPut DEF rb, IsDemandFrame, DemandFields
  <2>. QED
    BY <2>3
<1>3. CASE isOpen(f.b)
  <2>. DEFINE a == addToBatch(f)
              b == unitsAdded(a)
  <2>1. g = keepFirstOpen(b)
    <3>1. ~armA /\ ~armB
      BY <1>3
    <3>. HIDE DEF armA, armB, rb, rc
    <3>2. g = rc
      BY <1>1, <3>1
    <3>. QED
      BY <3>2 DEF rc
  <2>2. UnitsPlaced(f, a, L, s0) /\ LogAdded(a)
    BY AddToBatchStep, AddToBatchLogs
  <2>. HIDE DEF a
  <2>3. PICK K : DemandMid(a, L, K, s0)
    BY <2>2 DEF UnitsPlaced
  <2>. DEFINE update == (a.updateBatch \/ a.addPerRound > 0) /\ a.b.unitPerRound # 0
              empty == a.b.unitPerRound = 0
  <2>4. b = [a EXCEPT !.updateBatch = update, !.done = empty]
    BY DEF unitsAdded
  <2>. HIDE DEF update, empty
  <2>5. /\ IsDemandFrame(b) /\ SameBatches(a, b) /\ b.s = a.s
        /\ b.updateBatch = update /\ b.done = empty
    BY <2>2, <2>4 DEF UnitsPlaced, IsDemandFrame, DemandFields, SameBatches, SameHand
  <2>. HIDE DEF b
  <2>6. IsStore(a.s) /\ a.b.unitPerRound \in Nat /\ a.addPerRound \in Nat
    BY <2>2, <2>3, AppendableFacts DEF DemandMid, IsBatch, UnitsPlaced
  <2>7. LogAdded(b)
    BY <2>3, <2>2, <2>5, <2>6, LogAddedKeeps
  <2>8. CASE b.done
    <3>1. g = b
      BY <2>1, <2>8 DEF keepFirstOpen
    <3>2. FrameStored(b) = b.s
      BY <2>5, <2>8 DEF update, empty, FrameStored
    <3>3. LogFinished(b)
      BY <2>7, <3>2 DEF LogAdded, LogFinished
    <3>. QED
      BY <2>8, <3>1, <3>3
  <2>9. CASE ~b.done
    <3>1. ~b.updateBatch => b.addPerRound = 0
      <4>1. a.b.unitPerRound # 0
        BY <2>5, <2>9 DEF empty
      <4>2. ~b.updateBatch => ~update
        BY <2>5
      <4>3. ~update => ~(a.addPerRound > 0)
        BY <4>1 DEF update
      <4>4. b.addPerRound = a.addPerRound
        BY <2>5 DEF SameBatches
      <4>. QED
        BY <2>6, <4>2, <4>3, <4>4
    <3>2. CASE ~b.isFirstOfOpen \/ ~isOpen(b.b)
      <4>1. g = b
        BY <2>1, <3>2 DEF keepFirstOpen
      <4>. QED
        BY <2>7, <2>9, <3>1, <4>1
    <3>3. CASE ~(~b.isFirstOfOpen \/ ~isOpen(b.b))
      <4>1. g = [b EXCEPT !.s.firstOpenBatchNo = b.batchNo, !.isFirstOfOpen = FALSE]
        BY <2>1, <2>9, <3>3 DEF keepFirstOpen
      <4>. DEFINE u == [b.s EXCEPT !.firstOpenBatchNo = b.batchNo]
      <4>2. g = [b EXCEPT !.s = u, !.isFirstOfOpen = FALSE]
        BY <2>5, <4>1 DEF IsDemandFrame, DemandFields
      <4>3. /\ IsStore(u) /\ u.batches = b.s.batches /\ u.batchCount = b.s.batchCount
            /\ u.demands = b.s.demands /\ u.insureds = b.s.insureds
        BY <2>5, <2>6 DEF IsStore, StoreFields
      <4>. HIDE DEF u
      <4>4. SameBatches(b, g) /\ g.done = b.done /\ g.updateBatch = b.updateBatch /\ g.s = u
        BY <2>5, <4>2, <4>3 DEF IsDemandFrame, DemandFields, SameBatches, SameHand
      <4>5. DemandMid(b, L, K, s0)
        <5>1. FramePut(b) = FramePut(a) /\ SameCounts(a, b) /\ b.b = a.b /\ b.s = a.s /\ b.openRounds = a.openRounds
          BY <2>2, <2>4, <2>5 DEF FramePut, SameCounts, UnitsPlaced, IsDemandFrame, DemandFields
        <5>. QED
          BY <2>3, <5>1 DEF DemandMid, SameCounts, DemandNumbers
      <4>6. LogAdded(g)
        BY <2>7, <4>3, <4>4, <4>5, LogAddedKeeps
      <4>. QED
        BY <2>9, <3>1, <4>4, <4>6 DEF SameBatches
    <3>. QED
      BY <3>2, <3>3
  <2>. QED
    BY <2>8, <2>9
<1>. QED
  BY <1>2, <1>3

(* The added units are in the log of the frame. *)
LogRecorded(f) ==
    /\ SlotsHeld(f)
    /\ ~f.updateBatch => DescribedAs(f.s, LogsWith(f, LogOf(f)))
    /\ \E pos : /\ Described(FramePut(f), pos, LogsWith(f, LogOf(f)))
                /\ PendingEnds(pos, f.demand, f.b.nextBatchNo)

\* recordSlot writes the units to the log that were added to the batch.
LEMMA RecordLogs ==
    ASSUME NEW f, IsDemandFrame(f), NEW L, NEW M, NEW s0, DemandMid(f, L, M, s0), ~f.done,
           LogAdded(f), ~f.updateBatch => f.addPerRound = 0,
           NEW g, g = recordSlot(f)
    PROVE  LogRecorded(g)
<1>. DEFINE units == f.addPerRound * f.b.rounds
            armA == f.b.rounds = 0
            armB == f.b.rounds > 0 /\ continuesSlot(f)
            rb == [f EXCEPT !.demand.rounds = @ + f.b.rounds]
            rc == [f EXCEPT !.log = PushDemand(@, f.demand),
                            !.demand = [startBatchNo |-> f.batchNo, premiumRate |-> f.rate,
                                        rounds |-> f.b.rounds, unitPerRound |-> f.addPerRound]]
            slot == CASE armA -> f [] armB -> rb [] OTHER -> rc
            ends == ~f.takeNext
            more == f.entry.demandedUnits + units
            entry == [f.entry EXCEPT !.demandedUnits = more]
            left == f.unitCount - units
<1>1. /\ f.addPerRound \in Nat /\ f.b.rounds \in Nat \ {0} /\ f.batchNo \in Nat /\ InHand(f) /\ HandCounted(f)
      /\ DOMAIN f.entry = {"nextBatchNo", "demandedUnits", "status"}
  <2>1. f.batchNo \in Nat
    BY AppendableFacts DEF DemandMid
  <2>. QED
    BY <2>1 DEF LogAdded, SlotsHeld, DemandMid, DemandNumbers, IsBatch, EntryIn
<1>2. g = [slot EXCEPT !.unitCount = @ - units, !.entry.demandedUnits = @ + units, !.done = ends]
  BY DEF recordSlot
<1>3. SameButSlot(f, rb) /\ SameButSlot(f, rc)
  BY DEF SameButSlot, IsDemandFrame, DemandFields, SameCounts
<1>4. continuesSlot(f) => rb.demand = RecordedDemand(f) /\ rb.log = RecordedLog(f) /\ rb.rate = f.rate
  BY <1>1 DEF RecordedDemand, RecordedLog, LongerSlot, InHand, PendingSlots, IsDemandFrame, DemandFields
<1>5. ~continuesSlot(f) => rc.demand = RecordedDemand(f) /\ rc.log = RecordedLog(f) /\ rc.rate = f.rate
  BY DEF RecordedDemand, RecordedLog, NewSlot, LogOf, IsDemandFrame, DemandFields
<1>6. ~armA /\ (armB <=> continuesSlot(f))
  BY <1>1
<1>. HIDE DEF armA, armB, rb, rc
<1>7. SameButSlot(f, slot) /\ slot.demand = RecordedDemand(f) /\ slot.log = RecordedLog(f) /\ slot.rate = f.rate
  <2>1. CASE continuesSlot(f)
    <3>1. slot = rb
      BY <1>6, <2>1
    <3>. HIDE DEF slot
    <3>. QED
      BY <1>3, <1>4, <2>1, <3>1
  <2>2. CASE ~continuesSlot(f)
    <3>1. slot = rc
      BY <1>6, <2>2
    <3>. HIDE DEF slot
    <3>. QED
      BY <1>3, <1>5, <2>2, <3>1
  <2>. QED
    BY <2>1, <2>2
<1>. HIDE DEF slot, ends, units, more, left
<1>8. g = [slot EXCEPT !.unitCount = left, !.entry = entry, !.done = ends]
  <2>1. slot.unitCount = f.unitCount /\ slot.entry = f.entry /\ DOMAIN slot = DemandFields
    BY <1>7 DEF SameButSlot, SameCounts, IsDemandFrame
  <2>2. left = f.unitCount - units /\ more = f.entry.demandedUnits + units
    BY DEF left, more
  <2>. QED
    BY <1>1, <1>2, <2>1, <2>2 DEF DemandFields
<1>9. entry.demandedUnits = more
  BY <1>1
<1>. HIDE DEF entry
<1>10. /\ g.s = f.s /\ g.b = f.b /\ g.batchNo = f.batchNo /\ g.insured = f.insured /\ g.rate = f.rate
       /\ g.demand = RecordedDemand(f) /\ g.log = RecordedLog(f) /\ g.entry = entry /\ g.updateBatch = f.updateBatch
  BY <1>7, <1>8 DEF SameButSlot, SameCounts, IsDemandFrame, DemandFields
<1>11. LogOf(g) = RecordedOf(f) /\ (\A log : LogsWith(g, log) = LogsWith(f, log)) /\ FramePut(g) = FramePut(f)
  BY <1>10 DEF LogOf, RecordedOf, LogsWith, FramePut
<1>12. SlotsHeld(g)
  <2>1. /\ RecordedDemand(f) \in PendingSlots /\ RecordedDemand(f).unitPerRound = f.addPerRound
        /\ RecordedLog(f) \in Seq(Slots) /\ (f.addPerRound # 0 => RecordedDemand(f) \in Slots)
    BY <1>1, RecordedCases
  <2>2. InHand(g)
    BY <1>1, <1>10, <2>1 DEF InHand
  <2>3. HandCounted(g)
    <3>1. g.entry.demandedUnits = LogUnits(LogOf(g))
      BY <1>1, <1>9, <1>10, <1>11 DEF LogAdded, HandCounted, more, units
    <3>. QED
      BY <1>1, <1>10, <3>1 DEF HandCounted
  <2>. QED
    BY <2>2, <2>3 DEF SlotsHeld
<1>13. ~g.updateBatch => DescribedAs(g.s, LogsWith(g, LogOf(g)))
  BY <1>10, <1>11 DEF LogAdded
<1>14. \E pos : /\ Described(FramePut(g), pos, LogsWith(g, LogOf(g)))
               /\ PendingEnds(pos, g.demand, g.b.nextBatchNo)
  BY <1>10, <1>11 DEF LogAdded
<1>. QED
  BY <1>12, <1>13, <1>14 DEF LogRecorded

\* The turn may end here ...
LEMMA RecordedIsFinished ==
    ASSUME NEW f, LogRecorded(f)
    PROVE  LogFinished(f)
<1>1. CASE f.updateBatch
  BY <1>1 DEF LogRecorded, LogFinished, DescribedAs, FrameStored
<1>2. CASE ~f.updateBatch
  BY <1>2 DEF LogRecorded, LogFinished, FrameStored
<1>. QED
  BY <1>1, <1>2

\* ... or with the next batch.
LEMMA TakeNextLogs ==
    ASSUME NEW f, IsDemandFrame(f), NEW L, NEW M, NEW s0, DemandMid(f, L, M, s0), ~f.done, LogRecorded(f),
           NEW g, g = takeNextBatch(f)
    PROVE  LogBetween(g)
<1>. DEFINE q == f.b.nextBatchNo
            s == FramePut(f)
            next == BatchAt(s, q)
            total == f.b.totalUnitsBeforeBatch + UnitsOf(f.b)
            c == [next EXCEPT !.totalUnitsBeforeBatch = total]
            update == next.totalUnitsBeforeBatch # total
            ends == f.unitCount = 0 \/ f.loopLimit = 0
            entry == [f.entry EXCEPT !.nextBatchNo = q]
<1>1. g = [f EXCEPT !.s = s, !.batchNo = q, !.entry = entry, !.b = c, !.updateBatch = update, !.done = ends]
  <2>1. g = [f EXCEPT !.s = PutBatch(f.s, f.batchNo, f.b), !.batchNo = f.b.nextBatchNo, !.entry.nextBatchNo = f.b.nextBatchNo,
                      !.b = [BatchAt(PutBatch(f.s, f.batchNo, f.b), f.b.nextBatchNo) EXCEPT
                                !.totalUnitsBeforeBatch = f.b.totalUnitsBeforeBatch + UnitsOf(f.b)],
                      !.updateBatch = BatchAt(PutBatch(f.s, f.batchNo, f.b), f.b.nextBatchNo).totalUnitsBeforeBatch
                                      # f.b.totalUnitsBeforeBatch + UnitsOf(f.b),
                      !.done = ends]
    BY DEF takeNextBatch
  <2>. HIDE DEF ends
  <2>2. g = [f EXCEPT !.s = s, !.batchNo = q, !.entry.nextBatchNo = q, !.b = c, !.updateBatch = update, !.done = ends]
    BY <2>1 DEF FramePut
  <2>. HIDE DEF c, update, s, q
  <2>. QED
    BY <2>2 DEF IsDemandFrame, DemandFields
<1>2. SameShape(c, next)
  BY DEF SameShape
<1>3. entry.demandedUnits = f.entry.demandedUnits
  OBVIOUS
<1>. HIDE DEF s, c, update, ends, entry, q
<1>4. /\ g.s = s /\ g.batchNo = q /\ g.b = c /\ g.entry = entry /\ g.insured = f.insured /\ g.rate = f.rate
      /\ g.demand = f.demand /\ g.log = f.log
  BY <1>1 DEF IsDemandFrame, DemandFields
<1>5. s.demands = f.s.demands /\ s.insureds = f.s.insureds
  <2>1. f.batchNo \in Nat /\ IsStore(f.s)
    BY AppendableFacts DEF DemandMid
  <2>2. s = PutBatch(f.s, f.batchNo, f.b)
    BY DEF s, FramePut
  <2>. QED
    BY <2>1, <2>2, PutBatchStores DEF SameHeads
<1>6. LogOf(g) = LogOf(f) /\ LogsWith(g, LogOf(g)) = LogsWith(f, LogOf(f))
  BY <1>4, <1>5 DEF LogOf, LogsWith
<1>7. SlotsHeld(g)
  BY <1>3, <1>4, <1>5, <1>6 DEF LogRecorded, SlotsHeld, InHand, HandCounted
<1>8. SameShape(g.b, BatchAt(g.s, g.batchNo))
  BY <1>2, <1>4 DEF next
<1>9. \E pos : Described(g.s, pos, LogsWith(g, LogOf(g))) /\ PendingEnds(pos, g.demand, g.batchNo)
  BY <1>4, <1>6 DEF LogRecorded, s, q
<1>. QED
  BY <1>7, <1>8, <1>9 DEF LogBetween

(* The demand loop with the logs. *)
LogGood(f, s0) ==
    /\ DemandGood(f, s0)
    /\ f.panic \/ IF f.done THEN LogFinished(f) ELSE LogBetween(f)

\* A turn of the loop keeps the logs and the batches together.
LEMMA LogStepKeeps ==
    ASSUME NEW f, NEW s0, LogGood(f, s0)
    PROVE  LogGood(addDemandStep(f), s0)
<1>. DEFINE h == [f EXCEPT !.loopLimit = @ - 1]
            a == appendRounds(h)
            b == addToOpenBatch(a)
            c == recordSlot(b)
            d == takeNextBatch(c)
            g == addDemandStep(f)
<1>1. DemandGood(f, s0) /\ DemandGood(g, s0)
  BY DemandStepKeeps DEF LogGood
<1>2. CASE f.done
  BY <1>2 DEF addDemandStep
<1>3. CASE f.panic
  <2>1. g.panic
    <3>1. CASE f.done
      BY <1>3, <3>1 DEF addDemandStep
    <3>2. CASE ~f.done
      <4>1. g = d
        BY <3>2 DEF addDemandStep
      <4>2. IsDemandFrame(h) /\ h.panic = f.panic
        BY <1>1 DEF DemandGood, IsDemandFrame, DemandFields
      <4>. HIDE DEF g, h
      <4>3. IsDemandFrame(a) /\ (h.panic => a.panic)
        BY <4>2, StagesKeepPanic DEF StillFails
      <4>. HIDE DEF a
      <4>4. IsDemandFrame(b) /\ (a.panic => b.panic)
        BY <4>3, StagesKeepPanic DEF StillFails
      <4>. HIDE DEF b
      <4>5. IsDemandFrame(c) /\ (b.panic => c.panic)
        BY <4>4, StagesKeepPanic DEF StillFails
      <4>. HIDE DEF c
      <4>6. IsDemandFrame(d) /\ (c.panic => d.panic)
        BY <4>5, StagesKeepPanic DEF StillFails
      <4>. HIDE DEF d
      <4>. QED
        BY <1>3, <4>1, <4>2, <4>3, <4>4, <4>5, <4>6
    <3>. QED
      BY <3>1, <3>2
  <2>. QED
    BY <1>1, <2>1 DEF LogGood
<1>4. CASE ~f.done /\ ~f.panic
  <2>1. g = d
    BY <1>4 DEF addDemandStep
  <2>2. /\ IsDemandFrame(h) /\ h.done = f.done /\ SameCounts(f, h) /\ h.s = f.s /\ h.b = f.b
        /\ h.openRounds = f.openRounds /\ h.updateBatch = f.updateBatch
        /\ h.log = f.log /\ h.demand = f.demand /\ h.rate = f.rate
    BY <1>1 DEF DemandGood, IsDemandFrame, DemandFields, SameCounts
  <2>. HIDE DEF g, h
  <2>3. PICK L : DemandBetween(f, L, s0)
    BY <1>1, <1>4 DEF DemandGood
  <2>4. DemandBetween(h, L, s0)
    BY <2>2, <2>3 DEF DemandBetween, DemandNumbers, SameCounts
  <2>5. LogBetween(h)
    <3>1. LogBetween(f)
      BY <1>4 DEF LogGood
    <3>2. SameHand(f, h)
      BY <2>2 DEF SameHand, SameCounts
    <3>3. SlotsHeld(h) /\ LogOf(h) = LogOf(f) /\ \A log : LogsWith(h, log) = LogsWith(f, log)
      BY <3>1, <3>2, HandKeeps DEF LogBetween
    <3>. QED
      BY <2>2, <3>1, <3>2, <3>3 DEF LogBetween, SameHand
  <2>6. /\ IsDemandFrame(a)
        /\ a.done => LogFinished(a)
        /\ ~a.done => LogMid(a) /\ \E M : DemandMid(a, L, M, s0)
    BY <1>4, <2>2, <2>4, <2>5, AppendLogs, AppendStep DEF a
  <2>. HIDE DEF a
  <2>7. CASE a.done
    <3>1. b = a
      BY <2>7, StagesStop DEF b
    <3>2. c = b
      BY <2>7, <3>1, StagesStop DEF c
    <3>3. d = c
      BY <2>7, <3>1, <3>2, StagesStop DEF d
    <3>. QED
      BY <1>1, <2>1, <2>6, <2>7, <3>1, <3>2, <3>3 DEF LogGood, g
  <2>8. CASE ~a.done
    <3>1. PICK M : DemandMid(a, L, M, s0)
      BY <2>6, <2>8
    <3>2. /\ IsDemandFrame(b)
          /\ b.done => LogFinished(b)
          /\ ~b.done => LogAdded(b) /\ (~b.updateBatch => b.addPerRound = 0) /\ UnitsPlaced(a, b, L, s0)
      BY <2>6, <2>8, <3>1, AddToOpenBatchStep, AddToOpenBatchLogs DEF b
    <3>. HIDE DEF b
    <3>3. CASE b.done
      <4>1. c = b
        BY <3>3, StagesStop DEF c
      <4>2. d = c
        BY <3>3, <4>1, StagesStop DEF d
      <4>. QED
        BY <1>1, <2>1, <3>2, <3>3, <4>1, <4>2 DEF LogGood, g
    <3>4. CASE ~b.done
      <4>1. PICK K : DemandMid(b, L, K, s0)
        BY <3>2, <3>4 DEF UnitsPlaced
      <4>2. b.addPerRound \in Nat /\ b.addPerRound * b.b.rounds <= b.unitCount
        BY <3>2, <3>4 DEF UnitsPlaced
      <4>3. IsDemandFrame(c) /\ DemandMid(c, L, K, s0)
        BY <3>2, <3>4, <4>1, <4>2, RecordStep DEF c
      <4>4. LogRecorded(c)
        BY <3>2, <3>4, <4>1, RecordLogs DEF c
      <4>. HIDE DEF c
      <4>5. CASE c.done
        <5>1. d = c
          BY <4>5, StagesStop DEF d
        <5>2. LogFinished(c)
          BY <4>4, RecordedIsFinished
        <5>. QED
          BY <1>1, <2>1, <4>5, <5>1, <5>2 DEF LogGood, g
      <4>6. CASE ~c.done
        <5>1. DemandBetween(d, K, s0)
          BY <4>3, <4>6, TakeNextStep DEF d
        <5>2. LogBetween(d)
          BY <4>3, <4>4, <4>6, TakeNextLogs DEF d
        <5>3. LogFinished(d)
          BY <5>1, <5>2, BetweenIsMid
        <5>. QED
          BY <1>1, <2>1, <5>2, <5>3 DEF LogGood, g
      <4>. QED
        BY <4>5, <4>6
    <3>. QED
      BY <3>3, <3>4
  <2>. QED
    BY <2>7, <2>8
<1>. QED
  BY <1>2, <1>3, <1>4

\* All turns of the demand loop.
LEMMA LogLoopKeeps ==
    ASSUME NEW n \in Nat, NEW frame, NEW s0, LogGood(frame, s0)
    PROVE  LogGood(Iterate(addDemandStep, frame, n), s0)
<1>1. PICK it : LoopFrames("demand", it, frame, n) /\ Iterate(addDemandStep, frame, n) = it[n]
  BY DemandLoopRuns
<1>. DEFINE G == {k \in 0..n : LogGood(it[k], s0)}
<1>2. \A k \in 0..n : it[k] = IF k = 0 THEN frame ELSE addDemandStep(it[k - 1])
  BY <1>1 DEF LoopFrames, LoopStep
<1>3. 0 \in G
  BY <1>2
<1>4. ASSUME NEW k \in 0..(n - 1), k \in G PROVE k + 1 \in G
  <2>1. k + 1 \in 0..n /\ k + 1 # 0 /\ (k + 1) - 1 = k /\ LogGood(it[k], s0)
    BY <1>4
  <2>2. it[k + 1] = addDemandStep(it[k])
    BY <1>2, <2>1
  <2>3. LogGood(it[k + 1], s0)
    BY <2>1, <2>2, LogStepKeeps
  <2>. QED
    BY <2>1, <2>3
<1>5. n \in G
  <2>. HIDE DEF G
  <2>1. 0..n \subseteq G
    BY <1>3, <1>4, UpToInduction
  <2>. QED
    BY <2>1
<1>. QED
  BY <1>1, <1>5

-----------------------------------------------------------------------------
(* The logs and the batches of a store.                                    *)

LogsOK(s) ==
    /\ DescribedAs(s, s.demands)
    /\ \A i \in Insureds : s.insureds[i].demandedUnits = LogUnits(s.demands[i])

\* The logs are in order as long as the batches ask for the same.
LEMMA LogsMove ==
    ASSUME NEW s, NEW t, NEW pos, Described(t, pos, s.demands), LogsOK(s), t.demands = s.demands,
           \A i \in Insureds : t.insureds[i].demandedUnits = s.insureds[i].demandedUnits
    PROVE  LogsOK(t)
  BY DEF LogsOK, DescribedAs

\* No logs ask for nothing.
LEMMA NoLogsNoWeight ==
    ASSUME NEW logs \in [Insureds -> Seq(Slots)], \A i \in Insureds : DOMAIN logs[i] = {}, NEW kind \in Kinds, NEW pos, NEW n
    PROVE  AllWeight(kind, pos, logs, n) = 0
<1>. DEFINE f == [i \in Insureds |-> LogWeight(kind, pos, logs[i], n)]
<1>1. \A i \in Insureds : LogWeight(kind, pos, logs[i], n) = 0
  <2>. TAKE i \in Insureds
  <2>. DEFINE g == [k \in DOMAIN logs[i] |-> SlotWeight(kind, pos, logs[i][k], n)]
              D == DOMAIN logs[i]
  <2>1. D = {}
    OBVIOUS
  <2>2. LogWeight(kind, pos, logs[i], n) = SumFunctionOnSet(g, D)
    BY DEF LogWeight
  <2>. HIDE DEF g, D
  <2>. QED
    BY <2>1, <2>2, SumEmpty
<1>2. IsFiniteSet(Insureds) /\ \A i \in Insureds : f[i] = 0
  BY <1>1, RoundsAssumption
<1>3. AllWeight(kind, pos, logs, n) = SumFunctionOnSet(f, Insureds)
  BY DEF AllWeight
<1>. HIDE DEF f
<1>. QED
  BY <1>2, <1>3, SumOfZeros

\* The first batch is created: nobody has demand yet.
LEMMA FirstLogs ==
    ASSUME NEW s, NEW L, EngineStore(s, L), LogsOK(s), s.firstOpenBatchNo = 0
    PROVE  LogsOK(FirstBatch(s)) /\ FirstBatch(s).demands = s.demands /\ FirstBatch(s).insureds = s.insureds
<1>. DEFINE t == FirstBatch(s)
            qos == [k \in {1} |-> 0]
<1>1. PICK pos : Described(s, pos, s.demands)
  BY DEF LogsOK, DescribedAs
<1>2. /\ IsStore(s) /\ Linked(s, L) /\ s.batchCount \in Nat /\ s.batchCount = 0 /\ Placed(s, pos)
      /\ LogsPlaced(pos, s.demands) /\ s.demands \in [Insureds -> Seq(Slots)]
  BY <1>1 DEF EngineStore, FirstOpenPlaced, Linked, Described, LogsPlaced
<1>3. DOMAIN pos = {}
  <2>1. DOMAIN pos \subseteq 1..s.batchCount /\ 1..0 = {}
    BY <1>2 DEF Placed
  <2>. QED
    BY <1>2, <2>1
<1>4. \A i \in Insureds : DOMAIN s.demands[i] = {}
  <2>. TAKE i \in Insureds
  <2>1. LogPlaced(pos, s.demands[i])
    BY <1>2 DEF LogsPlaced
  <2>2. \A k \in DOMAIN s.demands[i] : FALSE
    BY <1>3, <2>1 DEF LogPlaced, SlotPlaced
  <2>. QED
    BY <2>2
<1>5. /\ IsStore(t) /\ t.batches = s.batches /\ t.batchCount = 1 /\ t.demands = s.demands /\ t.insureds = s.insureds
  <2>. DEFINE m == initTimeMark(s, 1)
  <2>1. IsStore(m) /\ SameHeads(s, m) /\ m.batches = s.batches
    BY <1>2, InitMarked DEF OnlyMarked
  <2>2. t = [m EXCEPT !.latestBatchNo = 1, !.batchCount = 1, !.partial.batchNo = 1, !.firstOpenBatchNo = 1]
    BY DEF FirstBatch
  <2>. HIDE DEF m, t
  <2>. QED
    BY <2>1, <2>2 DEF IsStore, StoreFields, SameHeads
<1>. HIDE DEF t
<1>6. BatchAt(t, 1) = NoBatch
  <2>1. 1 \in Nat /\ 1 \notin 1..0
    OBVIOUS
  <2>2. BatchAt(s, 1) = NoBatch
    BY <1>2, <2>1 DEF Linked, NoOthers
  <2>. QED
    BY <1>5, <2>2 DEF BatchAt
<1>7. RoundsAt(t, 1) = 0 /\ NextOf(t, 1) = 0 /\ \A kind \in Kinds : HeldBy(kind, BatchAt(t, 1)) = 0
  BY <1>6 DEF RoundsAt, NextOf, HeldBy, NoBatch
<1>8. DOMAIN qos = {1} /\ qos[1] = 0
  OBVIOUS
<1>9. qos \in [{1} -> Nat]
  OBVIOUS
<1>. HIDE DEF qos
<1>10. Placed(t, qos)
  <2>1. PlacedBatch(t, qos, 1)
    BY <1>7 DEF PlacedBatch
  <2>2. {1} \subseteq 1..1
    OBVIOUS
  <2>3. \A n \in DOMAIN qos : \A m \in DOMAIN qos : n = m
    BY <1>8
  <2>. QED
    BY <1>5, <1>8, <1>9, <2>1, <2>2, <2>3 DEF Placed
<1>11. LogsPlaced(qos, s.demands)
  BY <1>2, <1>4 DEF LogsPlaced, LogPlaced
<1>12. Asked(t, qos, s.demands)
  BY <1>2, <1>4, <1>7, <1>8, NoLogsNoWeight DEF Asked
<1>13. LogsOK(t)
  BY <1>5, <1>10, <1>11, <1>12, LogsMove DEF Described
<1>. QED
  BY <1>5, <1>13 DEF t

(* The batches of u are those of s, but the one of the partial round keeps  *)
(* only its filled rounds when there are others.                            *)
OthersSetApart(s, u) ==
    LET p == s.partial.batchNo
        b == BatchAt(s, p)
        R == PartialRounds(s.partial)
        k == s.batchCount + 1
    IN  /\ u.demands = s.demands /\ u.insureds = s.insureds
        /\ R \in Nat /\ R <= b.rounds
        /\ b.rounds = R => u.batchCount = s.batchCount /\ \A j \in Nat : SameShape(BatchAt(u, j), BatchAt(s, j))
        /\ b.rounds # R =>
              /\ u.batchCount = k
              /\ SameShape(BatchAt(u, p), KeptRounds(b, R, k)) /\ SameShape(BatchAt(u, k), MovedRounds(b, R, k))
              /\ \A j \in Nat : j # p /\ j # k => BatchAt(u, j) = BatchAt(s, j)

\* findBatchToAppend sets the rounds without coverage apart.
LEMMA PartialLeftShape ==
    ASSUME NEW s, NEW L, EngineStore(s, L), s.partial.batchNo # 0
    PROVE  OthersSetApart(s, PartialLeft(s))
<1>. DEFINE p == s.partial.batchNo
            b == BatchAt(s, p)
            R == PartialRounds(s.partial)
            k == s.batchCount + 1
            split == PartialRest(s)
            S == split.s
            B == split.b
            full == [B EXCEPT !.state = "Full"]
            part == [roundCoverage |-> 0, batchNo |-> B.nextBatchNo, roundNo |-> 0]
            C == IF s.partial.roundCoverage # 0 THEN B ELSE full
            v == PutBatch(S, p, C)
            premium == addPartialToTotalPremium(S, p, v.poolPremium, B)
            c == PartialClosed(s)
            u == PartialLeft(s)
<1>1. PartialFacts(s, L, b)
  BY PartialBatch
<1>2. /\ p \in Nat /\ p \in L /\ IsStore(s) /\ IsBatch(b) /\ b.rounds \in Nat /\ s.batchCount \in Nat /\ L \subseteq 1..s.batchCount
  BY <1>1 DEF PartialFacts, EngineStore, Linked
<1>3. R \in Nat /\ R <= b.rounds
  <2>1. IsPart(s.partial) /\ PartFits(s.partial, b)
    BY <1>1 DEF PartialFacts
  <2>. HIDE DEF b
  <2>2. s.partial.roundNo \in Nat /\ s.partial.roundCoverage \in Nat
    BY <2>1 DEF IsPart
  <2>3. CASE s.partial.roundCoverage > 0
    <3>1. R = s.partial.roundNo + 1 /\ s.partial.roundNo < b.rounds
      BY <2>1, <2>3 DEF PartialRounds, PartFits
    <3>. QED
      BY <1>2, <2>2, <3>1
  <2>4. CASE ~(s.partial.roundCoverage > 0)
    <3>1. R = s.partial.roundNo /\ s.partial.roundNo <= b.rounds
      BY <2>1, <2>2, <2>4 DEF PartialRounds, PartFits
    <3>. QED
      BY <1>2, <2>2, <3>1
  <2>. QED
    BY <2>3, <2>4
<1>4. c = IF s.partial.roundCoverage # 0 THEN v
          ELSE [v EXCEPT !.poolPremium = premium, !.partial = part]
  BY DEF PartialClosed, RestStored
<1>5. \E open : u = [c EXCEPT !.firstOpenBatchNo = open]
  BY DEF PartialLeft
<1>6. SameShape(C, B)
  BY DEF SameShape
<1>7. split = splitBatch(s, R, b)
  BY DEF PartialRest
<1>. HIDE DEF C, premium, part, split, R, b, c, u
<1>8. ASSUME IsStore(S)
      PROVE  u.batchCount = S.batchCount /\ u.demands = S.demands /\ u.insureds = S.insureds
             /\ BatchAt(u, p) = C /\ Elsewhere(S, u, p)
  <2>1. /\ IsStore(v) /\ SameHeads(S, v) /\ v.batchCount = S.batchCount
        /\ BatchAt(v, p) = C /\ Elsewhere(S, v, p)
    BY <1>2, <1>8, PutBatchStores
  <2>. HIDE DEF v
  <2>2. /\ IsStore(c) /\ c.batches = v.batches /\ c.batchCount = v.batchCount /\ c.demands = v.demands /\ c.insureds = v.insureds
    BY <1>4, <2>1 DEF IsStore, StoreFields
  <2>3. /\ u.batches = v.batches /\ u.batchCount = v.batchCount /\ u.demands = v.demands /\ u.insureds = v.insureds
    BY <1>5, <2>2 DEF IsStore, StoreFields
  <2>. QED
    BY <2>1, <2>3 DEF SameHeads, BatchAt, Elsewhere
<1>9. CASE b.rounds = R
  <2>1. S = s /\ B = b
    BY <1>7, <1>9 DEF splitBatch
  <2>2. u.batchCount = s.batchCount /\ u.demands = s.demands /\ u.insureds = s.insureds
        /\ BatchAt(u, p) = C /\ Elsewhere(s, u, p)
    BY <1>2, <1>8, <2>1
  <2>3. \A j \in Nat : SameShape(BatchAt(u, j), BatchAt(s, j))
    <3>1. SameShape(BatchAt(u, p), BatchAt(s, p))
      BY <1>6, <2>1, <2>2 DEF b
    <3>2. \A j : SameShape(BatchAt(s, j), BatchAt(s, j))
      BY DEF SameShape
    <3>. QED
      BY <2>2, <3>1, <3>2 DEF Elsewhere
  <2>. QED
    BY <1>3, <1>9, <2>2, <2>3 DEF OthersSetApart, u, b, R
<1>10. CASE b.rounds # R
  <2>1. SplitOff(s, S, k, MovedRounds(b, R, k)) /\ B = KeptRounds(b, R, k)
    BY <1>2, <1>7, <1>10, SplitEffects
  <2>2. IsStore(S) /\ SameHeads(s, S) /\ S.batchCount = k /\ BatchAt(S, k) = MovedRounds(b, R, k) /\ Elsewhere(s, S, k)
    BY <2>1 DEF SplitOff
  <2>3. /\ u.batchCount = S.batchCount /\ u.demands = S.demands /\ u.insureds = S.insureds
        /\ BatchAt(u, p) = C /\ Elsewhere(S, u, p)
    BY <1>8, <2>2
  <2>4. k \in Nat /\ p # k
    BY <1>2
  <2>5. SameShape(BatchAt(u, p), KeptRounds(b, R, k))
    BY <1>6, <2>1, <2>3
  <2>6. SameShape(BatchAt(u, k), MovedRounds(b, R, k))
    <3>1. BatchAt(u, k) = MovedRounds(b, R, k)
      BY <2>2, <2>3, <2>4 DEF Elsewhere
    <3>. QED
      BY <3>1 DEF SameShape
  <2>7. \A j \in Nat : j # p /\ j # k => BatchAt(u, j) = BatchAt(s, j)
    BY <2>2, <2>3 DEF Elsewhere
  <2>. QED
    BY <1>3, <1>10, <2>2, <2>3, <2>5, <2>6, <2>7 DEF OthersSetApart, u, b, R, SameHeads
<1>. QED
  BY <1>9, <1>10

\* ... and the logs stay in order.
LEMMA PartialLeftLogs ==
    ASSUME NEW s, NEW L, EngineStore(s, L), LogsOK(s), s.partial.batchNo # 0, PartialRounds(s.partial) > 0
    PROVE  /\ LogsOK(PartialLeft(s)) /\ PartialLeft(s).demands = s.demands /\ PartialLeft(s).insureds = s.insureds
<1>. DEFINE p == s.partial.batchNo
            b == BatchAt(s, p)
            R == PartialRounds(s.partial)
            k == s.batchCount + 1
            u == PartialLeft(s)
<1>1. PICK pos : Described(s, pos, s.demands)
  BY DEF LogsOK, DescribedAs
<1>2. /\ PartialFacts(s, L, b) /\ Linked(s, L) /\ Placed(s, pos)
  BY <1>1, PartialBatch DEF EngineStore, Described
<1>3. p \in DOMAIN pos /\ p \in Nat /\ IsBatch(b) /\ b.rounds \in Nat
  BY <1>2, LiveArePlaced DEF PartialFacts
<1>4. OthersSetApart(s, u)
  BY PartialLeftShape
<1>. HIDE DEF u
<1>5. /\ R \in Nat /\ R <= b.rounds /\ R > 0
      /\ u.demands = s.demands /\ u.insureds = s.insureds
      /\ s.batchCount \in Nat /\ DOMAIN pos \subseteq 1..s.batchCount /\ s.batchCount > 0
  <2>1. s.batchCount \in Nat /\ DOMAIN pos \subseteq 1..s.batchCount
    BY <1>2 DEF Placed
  <2>2. s.batchCount > 0
    BY <1>3, <2>1
  <2>. QED
    BY <1>4, <2>1, <2>2 DEF OthersSetApart
<1>6. CASE b.rounds = R
  <2>1. u.batchCount = s.batchCount /\ \A j \in Nat : SameShape(BatchAt(u, j), BatchAt(s, j))
    BY <1>4, <1>6 DEF OthersSetApart
  <2>2. \A j \in DOMAIN pos : j \in Nat
    BY <1>2, PlaceNumbers
  <2>3. Described(u, pos, s.demands)
    BY <1>1, <1>5, <2>1, <2>2, DescribedMoves
  <2>. QED
    BY <1>5, <2>3, LogsMove DEF u
<1>7. CASE b.rounds # R
  <2>1. /\ u.batchCount = k
        /\ SameShape(BatchAt(u, p), KeptRounds(b, R, k)) /\ SameShape(BatchAt(u, k), MovedRounds(b, R, k))
        /\ \A j \in Nat : j # p /\ j # k => BatchAt(u, j) = BatchAt(s, j)
    BY <1>4, <1>7 DEF OthersSetApart
  <2>2. k \in Nat /\ k \in 1..k /\ s.batchCount <= k /\ k \notin DOMAIN pos /\ \A j \in DOMAIN pos : j \in Nat /\ j # k
    <3>1. k \in Nat /\ k \in 1..k /\ s.batchCount <= k /\ k \notin 1..s.batchCount
      BY <1>5
    <3>. QED
      BY <1>5, <3>1
  <2>. HIDE DEF k, b
  <2>3. /\ DOMAIN b = BatchFields
        /\ LET c == KeptRounds(b, R, k)
           IN  c.rounds = R /\ c.nextBatchNo = k /\ c.unitPerRound = b.unitPerRound /\ c.roundPremiumRateSum = b.roundPremiumRateSum
        /\ LET c == MovedRounds(b, R, k)
           IN  c.rounds = b.rounds - R /\ c.nextBatchNo = b.nextBatchNo /\ c.unitPerRound = b.unitPerRound
               /\ c.roundPremiumRateSum = b.roundPremiumRateSum
    BY <1>3 DEF KeptRounds, MovedRounds, IsBatch, BatchFields
  <2>4. /\ BatchAt(u, p).rounds = R /\ BatchAt(u, p).nextBatchNo = k
        /\ BatchAt(u, p).unitPerRound = b.unitPerRound /\ BatchAt(u, p).roundPremiumRateSum = b.roundPremiumRateSum
        /\ BatchAt(u, k).rounds = b.rounds - R /\ BatchAt(u, k).nextBatchNo = b.nextBatchNo
        /\ BatchAt(u, k).unitPerRound = b.unitPerRound /\ BatchAt(u, k).roundPremiumRateSum = b.roundPremiumRateSum
    BY <2>1, <2>3 DEF SameShape
  <2>5. \A kind \in Kinds : HeldBy(kind, BatchAt(u, p)) = HeldBy(kind, BatchAt(s, p))
                            /\ HeldBy(kind, BatchAt(u, k)) = HeldBy(kind, BatchAt(s, p))
    BY <2>4 DEF HeldBy, b
  <2>6. RoundsAt(s, p) = b.rounds /\ NextOf(s, p) = b.nextBatchNo
    BY DEF RoundsAt, NextOf, b
  <2>7. \A j \in DOMAIN pos : j # p => SameShape(BatchAt(u, j), BatchAt(s, j))
    BY <2>1, <2>2 DEF SameShape
  <2>8. DividedAt(s, u, pos, p, k)
    <3>1. b.rounds - R \in Nat /\ b.rounds > 0 /\ b.rounds - R > 0 /\ R + (b.rounds - R) = b.rounds
      BY <1>3, <1>5, <1>7
    <3>. QED
      BY <1>5, <2>1, <2>2, <2>4, <2>5, <2>6, <2>7, <3>1 DEF DividedAt
  <2>. DEFINE qos == WithPlace(pos, k, pos[p] + RoundsAt(u, p))
  <2>9. Described(u, qos, s.demands)
    BY <1>1, <1>3, <2>8, DividedIsDescribed
  <2>. HIDE DEF qos
  <2>. QED
    BY <1>5, <2>9, LogsMove DEF u
<1>. QED
  BY <1>6, <1>7

\* Finding the batch for new demand keeps the logs in order.
LEMMA FindLogs ==
    ASSUME NEW s, NEW L, EngineStore(s, L), LogsOK(s), NEW nextBatchNo \in L \cup {0},
           NEW r, r = findBatchToAppend(s, nextBatchNo)
    PROVE  LogsOK(r.s) /\ r.s.demands = s.demands /\ r.s.insureds = s.insureds
<1>. DEFINE this == AppendAt(s, nextBatchNo)
<1>1. /\ s.firstOpenBatchNo = 0 => FoundAt(r, FirstBatch(s), 1)
      /\ s.firstOpenBatchNo # 0 /\ ~SplitsPartial(s, this) => FoundAt(r, s, this)
      /\ s.firstOpenBatchNo # 0 /\ SplitsPartial(s, this) =>
            FoundAt(r, PartialLeft(s), PartialRest(s).b.nextBatchNo)
  BY FindCases
<1>2. CASE s.firstOpenBatchNo = 0
  <2>1. r.s = FirstBatch(s)
    BY <1>1, <1>2 DEF FoundAt
  <2>. QED
    BY <1>2, <2>1, FirstLogs
<1>3. CASE s.firstOpenBatchNo # 0 /\ ~SplitsPartial(s, this)
  <2>1. r.s = s
    BY <1>1, <1>3 DEF FoundAt
  <2>. QED
    BY <2>1
<1>4. CASE s.firstOpenBatchNo # 0 /\ SplitsPartial(s, this)
  <2>1. r.s = PartialLeft(s)
    BY <1>1, <1>4 DEF FoundAt
  <2>2. s.partial.batchNo = this /\ PartialRounds(s.partial) > 0
    BY <1>4 DEF SplitsPartial
  <2>3. s.partial.batchNo # 0
    <3>1. s.batchCount > 0
      <4>1. s.batchCount \in Nat /\ L \subseteq 1..s.batchCount
        BY DEF EngineStore, Linked
      <4>2. s.firstOpenBatchNo \in L
        BY <1>4 DEF EngineStore, FirstOpenPlaced
      <4>3. s.firstOpenBatchNo \in 1..s.batchCount
        BY <4>1, <4>2
      <4>. QED
        BY <4>1, <4>3
    <3>. QED
      BY <3>1 DEF EngineStore, PartialPlaced
  <2>. QED
    BY <2>1, <2>2, <2>3, PartialLeftLogs
<1>. QED
  BY <1>2, <1>3, <1>4

\* The frame before the demand loop.
LEMMA LogEntered ==
    ASSUME NEW s, NEW L, EngineStore(s, L), LogsOK(s), NEW insured \in Insureds, NEW unitCount \in Nat, NEW rate \in Nat,
           NEW limit, NEW found, found = findBatchToAppend(s, s.insureds[insured].nextBatchNo)
    PROVE  LogGood(demandFrame(found, insured, unitCount, rate, limit), s)
<1>. DEFINE f == demandFrame(found, insured, unitCount, rate, limit)
            p == PartialRounds(found.s.partial)
            short == found.s.openRounds < p
            open == found.s.openRounds - p
<1>1. DemandGood(f, s)
  BY DemandEntered
<1>2. LogsOK(found.s) /\ FoundAt(found, found.s, found.batchNo)
  <2>. DEFINE n == s.insureds[insured].nextBatchNo
  <2>1. n \in L \cup {0} /\ found = findBatchToAppend(s, n)
    BY DEF EngineStore, InsuredsIn
  <2>. HIDE DEF n
  <2>. QED
    BY <2>1, FindLogs, FindKeeps
<1>3. f = [s |-> found.s, b |-> found.b, batchNo |-> found.batchNo,
           isFirstOfOpen |-> found.isFirstOfOpen, insured |-> insured, rate |-> rate,
           entry |-> found.s.insureds[insured], demand |-> NoDemand, log |-> found.s.demands[insured],
           openRounds |-> open, partialRounds |-> p,
           unitCount |-> unitCount, loopLimit |-> limit, addPerRound |-> 0,
           updateBatch |-> FALSE, takeNext |-> FALSE, done |-> FALSE,
           panic |-> found.panic \/ short]
  BY DEF demandFrame
<1>. HIDE DEF p, short, open, f
<1>4. /\ f.s = found.s /\ f.b = found.b /\ f.batchNo = found.batchNo /\ f.insured = insured /\ f.rate = rate
      /\ f.entry = found.s.insureds[insured] /\ f.demand = NoDemand /\ f.log = found.s.demands[insured] /\ ~f.done
  BY <1>3
<1>5. PICK pos : Described(found.s, pos, found.s.demands)
  BY <1>2 DEF LogsOK, DescribedAs
<1>6. found.s.demands \in [Insureds -> Seq(Slots)]
  BY <1>5 DEF Described, LogsPlaced
<1>7. NoDemand \in PendingSlots /\ NoDemand.unitPerRound = 0
  BY DEF NoDemand, PendingSlots
<1>8. LogOf(f) = found.s.demands[insured]
  BY <1>4, <1>7 DEF LogOf, PushDemand
<1>9. LogsWith(f, LogOf(f)) = found.s.demands
  BY <1>4, <1>6, <1>8 DEF LogsWith, ReplaceLog
<1>10. InHand(f)
  BY <1>4, <1>6, <1>7 DEF InHand
<1>11. HandCounted(f)
  BY <1>2, <1>4, <1>8 DEF HandCounted, LogsOK
<1>12. SameShape(f.b, BatchAt(f.s, f.batchNo))
  BY <1>2, <1>4 DEF FoundAt, SameShape
<1>13. PendingEnds(pos, f.demand, f.batchNo)
  BY <1>4, <1>7 DEF PendingEnds
<1>14. LogBetween(f)
  BY <1>4, <1>5, <1>9, <1>10, <1>11, <1>12, <1>13 DEF LogBetween, SlotsHeld
<1>15. LogGood(f, s)
  BY <1>1, <1>4, <1>14 DEF LogGood
<1>. QED
  BY <1>15 DEF f

\* The logs after the demand loop.
LEMMA LogStored ==
    ASSUME NEW f, NEW L, NEW s0, DemandFinished(f, L, s0), LogFinished(f), NEW more, NEW r, r = demandAdded(f, more)
    PROVE  LogsOK(r.s)
<1>. DEFINE t == FrameStored(f)
            old == f.s.insureds[f.insured].nextBatchNo
            enough == more \/ internalIsEnoughForMore(f.entry.demandedUnits, MinUnits[f.insured], f.unitCount)
            pull == IF enough THEN f.batchNo ELSE 0
            pulled == setPullBatch(t, f.insured, old, pull)
            rounds == f.openRounds + f.partialRounds
            log == PushDemand(f.log, f.demand)
            isFirst == f.isFirstOfOpen
            u == [pulled EXCEPT !.openRounds = rounds, !.insureds[f.insured] = f.entry, !.demands[f.insured] = log,
                                !.firstOpenBatchNo = IF isFirst THEN f.batchNo ELSE @]
<1>1. r = [s |-> u, remaining |-> f.unitCount, panic |-> f.panic]
  BY DEF demandAdded, FrameStored, FramePut
<1>. HIDE DEF enough
<1>2. r.s = u
  BY <1>1
<1>3. /\ IsStore(t) /\ f.insured \in Insureds /\ InsuredsIn(t.insureds, L)
      /\ t.demands = f.s.demands /\ t.insureds = f.s.insureds
      /\ t.batchCount \in Nat /\ t.batchCount > 0
  <2>1. Appendable(t, L, f.batchNo) /\ DemandNumbers(f, L)
    BY DEF DemandFinished
  <2>2. f.batchNo \in Nat /\ IsStore(t) /\ t.batchCount \in Nat /\ t.batchCount > 0
    <3>. HIDE DEF t
    <3>. QED
      BY <2>1, AppendableFacts DEF Linked
  <2>3. t.demands = f.s.demands /\ t.insureds = f.s.insureds
    <3>1. FramePut(f).demands = f.s.demands /\ FramePut(f).insureds = f.s.insureds
      BY DEF FramePut, PutBatch
    <3>. QED
      BY <3>1 DEF FrameStored
  <2>. HIDE DEF t
  <2>. QED
    BY <2>1, <2>2, <2>3 DEF Appendable, EngineStore, DemandNumbers
<1>4. SlotsHeld(f) /\ DescribedAs(t, LogsWith(f, LogOf(f))) /\ f.s.demands \in [Insureds -> Seq(Slots)]
  BY DEF LogFinished, SlotsHeld, InHand
<1>5. log = LogOf(f)
  BY DEF LogOf
<1>. HIDE DEF t, old, pull, rounds, log, isFirst
<1>6. OnlyPullable(t, pulled)
  BY <1>3, PullBatchSet
<1>. HIDE DEF pulled
<1>7. /\ IsStore(pulled) /\ pulled.batches = t.batches /\ pulled.batchCount = t.batchCount
      /\ pulled.insureds = t.insureds /\ pulled.demands = t.demands
  BY <1>3, <1>6 DEF OnlyPullable, IsStore, StoreFields
<1>8. /\ u.batches = t.batches /\ u.batchCount = t.batchCount
      /\ u.insureds = [f.s.insureds EXCEPT ![f.insured] = f.entry]
      /\ u.demands = [f.s.demands EXCEPT ![f.insured] = log]
  BY <1>3, <1>7 DEF IsStore, StoreFields
<1>. HIDE DEF u
<1>9. u.demands = LogsWith(f, LogOf(f))
  BY <1>5, <1>8 DEF LogsWith, ReplaceLog
<1>10. DescribedAs(u, u.demands)
  <2>1. PICK pos : Described(t, pos, u.demands)
    BY <1>4, <1>9 DEF DescribedAs
  <2>2. \A k \in DOMAIN pos : SameShape(BatchAt(u, k), BatchAt(t, k))
    BY <1>8 DEF BatchAt, SameShape
  <2>3. Described(u, pos, u.demands)
    BY <1>3, <1>8, <2>1, <2>2, DescribedMoves
  <2>. QED
    BY <2>3 DEF DescribedAs
<1>11. \A i \in Insureds : u.insureds[i].demandedUnits = LogUnits(u.demands[i])
  <2>. TAKE i \in Insureds
  <2>1. DOMAIN f.s.insureds = Insureds
    BY <1>3 DEF InsuredsIn
  <2>2. CASE i = f.insured
    BY <1>4, <1>5, <1>8, <2>1, <2>2 DEF SlotsHeld, HandCounted
  <2>3. CASE i # f.insured
    BY <1>4, <1>8, <2>1, <2>3 DEF SlotsHeld, HandCounted
  <2>. QED
    BY <2>2, <2>3
<1>. QED
  BY <1>2, <1>10, <1>11 DEF LogsOK

\* Adding demand keeps the logs and the batches together.
LEMMA AddDemandLogs ==
    ASSUME NEW s, NEW L, EngineStore(s, L), LogsOK(s), NEW insured \in Insureds, NEW unitCount \in Nat, NEW rate \in Nat,
           NEW more, NEW limit \in Nat,
           NEW r, r = internalAddCoverageDemand(s, insured, unitCount, rate, more, limit), ~r.panic
    PROVE  LogsOK(r.s)
<1>. DEFINE found == findBatchToAppend(s, s.insureds[insured].nextBatchNo)
            frame == demandFrame(found, insured, unitCount, rate, limit)
            f == Iterate(addDemandStep, frame, limit)
<1>1. r = demandAdded(f, more)
  BY DEF internalAddCoverageDemand
<1>2. LogGood(frame, s)
  <2>. HIDE DEF found
  <2>1. found = findBatchToAppend(s, s.insureds[insured].nextBatchNo)
    BY DEF found
  <2>. QED
    BY <2>1, LogEntered
<1>. HIDE DEF frame
<1>3. LogGood(f, s)
  BY <1>2, LogLoopKeeps
<1>. HIDE DEF f
<1>4. ~f.panic
  <2>1. r.panic = f.panic
    BY <1>1 DEF demandAdded
  <2>. QED
    BY <2>1
<1>5. CASE f.done
  <2>1. PICK K : DemandFinished(f, K, s)
    BY <1>3, <1>4, <1>5 DEF LogGood, DemandGood
  <2>2. LogFinished(f)
    BY <1>3, <1>4, <1>5 DEF LogGood
  <2>. QED
    BY <1>1, <2>1, <2>2, LogStored
<1>6. CASE ~f.done
  <2>1. PICK K : DemandBetween(f, K, s)
    BY <1>3, <1>4, <1>6 DEF LogGood, DemandGood
  <2>2. LogBetween(f)
    BY <1>3, <1>4, <1>6 DEF LogGood
  <2>3. DemandFinished(f, K, s) /\ LogFinished(f)
    BY <2>1, <2>2, BetweenIsFinished, BetweenIsMid
  <2>. QED
    BY <1>1, <2>3, LogStored
<1>. QED
  BY <1>5, <1>6

-----------------------------------------------------------------------------
(* Adding coverage does not touch the logs, nor what the batches ask for.  *)

ShapesKept(s, t) ==
    /\ t.demands = s.demands /\ t.insureds = s.insureds /\ t.batchCount = s.batchCount
    /\ \A k \in Nat : SameShape(BatchAt(t, k), BatchAt(s, k))

\* Then the logs stay in order.
LEMMA KeptShapesKeepLogs ==
    ASSUME NEW s, NEW t, ShapesKept(s, t), LogsOK(s)
    PROVE  LogsOK(t)
<1>1. PICK pos : Described(s, pos, s.demands)
  BY DEF LogsOK, DescribedAs
<1>2. s.batchCount \in Nat /\ \A k \in DOMAIN pos : k \in Nat
  BY <1>1, PlaceNumbers DEF Described, Placed
<1>3. /\ t.batchCount \in Nat /\ s.batchCount <= t.batchCount /\ (t.batchCount > 0 => s.batchCount > 0)
      /\ \A k \in DOMAIN pos : SameShape(BatchAt(t, k), BatchAt(s, k))
  BY <1>2 DEF ShapesKept
<1>4. Described(t, pos, s.demands)
  BY <1>1, <1>3, ShapeKeeps
<1>. QED
  BY <1>4, LogsMove DEF ShapesKept

\* A batch is stored that differs in its total and state only.
LEMMA PutKeepsShapes ==
    ASSUME NEW s, NEW t, ShapesKept(s, t), IsStore(t), NEW n \in Nat, NEW b, SameShape(b, BatchAt(s, n)),
           NEW u, u = PutBatch(t, n, b)
    PROVE  ShapesKept(s, u)
<1>1. SameHeads(t, u) /\ u.batchCount = t.batchCount /\ BatchAt(u, n) = b /\ Elsewhere(t, u, n)
  BY PutBatchStores
<1>. QED
  BY <1>1 DEF ShapesKept, SameHeads, Elsewhere

\* The rest of the store does not matter.
LEMMA HeadsKeepShapes ==
    ASSUME NEW s, NEW t, ShapesKept(s, t), NEW u, u.batches = t.batches, u.batchCount = t.batchCount,
           u.demands = t.demands, u.insureds = t.insureds
    PROVE  ShapesKept(s, u)
  BY DEF ShapesKept, BatchAt

(* The coverage loop with the shapes of the batches. *)
ShapesGood(f, L, s0, sum) ==
    /\ CoverageGood(f, L, s0, sum)
    /\ f.panic \/ (ShapesKept(s0, f.s) /\ SameShape(f.b, BatchAt(s0, f.part.batchNo)))

\* A turn of the coverage loop.
LEMMA ShapesStepKeeps ==
    ASSUME NEW f, NEW L, NEW s0, NEW sum, ShapesGood(f, L, s0, sum)
    PROVE  ShapesGood(addCoverageStep(f), L, s0, sum)
<1>. DEFINE h == [f EXCEPT !.loopLimit = @ - 1]
            c == closeFullBatch(h)
            r == fillRounds(h)
            g == addCoverageStep(f)
<1>1. CoverageGood(f, L, s0, sum) /\ CoverageGood(g, L, s0, sum) /\ IsCoverageFrame(f)
  BY CoverageStepKeeps DEF ShapesGood, CoverageGood
<1>2. /\ IsCoverageFrame(h) /\ h.s = f.s /\ h.b = f.b /\ h.amount = f.amount /\ h.part = f.part
      /\ h.batchUpdated = f.batchUpdated /\ h.panic = f.panic
  BY <1>1 DEF IsCoverageFrame, CoverageFields
<1>3. CASE f.done
  <2>1. g = f
    BY <1>3 DEF addCoverageStep
  <2>. QED
    BY <2>1
<1>4. /\ IsCoverageFrame(c) /\ (h.panic => c.panic)
      /\ IsCoverageFrame(r) /\ (h.panic => r.panic)
  BY <1>2, CoverageStepsKeepPanic
<1>. HIDE DEF h, c, r
<1>5. ASSUME ~f.panic
      PROVE  /\ ShapesKept(s0, f.s) /\ SameShape(f.b, BatchAt(s0, f.part.batchNo)) /\ CoverageStore(f, L, s0) /\ CoverageBatch(f)
             /\ IsStore(f.s) /\ f.part.batchNo \in Nat /\ IsBatch(f.b) /\ ~isFull(f.b) /\ f.b.nextBatchNo \in Nat /\ IsPart(f.part)
  <2>1. ShapesKept(s0, f.s) /\ SameShape(f.b, BatchAt(s0, f.part.batchNo)) /\ CoverageStore(f, L, s0) /\ CoverageBatch(f)
    BY <1>5 DEF ShapesGood, CoverageGood, CoverageKept
  <2>2. f.part.batchNo \in Nat
    BY <2>1, LinksAreNumbers DEF CoverageStore
  <2>. QED
    BY <2>1, <2>2 DEF CoverageStore, CoverageBatch, IsBatch
<1>6. CASE ~f.done /\ f.part.roundNo >= f.b.rounds
  <2>. DEFINE e == c.done \/ c.loopLimit = 0
  <2>1. g = [c EXCEPT !.done = e]
    BY <1>6 DEF addCoverageStep, c, h
  <2>. HIDE DEF e, g
  <2>2. g.panic = c.panic /\ g.s = c.s /\ g.b = c.b /\ g.part = c.part
    BY <1>4, <2>1 DEF IsCoverageFrame, CoverageFields
  <2>3. CASE f.panic
    BY <1>1, <1>2, <1>4, <2>2, <2>3 DEF ShapesGood, g
  <2>4. CASE ~f.panic
    <3>. DEFINE full == [f.b EXCEPT !.state = "Full"]
                n == f.part.batchNo
                s1 == PutBatch(f.s, n, full)
                q == f.b.nextBatchNo
                next == BatchAt(s1, q)
                total == f.b.totalUnitsBeforeBatch + UnitsOf(f.b)
                open == s1.openRounds - f.b.rounds
    <3>1. SameShape(full, f.b)
      BY DEF SameShape
    <3>. HIDE DEF full
    <3>2. SameShape(full, BatchAt(s0, n))
      BY <1>5, <2>4, <3>1 DEF SameShape
    <3>3. ShapesKept(s0, s1) /\ IsStore(s1)
      BY <1>5, <2>4, <3>2, PutKeepsShapes, PutBatchStores
    <3>4. q # 0
      BY <1>5, <1>6, <2>4 DEF CoverageBatch
    <3>. HIDE DEF s1, next, open, total, n
    <3>5. /\ c.s = [s1 EXCEPT !.openRounds = open]
          /\ c.part = [batchNo |-> q, roundNo |-> 0, roundCoverage |-> 0]
          /\ c.b = [next EXCEPT !.totalUnitsBeforeBatch = total]
      BY <1>2, <1>5, <2>4, <3>3, <3>4, CloseEffects DEF c, full, s1, next, open, total, n
    <3>6. SameShape(c.b, next)
      BY <3>5 DEF SameShape
    <3>7. SameShape(next, BatchAt(s0, q))
      BY <1>5, <2>4, <3>3 DEF ShapesKept, next
    <3>8. SameShape(c.b, BatchAt(s0, c.part.batchNo))
      BY <3>5, <3>6, <3>7 DEF SameShape
    <3>9. c.s.batches = s1.batches /\ c.s.batchCount = s1.batchCount /\ c.s.demands = s1.demands /\ c.s.insureds = s1.insureds
      BY <3>3, <3>5 DEF IsStore, StoreFields
    <3>10. ShapesKept(s0, c.s)
      BY <3>3, <3>9, HeadsKeepShapes
    <3>. QED
      BY <1>1, <2>2, <3>8, <3>10 DEF ShapesGood, g
  <2>. QED
    BY <2>3, <2>4
<1>7. CASE ~f.done /\ ~(f.part.roundNo >= f.b.rounds)
  <2>. DEFINE e == r.done \/ r.loopLimit = 0
  <2>1. g = [r EXCEPT !.done = e]
    BY <1>7 DEF addCoverageStep, r, h
  <2>. HIDE DEF e, g
  <2>2. g.panic = r.panic /\ g.s = r.s /\ g.b = r.b /\ g.part = r.part
    BY <1>4, <2>1 DEF IsCoverageFrame, CoverageFields
  <2>3. CASE f.panic
    BY <1>1, <1>2, <1>4, <2>2, <2>3 DEF ShapesGood, g
  <2>4. CASE ~f.panic /\ UnitSize * f.b.unitPerRound = 0
    <3>1. r.panic
      BY <1>2, <2>4 DEF r, fillRounds, IsCoverageFrame, CoverageFields
    <3>. QED
      BY <1>1, <2>2, <3>1 DEF ShapesGood, g
  <2>5. CASE ~f.panic /\ UnitSize * f.b.unitPerRound # 0
    <3>. DEFINE perRound == UnitSize * h.b.unitPerRound
                rounds == h.amount \div perRound
    <3>1. perRound # 0 /\ IsStore(h.s) /\ IsPart(h.part)
      BY <1>2, <1>5, <2>5
    <3>2. FillResult(h, r, perRound, rounds)
      <4>. HIDE DEF perRound, rounds
      <4>1. perRound = UnitSize * h.b.unitPerRound /\ rounds = h.amount \div perRound
        BY DEF perRound, rounds
      <4>. QED
        BY <1>2, <3>1, <4>1, FillEffects DEF r
    <3>. HIDE DEF perRound, rounds
    <3>3. r.s = updateTimeMark(h.s, h.part, h.b.unitPerRound) /\ r.b = f.b /\ r.part.batchNo = f.part.batchNo
      BY <1>2, <3>2 DEF FillResult
    <3>4. OnlyMarked(h.s, r.s)
      BY <3>1, <3>3, TimeMarked
    <3>5. r.s.batches = f.s.batches /\ r.s.batchCount = f.s.batchCount /\ r.s.demands = f.s.demands /\ r.s.insureds = f.s.insureds
      BY <1>2, <3>4 DEF OnlyMarked, SameHeads
    <3>6. ShapesKept(s0, r.s)
      BY <1>5, <2>5, <3>5, HeadsKeepShapes
    <3>. QED
      BY <1>1, <1>5, <2>2, <2>5, <3>3, <3>6 DEF ShapesGood, g
  <2>. QED
    BY <2>3, <2>4, <2>5
<1>. QED
  BY <1>3, <1>6, <1>7

\* All turns of the coverage loop.
LEMMA ShapesLoopKeeps ==
    ASSUME NEW n \in Nat, NEW frame, NEW L, NEW s0, NEW sum, ShapesGood(frame, L, s0, sum)
    PROVE  ShapesGood(Iterate(addCoverageStep, frame, n), L, s0, sum)
<1>1. PICK it : LoopFrames("coverage", it, frame, n) /\ Iterate(addCoverageStep, frame, n) = it[n]
  BY CoverageLoopRuns
<1>. DEFINE G == {k \in 0..n : ShapesGood(it[k], L, s0, sum)}
<1>2. \A k \in 0..n : it[k] = IF k = 0 THEN frame ELSE addCoverageStep(it[k - 1])
  BY <1>1 DEF LoopFrames, LoopStep
<1>3. 0 \in G
  BY <1>2
<1>4. ASSUME NEW k \in 0..(n - 1), k \in G PROVE k + 1 \in G
  <2>1. k + 1 \in 0..n /\ k + 1 # 0 /\ (k + 1) - 1 = k /\ ShapesGood(it[k], L, s0, sum)
    BY <1>4
  <2>2. it[k + 1] = addCoverageStep(it[k])
    BY <1>2, <2>1
  <2>3. ShapesGood(it[k + 1], L, s0, sum)
    BY <2>1, <2>2, ShapesStepKeeps
  <2>. QED
    BY <2>1, <2>3
<1>5. n \in G
  <2>. HIDE DEF G
  <2>1. 0..n \subseteq G
    BY <1>3, <1>4, UpToInduction
  <2>. QED
    BY <2>1
<1>. QED
  BY <1>1, <1>5

\* internalAddCoverage as a whole.
LEMMA AddCoverageShapes ==
    ASSUME NEW s, NEW L, EngineStore(s, L), NEW amount \in Nat, NEW limit \in Nat,
           NEW r, r = internalAddCoverage(s, amount, limit), ~r.panic
    PROVE  ShapesKept(s, r.s)
<1>1. IsPart(s.partial) /\ s.partial.roundCoverage \in Nat /\ IsStore(s)
  BY DEF EngineStore, PartialPlaced, IsPart
<1>2. ShapesKept(s, s)
  BY DEF ShapesKept, SameShape
<1>3. CASE CoverageBlocked(s, amount)
  <2>1. r.s = s
    BY <1>1, <1>3, AddCoverageCases
  <2>. QED
    BY <1>2, <2>1
<1>4. CASE ~CoverageBlocked(s, amount) /\ CoverageFits(s, amount)
  <2>1. r.s = roundFilled(s, amount)
    BY <1>1, <1>4, AddCoverageCases
  <2>. DEFINE marked == updateTimeMark(s, s.partial, BatchAt(s, s.partial.batchNo).unitPerRound)
  <2>2. OnlyMarked(s, marked)
    BY <1>1, TimeMarked
  <2>3. r.s = [marked EXCEPT !.partial.roundCoverage = @ + amount]
    BY <2>1 DEF roundFilled
  <2>. HIDE DEF marked
  <2>4. r.s.batches = s.batches /\ r.s.batchCount = s.batchCount /\ r.s.demands = s.demands /\ r.s.insureds = s.insureds
    BY <2>2, <2>3 DEF OnlyMarked, SameHeads, IsStore, StoreFields
  <2>. QED
    BY <1>2, <2>4, HeadsKeepShapes
<1>5. CASE ~CoverageBlocked(s, amount) /\ ~CoverageFits(s, amount)
  <2>1. PICK f : f = coverageLoop(s, amount, limit) /\ r.s = coverageStored(f) /\ (f.panic => r.panic)
    BY <1>1, <1>5, AddCoverageCases
  <2>. DEFINE frame == coverageFrame(s, amount, limit)
              b == BatchAt(s, s.partial.batchNo)
              marked == updateTimeMark(s, s.partial, b.unitPerRound)
              sum == StoreSum(s) + amount
  <2>2. CoverageGood(frame, L, s, sum)
    BY <1>5, LoopEntered
  <2>3. /\ frame.b = b /\ (frame.s = s \/ frame.s = marked)
        /\ frame.part.batchNo = s.partial.batchNo
    BY <1>1 DEF coverageFrame, IsPart, PartFields
  <2>4. OnlyMarked(s, marked)
    BY <1>1, TimeMarked
  <2>5. f = Iterate(addCoverageStep, frame, limit)
    BY <2>1 DEF coverageLoop
  <2>. HIDE DEF frame, marked, sum
  <2>6. ShapesKept(s, frame.s)
    <3>1. marked.batches = s.batches /\ marked.batchCount = s.batchCount /\ marked.demands = s.demands /\ marked.insureds = s.insureds
      BY <2>4 DEF OnlyMarked, SameHeads
    <3>2. ShapesKept(s, marked)
      BY <1>2, <3>1, HeadsKeepShapes
    <3>. QED
      BY <1>2, <2>3, <3>2
  <2>7. SameShape(frame.b, BatchAt(s, frame.part.batchNo))
    BY <2>3 DEF SameShape
  <2>8. ShapesGood(frame, L, s, sum)
    BY <2>2, <2>6, <2>7 DEF ShapesGood
  <2>9. ShapesGood(f, L, s, sum)
    BY <2>5, <2>8, ShapesLoopKeeps
  <2>10. /\ ShapesKept(s, f.s) /\ SameShape(f.b, BatchAt(s, f.part.batchNo))
         /\ IsStore(f.s) /\ f.part.batchNo \in Nat
    <3>1. /\ ShapesKept(s, f.s) /\ SameShape(f.b, BatchAt(s, f.part.batchNo)) /\ CoverageStore(f, L, s)
      BY <2>1, <2>9 DEF ShapesGood, CoverageGood, CoverageKept
    <3>2. f.part.batchNo \in Nat
      BY <3>1, LinksAreNumbers DEF CoverageStore
    <3>. QED
      BY <3>1, <3>2 DEF CoverageStore
  <2>. DEFINE stored == IF f.batchUpdated THEN PutBatch(f.s, f.part.batchNo, f.b) ELSE f.s
  <2>11. ShapesKept(s, stored) /\ IsStore(stored)
    <3>1. ShapesKept(s, PutBatch(f.s, f.part.batchNo, f.b)) /\ IsStore(PutBatch(f.s, f.part.batchNo, f.b))
      BY <2>10, PutKeepsShapes, PutBatchStores
    <3>. QED
      BY <2>10, <3>1
  <2>12. r.s = [stored EXCEPT !.partial = f.part, !.poolPremium = f.premium, !.firstOpenBatchNo = f.openBatchNo]
    BY <2>1 DEF coverageStored
  <2>. HIDE DEF stored
  <2>13. r.s.batches = stored.batches /\ r.s.batchCount = stored.batchCount
         /\ r.s.demands = stored.demands /\ r.s.insureds = stored.insureds
    BY <2>11, <2>12 DEF IsStore, StoreFields
  <2>. QED
    BY <2>11, <2>13, HeadsKeepShapes
<1>. QED
  BY <1>3, <1>4, <1>5

-----------------------------------------------------------------------------
(* The logs under every step while nothing is cancelled.                   *)

(* The inductive invariant: the list of batches, and the logs beside it. *)
LogsInv == RoundsInv /\ LogsOK(Storage)

\* What the logs say depends on the batches, the logs and the demand of the insureds.
LEMMA SameLogs ==
    ASSUME NEW s, NEW t, LogsOK(s), t.batches = s.batches, t.batchCount = s.batchCount,
           t.demands = s.demands, t.insureds = s.insureds
    PROVE  LogsOK(t)
<1>1. ShapesKept(s, s)
  BY DEF ShapesKept, SameShape
<1>2. ShapesKept(s, t)
  BY <1>1, HeadsKeepShapes
<1>. QED
  BY <1>2, KeptShapesKeepLogs

\* Commit gives the variables the batches, the logs and the demand of the record.
LEMMA CommittedLogs ==
    ASSUME NEW t, Commit(t), LogsOK(t)
    PROVE  LogsOK(Storage')
<1>1. /\ (Storage').batches = t.batches /\ (Storage').batchCount = t.batchCount
      /\ (Storage').demands = t.demands /\ (Storage').insureds = t.insureds
  BY DEF Commit, Storage
<1>. QED
  BY <1>1, SameLogs

\* Before the first call there is neither a batch nor a slot.
LEMMA LogsInit == Init => LogsInv
<1> SUFFICES ASSUME Init PROVE LogsInv
  OBVIOUS
<1>. DEFINE s == Storage
            pos == [k \in {} |-> 0]
<1>1. /\ s.batchCount = 0 /\ s.demands = [i \in Insureds |-> <<>>]
      /\ \A i \in Insureds : s.insureds[i].demandedUnits = 0
  BY DEF Init, Storage
<1>2. DOMAIN pos = {} /\ pos \in [{} -> Nat]
  OBVIOUS
<1>. HIDE DEF s, pos
<1>3. Placed(s, pos)
  BY <1>1, <1>2 DEF Placed
<1>4. /\ s.demands \in [Insureds -> Seq(Slots)]
      /\ \A i \in Insureds : s.demands[i] = <<>> /\ DOMAIN s.demands[i] = {} /\ s.demands[i] \in Seq(Slots)
  <2>1. <<>> \in Seq(Slots) /\ DOMAIN <<>> = {}
    OBVIOUS
  <2>. QED
    BY <1>1, <2>1
<1>5. LogsPlaced(pos, s.demands) /\ Asked(s, pos, s.demands)
  BY <1>2, <1>4 DEF LogsPlaced, LogPlaced, Asked
<1>6. \A i \in Insureds : LogUnits(s.demands[i]) = 0
  <2>. TAKE i \in Insureds
  <2>. DEFINE D == DOMAIN s.demands[i]
              u == [k \in D |-> UnitsIn(s.demands[i][k])]
  <2>1. D = {}
    BY <1>4
  <2>2. LogUnits(s.demands[i]) = SumFunctionOnSet(u, D)
    BY DEF LogUnits
  <2>. HIDE DEF D, u
  <2>. QED
    BY <2>1, <2>2, SumEmpty
<1>7. LogsOK(s)
  BY <1>1, <1>3, <1>5, <1>6 DEF LogsOK, DescribedAs, Described
<1>. QED
  BY <1>7, RoundsInit DEF LogsInv, s

\* addCoverageDemand keeps the logs and the batches together.
LEMMA DemandKeptInLogs ==
    ASSUME LogsInv, NEW insured \in Insureds, addCoverageDemand(insured)
    PROVE  LogsOK(Storage')
<1>1. PICK L : EngineStore(Storage, L)
  BY DEF LogsInv, RoundsInv
<1>2. PICK units \in UnitCounts, rate \in Rates, more \in HasMore, limit \in LoopLimits :
         \E r \in {internalAddCoverageDemand(Storage, insured, units, rate, more, limit)} :
            ~r.panic /\ Commit(r.s)
  BY DEF addCoverageDemand
<1>. DEFINE s == Storage
            r == internalAddCoverageDemand(s, insured, units, rate, more, limit)
<1>3. ~r.panic /\ Commit(r.s)
  BY <1>2
<1>4. units \in Nat /\ limit \in Nat /\ rate \in Nat
  BY RoundsAssumption
<1>5. EngineStore(s, L) /\ LogsOK(s)
  BY <1>1 DEF LogsInv
<1>. HIDE DEF s
<1>6. LogsOK(r.s)
  <2>. HIDE DEF r
  <2>1. r = internalAddCoverageDemand(s, insured, units, rate, more, limit)
    BY DEF r
  <2>. QED
    BY <1>3, <1>4, <1>5, <2>1, AddDemandLogs
<1>. HIDE DEF r
<1>. QED
  BY <1>3, <1>6, CommittedLogs

\* addCoverage leaves the logs alone, and what the batches ask for.
LEMMA CoverageKeptInLogs ==
    ASSUME LogsInv, addCoverage
    PROVE  LogsOK(Storage')
<1>1. PICK L : EngineStore(Storage, L)
  BY DEF LogsInv, RoundsInv
<1>2. PICK amount \in Amounts, limit \in CoverageLoopLimits :
         \E r \in {internalAddCoverage(Storage, amount, limit)} : ~r.panic /\ Commit(r.s)
  BY DEF addCoverage
<1>. DEFINE s == Storage
            r == internalAddCoverage(s, amount, limit)
<1>3. ~r.panic /\ Commit(r.s)
  BY <1>2
<1>4. amount \in Nat /\ limit \in Nat
  BY RoundsAssumption
<1>5. EngineStore(s, L) /\ LogsOK(s)
  BY <1>1 DEF LogsInv
<1>. HIDE DEF s
<1>6. ShapesKept(s, r.s)
  <2>. HIDE DEF r
  <2>1. r = internalAddCoverage(s, amount, limit)
    BY DEF r
  <2>. QED
    BY <1>3, <1>4, <1>5, <2>1, AddCoverageShapes
<1>. HIDE DEF r
<1>7. LogsOK(r.s)
  BY <1>5, <1>6, KeptShapesKeepLogs
<1>. QED
  BY <1>3, <1>7, CommittedLogs

\* pullDemandCandidate touches neither.
LEMMA PullKeptInLogs ==
    ASSUME LogsInv, pullDemandCandidate
    PROVE  LogsOK(Storage')
<1>1. PICK limit \in LoopLimits, peek \in BOOLEAN :
         Commit(internalPullDemandCandidate(Storage, limit, peek).s)
  BY DEF pullDemandCandidate
<1>. DEFINE t == internalPullDemandCandidate(Storage, limit, peek).s
<1>2. OnlyPullable(Storage, t)
  BY RoundsAssumption, StorageIsStore, PullKeeps
<1>3. Commit(t)
  BY <1>1
<1>. HIDE DEF t
<1>4. /\ t.batches = Storage.batches /\ t.batchCount = Storage.batchCount
      /\ t.demands = Storage.demands /\ t.insureds = Storage.insureds
  BY <1>2 DEF OnlyPullable, StoreFields
<1>5. LogsOK(t)
  BY <1>4, SameLogs DEF LogsInv
<1>. QED
  BY <1>3, <1>5, CommittedLogs

\* Nor do the steps that collect coverage or let time pass.
LEMMA OthersKeptInLogs ==
    ASSUME LogsInv,
           (\E i \in Insureds : receiveDemandedCoverage(i)) \/ Tick \/ UNCHANGED vars
    PROVE  LogsOK(Storage')
<1>1. UNCHANGED <<insureds, demands, batches, batchCount>>
  BY DEF receiveDemandedCoverage, Tick, vars, storageVars
<1>2. /\ (Storage').batches = Storage.batches /\ (Storage').batchCount = Storage.batchCount
      /\ (Storage').demands = Storage.demands /\ (Storage').insureds = Storage.insureds
  BY <1>1 DEF Storage
<1>. QED
  BY <1>2, SameLogs DEF LogsInv

\* The invariant is inductive under Allocation.
LEMMA LogsKept == LogsInv /\ [Allocation]_vars => LogsInv'
<1> SUFFICES ASSUME LogsInv, [Allocation]_vars PROVE LogsInv'
  OBVIOUS
<1>1. RoundsInv'
  BY AllocationKept DEF LogsInv, StepKept
<1>2. LogsOK(Storage')
  BY DemandKeptInLogs, CoverageKeptInLogs, PullKeptInLogs, OthersKeptInLogs DEF Allocation
<1>. QED
  BY <1>1, <1>2 DEF LogsInv

-----------------------------------------------------------------------------
(* The batches that one reads for a slot from the storage.                 *)

SpanStart(d) == [in |-> {}, n |-> d.startBatchNo, left |-> d.rounds]

\* SlotSpan is the last frame of its loop.
LEMMA SpanLoopRuns ==
    ASSUME NEW d, batchCount \in Nat
    PROVE  \E it : /\ LoopFrames("span", it, SpanStart(d), batchCount + 1)
                   /\ SlotSpan(d) = it[batchCount + 1]
<1>. DEFINE m == batchCount + 1
            frame == [in |-> {}, n |-> d.startBatchNo, left |-> d.rounds]
            it == CHOOSE after : after = [k \in 0..m |-> IF k = 0 THEN frame ELSE spanStep(after[k - 1])]
<1>1. m \in Nat
  OBVIOUS
<1>2. SlotSpan(d) = Iterate(spanStep, frame, m)
  BY DEF SlotSpan
<1>3. Iterate(spanStep, frame, m) = it[m]
  BY DEF Iterate
<1>. HIDE DEF m, frame
<1>4. \E after : after = [k \in 0..m |-> IF k = 0 THEN frame ELSE spanStep(after[k - 1])]
  <2>1. PICK after : LoopFrames("span", after, frame, m)
    BY <1>1, FramesExist
  <2>2. \A f : LoopStep("span", f) = spanStep(f)
    BY DEF LoopStep
  <2>3. after = [k \in 0..m |-> IF k = 0 THEN frame ELSE spanStep(after[k - 1])]
    BY <2>1, <2>2 DEF LoopFrames
  <2>. QED
    BY <2>3
<1>5. it = [k \in 0..m |-> IF k = 0 THEN frame ELSE spanStep(it[k - 1])]
  BY <1>4
<1>6. SlotSpan(d) = it[m]
  BY <1>2, <1>3
<1>. HIDE DEF it
<1>7. LoopFrames("span", it, frame, m)
  BY <1>5 DEF LoopFrames, LoopStep
<1>8. LoopFrames("span", it, SpanStart(d), batchCount + 1) /\ SlotSpan(d) = it[batchCount + 1]
  BY <1>6, <1>7 DEF m, frame, SpanStart
<1>. QED
  BY <1>8

(* The batches that have a place from the one of the slot d to the place p. *)
Between(pos, d, p) == {m \in DOMAIN pos : pos[d.startBatchNo] <= pos[m] /\ pos[m] < p}

(* The frame f after k batches of the slot d were read. *)
SpanRead(f, k, pos, d) ==
    LET p == pos[d.startBatchNo] + d.rounds - f.left
    IN  /\ f.left \in Nat /\ f.left <= d.rounds
        /\ f.in = Between(pos, d, p) /\ IsFiniteSet(f.in)
        /\ f.left > 0 => f.n \in DOMAIN pos /\ pos[f.n] = p /\ Cardinality(f.in) = k

\* One turn: the next batch of the slot is read, and it ends within the slot.
LEMMA SpanStepReads ==
    ASSUME NEW pos, Placed(Storage, pos), NEW d \in Slots, SlotPlaced(pos, d),
           NEW k \in Nat, NEW f, SpanRead(f, k, pos, d)
    PROVE  SpanRead(spanStep(f), k + 1, pos, d)
<1>. DEFINE start == pos[d.startBatchNo]
            p == start + d.rounds - f.left
            g == spanStep(f)
            n == f.n
            R == RoundsAt(Storage, n)
            next == NextOf(Storage, n)
            left == f.left
            in == f.in
<1>1. /\ left \in Nat /\ left <= d.rounds /\ in = Between(pos, d, p) /\ IsFiniteSet(in)
      /\ left > 0 => n \in DOMAIN pos /\ pos[n] = p /\ Cardinality(in) = k
  BY DEF SpanRead
<1>2. d.rounds \in Nat
  BY DEF Slots
<1>3. CASE left = 0
  <2>1. g = f
    BY <1>3 DEF spanStep
  <2>. QED
    BY <1>3, <2>1 DEF SpanRead
<1>4. CASE left # 0
  <2>1. ~(left <= 0) /\ left > 0
    BY <1>1, <1>4
  <2>2. g = [in |-> in \union {n}, n |-> next, left |-> left - R]
    BY <2>1 DEF spanStep, NextOf, RoundsAt
  <2>3. /\ n \in DOMAIN pos /\ pos[n] = p /\ Cardinality(in) = k
    BY <1>1, <2>1
  <2>4. PICK e \in DOMAIN pos : pos[e] = start + d.rounds
    BY DEF SlotPlaced
  <2>5. /\ d.startBatchNo \in DOMAIN pos /\ start \in Nat /\ pos[e] \in Nat /\ R \in Nat
        /\ \A m \in DOMAIN pos : pos[m] \in Nat
    <3>1. d.startBatchNo \in DOMAIN pos
      BY DEF SlotPlaced
    <3>2. \A m \in DOMAIN pos : pos[m] \in Nat /\ RoundsAt(Storage, m) \in Nat
      BY PlaceNumbers
    <3>. QED
      BY <2>3, <3>1, <3>2
  <2>0. p = start + d.rounds - left
    OBVIOUS
  <2>. HIDE DEF start, R, next, left, in, n, g, p
  <2>6. pos[n] = pos[e] - left /\ pos[n] < pos[e]
    BY <1>1, <1>2, <2>0, <2>1, <2>3, <2>4, <2>5
  <2>7. R > 0 /\ pos[n] + R <= pos[e]
    <3>1. n # e
      BY <2>5, <2>6
    <3>2. Apart(Storage, pos, n, e)
      BY <2>3, <3>1, PlaceNumbers
    <3>. QED
      BY <2>3, <2>5, <2>6, <3>2 DEF Apart, R
  <2>8. next \in DOMAIN pos /\ pos[next] = pos[n] + R
    <3>1. PlacedBatch(Storage, pos, n)
      BY <2>3, PlaceNumbers
    <3>. QED
      BY <2>5, <2>7, <3>1 DEF PlacedBatch, R, next
  <2>9. left - R \in Nat /\ left - R <= d.rounds /\ start + d.rounds - (left - R) = pos[n] + R
    BY <2>0, <1>1, <1>2, <2>3, <2>4, <2>5, <2>6, <2>7
  <2>. DEFINE more == in \union {n}
  <2>10. more = Between(pos, d, pos[n] + R)
    <3>1. in = {m \in DOMAIN pos : start <= pos[m] /\ pos[m] < pos[n]}
      BY <1>1, <2>3 DEF Between, start
    <3>2. start <= pos[n]
      BY <1>1, <1>2, <2>0, <2>3, <2>5
    <3>3. \A m \in DOMAIN pos : pos[n] <= pos[m] /\ pos[m] < pos[n] + R => m = n
      BY <2>3, OneBatchWithin DEF R
    <3>4. \A m \in DOMAIN pos : (pos[m] < pos[n] + R) <=> (pos[m] < pos[n] \/ m = n)
      <4> SUFFICES ASSUME NEW m \in DOMAIN pos PROVE (pos[m] < pos[n] + R) <=> (pos[m] < pos[n] \/ m = n)
        OBVIOUS
      <4>1. pos[m] \in Nat /\ pos[n] \in Nat
        BY <2>3, <2>5
      <4>2. pos[n] <= pos[m] /\ pos[m] < pos[n] + R => m = n
        BY <3>3
      <4>. QED
        BY <2>5, <2>7, <4>1, <4>2
    <3>. QED
      BY <2>3, <3>1, <3>2, <3>4 DEF Between, start
  <2>11. IsFiniteSet(more) /\ Cardinality(more) = k + 1
    <3>1. n \notin in
      <4>1. n \in in => pos[n] < p
        BY <1>1 DEF Between
      <4>. QED
        BY <2>3, <2>5, <4>1
    <3>. QED
      BY <1>1, <2>3, <3>1, FS_AddElement
  <2>. HIDE DEF more
  <2>12. g.in = more /\ g.n = next /\ g.left = left - R
    BY <2>2 DEF more
  <2>13. SpanRead(g, k + 1, pos, d)
    BY <2>8, <2>9, <2>10, <2>11, <2>12 DEF SpanRead, start
  <2>. QED
    BY <2>13 DEF g
<1>. QED
  BY <1>3, <1>4

\* A slot is read to its end, which is the end of a batch, and it has its rounds in
\* the batches that it covers.
LEMMA SpanOfSlot ==
    ASSUME NEW pos, Placed(Storage, pos), NEW d \in Slots, SlotPlaced(pos, d)
    PROVE  SlotSpan(d).left = 0 /\ \A n \in DOMAIN pos : n \in SlotSpan(d).in <=> Covers(pos, d, n)
<1>. DEFINE m == batchCount + 1
            frame == SpanStart(d)
            start == pos[d.startBatchNo]
<1>1. batchCount \in Nat /\ DOMAIN pos \subseteq 1..batchCount /\ m \in Nat
  BY DEF Placed, Storage
<1>2. PICK it : LoopFrames("span", it, frame, m) /\ SlotSpan(d) = it[m]
  BY <1>1, SpanLoopRuns
<1>3. \A k \in 0..m : it[k] = IF k = 0 THEN frame ELSE spanStep(it[k - 1])
  BY <1>2 DEF LoopFrames, LoopStep
<1>4. d.startBatchNo \in DOMAIN pos /\ start \in Nat /\ d.rounds \in Nat /\ \A n \in DOMAIN pos : pos[n] \in Nat
  BY PlaceNumbers DEF SlotPlaced, Slots
<1>5. SpanRead(frame, 0, pos, d)
  <2>1. frame.in = {} /\ frame.n = d.startBatchNo /\ frame.left = d.rounds
    BY DEF SpanStart
  <2>. HIDE DEF start, frame
  <2>2. start + d.rounds - d.rounds = start
    BY <1>4
  <2>3. Between(pos, d, start) = {}
    BY <1>4 DEF Between, start
  <2>4. IsFiniteSet({}) /\ Cardinality({}) = 0
    BY FS_EmptySet
  <2>. QED
    BY <1>4, <2>1, <2>2, <2>3, <2>4 DEF SpanRead, start
<1>. HIDE DEF frame, m
<1>. DEFINE G == {k \in 0..m : SpanRead(it[k], k, pos, d)}
<1>6. 0 \in G
  BY <1>1, <1>3, <1>5
<1>7. ASSUME NEW k \in 0..(m - 1), k \in G PROVE k + 1 \in G
  <2>1. k \in Nat /\ k + 1 \in 0..m /\ k + 1 # 0 /\ (k + 1) - 1 = k /\ SpanRead(it[k], k, pos, d)
    BY <1>1, <1>7
  <2>2. it[k + 1] = spanStep(it[k])
    BY <1>3, <2>1
  <2>3. SpanRead(it[k + 1], k + 1, pos, d)
    BY <2>1, <2>2, SpanStepReads
  <2>. QED
    BY <2>1, <2>3
<1>8. SpanRead(it[m], m, pos, d)
  <2>. HIDE DEF G
  <2>1. 0..m \subseteq G
    BY <1>1, <1>6, <1>7, UpToInduction
  <2>2. m \in G
    BY <1>1, <2>1
  <2>. QED
    BY <2>2 DEF G
<1>. DEFINE f == SlotSpan(d)
            p == start + d.rounds - f.left
<1>9. /\ f.left \in Nat /\ f.in = Between(pos, d, p)
      /\ f.left > 0 => Cardinality(f.in) = m
  BY <1>2, <1>8 DEF SpanRead
<1>. HIDE DEF f
<1>10. f.left = 0
  <2>1. f.in \subseteq 1..batchCount
    BY <1>1, <1>9 DEF Between
  <2>2. Cardinality(f.in) <= batchCount /\ Cardinality(f.in) \in Nat
    <3>1. IsFiniteSet(1..batchCount) /\ Cardinality(1..batchCount) = batchCount
      BY <1>1, FS_Interval
    <3>. QED
      BY <2>1, <3>1, FS_Subset, FS_CardinalityType
  <2>3. Cardinality(f.in) # m
    BY <1>1, <2>2 DEF m
  <2>. QED
    BY <1>9, <2>3
<1>11. p = start + d.rounds
  BY <1>4, <1>10
<1>12. \A n \in DOMAIN pos : n \in f.in <=> Covers(pos, d, n)
  BY <1>9, <1>11 DEF Between, Covers
<1>. QED
  BY <1>10, <1>12 DEF f

-----------------------------------------------------------------------------
(* What one reads from the storage agrees with the places.                 *)

\* The batches from the partial one on are batches of the list.
LEMMA OpenAreLive ==
    ASSUME NEW L, EngineStore(Storage, L)
    PROVE  \A k \in DOMAIN OpenChain : OpenChain[k] \in L
<1>1. /\ Storage.batchCount = batchCount /\ Storage.partial = partial /\ Linked(Storage, L) /\ batchCount \in Nat
  BY DEF Storage, EngineStore, Linked
<1>2. CASE batchCount = 0
  <2>. DEFINE m == batchCount + 1
              frame == [seq |-> <<>>, n |-> 0]
  <2>1. partial.batchNo = 0
    <3>1. L \subseteq 1..batchCount /\ 1..0 = {}
      BY <1>1 DEF Linked
    <3>2. L = {}
      BY <1>2, <3>1
    <3>. QED
      BY <1>1, <3>2 DEF EngineStore, PartialPlaced
  <2>2. PICK it : LoopFrames("chain", it, frame, m) /\ ChainFrom(0) = it[m].seq
    BY <1>1, ChainLoopRuns
  <2>3. \A k \in 0..m : it[k] = IF k = 0 THEN frame ELSE chainStep(it[k - 1])
    BY <2>2 DEF LoopFrames, LoopStep
  <2>4. m = 1 /\ 0 \in 0..m /\ 1 \in 0..m /\ 1 - 1 = 0
    BY <1>2
  <2>. HIDE DEF m
  <2>5. it[0] = frame /\ it[m] = chainStep(it[0])
    BY <2>3, <2>4
  <2>6. chainStep(frame) = frame
    BY DEF chainStep
  <2>7. OpenChain = <<>>
    BY <2>1, <2>2, <2>5, <2>6 DEF OpenChain
  <2>. QED
    BY <2>7
<1>3. CASE batchCount # 0
  <2>. DEFINE q == Chain
              len == Len(q)
              rest == OpenChain
  <2>1. IsList(Storage, q, L)
    BY <1>1, <1>3, ChainIsList
  <2>. HIDE DEF q
  <2>2. q \in Seq(L) /\ len \in Nat /\ DOMAIN q = 1..len /\ (\A i \in 1..len : q[i] \in L) /\ Range(q) = L
    <3>1. q \in Seq(L) /\ Range(q) = L
      BY <2>1 DEF IsList, IsRun
    <3>. QED
      BY <3>1, LenProperties, ElementOfSeq
  <2>3. partial.batchNo \in L
    BY <1>1, <1>3 DEF EngineStore, PartialPlaced
  <2>4. PICK j \in 1..len : q[j] = partial.batchNo
    BY <2>2, <2>3 DEF Range
  <2>5. rest = SubSeq(q, j, len)
    <3>1. rest = ChainFrom(q[j])
      BY <2>4 DEF OpenChain
    <3>. QED
      BY <1>1, <2>1, <3>1, RestOfList
  <2>. HIDE DEF rest
  <2>6. rest \in Seq(L)
    <3>1. j \in Int /\ len \in Int /\ j <= len /\ \A i \in j..len : q[i] \in L
      BY <2>2
    <3>2. SubSeq(q, j, len) \in Seq(L)
      BY <3>1, SubSeqProperties
    <3>. QED
      BY <2>5, <3>2
  <2>7. \A k \in DOMAIN rest : rest[k] \in L
    BY <2>6, LenProperties, ElementOfSeq
  <2>. QED
    BY <2>7 DEF rest
<1>. QED
  BY <1>2, <1>3

(* The sums over the logs, as one reads them with SlotSpan. *)
ReadWeight(kind, d, n) == IF n \in SlotSpan(d).in THEN Weight(kind, d) ELSE 0
ReadLog(kind, log, n) == SumFunctionOnSet([k \in DOMAIN log |-> ReadWeight(kind, log[k], n)], DOMAIN log)
ReadLogs(kind, n) == SumFunctionOnSet([i \in Insureds |-> ReadLog(kind, demands[i], n)], Insureds)

\* They are those that the slots put into the places.
LEMMA ReadIsWeight ==
    ASSUME NEW pos, Placed(Storage, pos), LogsPlaced(pos, demands), NEW n \in DOMAIN pos, NEW kind \in Kinds
    PROVE  ReadLogs(kind, n) = AllWeight(kind, pos, demands, n)
<1>1. \A i \in Insureds : \A k \in DOMAIN demands[i] :
         ReadWeight(kind, demands[i][k], n) = SlotWeight(kind, pos, demands[i][k], n)
  <2> SUFFICES ASSUME NEW i \in Insureds, NEW k \in DOMAIN demands[i]
               PROVE  ReadWeight(kind, demands[i][k], n) = SlotWeight(kind, pos, demands[i][k], n)
    OBVIOUS
  <2>. DEFINE d == demands[i][k]
  <2>1. d \in Slots /\ SlotPlaced(pos, d)
    BY DEF LogsPlaced, LogPlaced
  <2>. HIDE DEF d
  <2>2. n \in SlotSpan(d).in <=> Covers(pos, d, n)
    BY <2>1, SpanOfSlot
  <2>3. ReadWeight(kind, d, n) = SlotWeight(kind, pos, d, n)
    BY <2>2 DEF ReadWeight, SlotWeight
  <2>. QED
    BY <2>3 DEF d
<1>2. \A i \in Insureds : ReadLog(kind, demands[i], n) = LogWeight(kind, pos, demands[i], n)
  <2>. TAKE i \in Insureds
  <2>. DEFINE log == demands[i]
              f == [k \in DOMAIN log |-> ReadWeight(kind, log[k], n)]
              g == [k \in DOMAIN log |-> SlotWeight(kind, pos, log[k], n)]
  <2>1. f = g
    BY <1>1
  <2>2. ReadLog(kind, log, n) = SumFunctionOnSet(f, DOMAIN log)
    BY DEF ReadLog
  <2>3. LogWeight(kind, pos, log, n) = SumFunctionOnSet(g, DOMAIN log)
    BY DEF LogWeight
  <2>. HIDE DEF f, g
  <2>. QED
    BY <2>1, <2>2, <2>3
<1>. DEFINE f == [i \in Insureds |-> ReadLog(kind, demands[i], n)]
            g == [i \in Insureds |-> LogWeight(kind, pos, demands[i], n)]
<1>3. f = g
  BY <1>2
<1>4. ReadLogs(kind, n) = SumFunctionOnSet(f, Insureds)
  BY DEF ReadLogs
<1>5. AllWeight(kind, pos, demands, n) = SumFunctionOnSet(g, Insureds)
  BY DEF AllWeight
<1>. HIDE DEF f, g
<1>. QED
  BY <1>3, <1>4, <1>5

\* SumOfDemandIn adds up the units, or the rates, that one reads.
LEMMA SumsAreRead ==
    ASSUME NEW n
    PROVE  /\ SumOfDemandIn(LAMBDA d : d.unitPerRound, n) = ReadLogs("units", n)
           /\ SumOfDemandIn(LAMBDA d : d.unitPerRound * d.premiumRate, n) = ReadLogs("rate", n)
<1>1. \A d : Weight("units", d) = d.unitPerRound /\ Weight("rate", d) = d.unitPerRound * d.premiumRate
  BY DEF Weight
<1>. DEFINE units(log) == SumFunctionOnSet([k \in DOMAIN log |->
                              IF n \in SlotSpan(log[k]).in THEN log[k].unitPerRound ELSE 0], DOMAIN log)
            rates(log) == SumFunctionOnSet([k \in DOMAIN log |->
                              IF n \in SlotSpan(log[k]).in THEN log[k].unitPerRound * log[k].premiumRate ELSE 0], DOMAIN log)
            f == [i \in Insureds |-> units(demands[i])]
            g == [i \in Insureds |-> rates(demands[i])]
            fr == [i \in Insureds |-> ReadLog("units", demands[i], n)]
            gr == [i \in Insureds |-> ReadLog("rate", demands[i], n)]
<1>2. /\ SumOfDemandIn(LAMBDA d : d.unitPerRound, n) = SumFunctionOnSet(f, Insureds)
      /\ SumOfDemandIn(LAMBDA d : d.unitPerRound * d.premiumRate, n) = SumFunctionOnSet(g, Insureds)
  BY DEF SumOfDemandIn, SumOver, SumOfSlots
<1>3. \A log : units(log) = ReadLog("units", log, n)
  BY <1>1 DEF ReadLog, ReadWeight
<1>4. \A log : rates(log) = ReadLog("rate", log, n)
  BY <1>1 DEF ReadLog, ReadWeight
<1>5. f = fr /\ g = gr
  BY <1>3, <1>4
<1>6. ReadLogs("units", n) = SumFunctionOnSet(fr, Insureds) /\ ReadLogs("rate", n) = SumFunctionOnSet(gr, Insureds)
  BY DEF ReadLogs
<1>. HIDE DEF f, g, fr, gr
<1>. QED
  BY <1>2, <1>5, <1>6

\* The invariant is about the slots and batches that one reads from the storage.
LEMMA LogsInvMatched == LogsInv => LogsMatchBatches
<1> SUFFICES ASSUME LogsInv PROVE LogsMatchBatches
  OBVIOUS
<1>1. PICK L : EngineStore(Storage, L)
  BY DEF LogsInv, RoundsInv
<1>2. Storage.demands = demands
  BY DEF Storage
<1>3. PICK pos : Described(Storage, pos, demands)
  BY <1>2 DEF LogsInv, LogsOK, DescribedAs
<1>4. Placed(Storage, pos) /\ LogsPlaced(pos, demands) /\ Asked(Storage, pos, demands) /\ Linked(Storage, L)
  BY <1>1, <1>3 DEF Described, EngineStore
<1>5. \A i \in Insureds : \A k \in DOMAIN demands[i] : SlotSpan(demands[i][k]).left = 0
  <2> SUFFICES ASSUME NEW i \in Insureds, NEW k \in DOMAIN demands[i]
               PROVE  SlotSpan(demands[i][k]).left = 0
    OBVIOUS
  <2>1. demands[i][k] \in Slots /\ SlotPlaced(pos, demands[i][k])
    BY <1>4 DEF LogsPlaced, LogPlaced
  <2>. QED
    BY <1>4, <2>1, SpanOfSlot
<1>6. ASSUME NEW k \in DOMAIN OpenChain
      PROVE  LET n == OpenChain[k]
                 b == BatchAt(Storage, n)
             IN  /\ b.unitPerRound = SumOfDemandIn(LAMBDA d : d.unitPerRound, n)
                 /\ b.roundPremiumRateSum = SumOfDemandIn(LAMBDA d : d.unitPerRound * d.premiumRate, n)
  <2>. DEFINE n == OpenChain[k]
              b == BatchAt(Storage, n)
  <2>1. n \in DOMAIN pos
    BY <1>1, <1>4, <1>6, OpenAreLive, LiveArePlaced
  <2>. HIDE DEF n
  <2>2. /\ HeldBy("units", b) = AllWeight("units", pos, demands, n)
        /\ HeldBy("rate", b) = AllWeight("rate", pos, demands, n)
    BY <1>4, <2>1 DEF Asked, Kinds
  <2>3. /\ ReadLogs("units", n) = AllWeight("units", pos, demands, n)
        /\ ReadLogs("rate", n) = AllWeight("rate", pos, demands, n)
    BY <1>4, <2>1, ReadIsWeight DEF Kinds
  <2>4. HeldBy("units", b) = b.unitPerRound /\ HeldBy("rate", b) = b.roundPremiumRateSum
    BY DEF HeldBy
  <2>5. /\ b.unitPerRound = SumOfDemandIn(LAMBDA d : d.unitPerRound, n)
        /\ b.roundPremiumRateSum = SumOfDemandIn(LAMBDA d : d.unitPerRound * d.premiumRate, n)
    BY <2>2, <2>3, <2>4, SumsAreRead
  <2>. QED
    BY <2>5 DEF n
<1>. QED
  BY <1>5, <1>6 DEF LogsMatchBatches

\* ... and the demand of an insured is the demand of its log.
LEMMA LogsInvRecorded == LogsInv => DemandMatchesLog
<1> SUFFICES ASSUME LogsInv PROVE DemandMatchesLog
  OBVIOUS
<1>1. \A i \in Insureds : insureds[i].demandedUnits = LogUnits(demands[i])
  BY DEF LogsInv, LogsOK, Storage
<1>2. \A i \in Insureds : LogUnits(demands[i]) = SumOfSlots(LAMBDA d : d.rounds * d.unitPerRound, demands[i])
  BY DEF LogUnits, UnitsIn, SumOfSlots, SumOver
<1>. QED
  BY <1>1, <1>2, LogsInvMatched DEF DemandMatchesLog

-----------------------------------------------------------------------------
(* Theorems.                                                               *)

\* While nothing is cancelled, a set of batches is the list after every call:
\* each batch of it is reached from the first one, the partial batch is where the
\* full ones end, and the partial round is in its batch.
THEOREM EngineInvariant == AllocationSpec => []RoundsInv
<1>1. RoundsInv /\ [Allocation]_vars => RoundsInv'
  BY AllocationKept DEF StepKept
<1>. QED
  BY <1>1, RoundsInit, PTL DEF AllocationSpec

\* While nothing is cancelled, the batches that findBatchToAppend, splitBatch and
\* appendRounds create and the batches that internalAddCoverage closes always make
\* one list without cycles: full batches, the partial one, open ones, an empty one.
THEOREM ListStaysWellFormed == AllocationSpec => []ListWellFormed
  BY EngineInvariant, RoundsInvListed, PTL

\* While nothing is cancelled, no call changes a full batch.
THEOREM FullBatchesStay == AllocationSpec => FullBatchesFrozen
<1>1. RoundsInv /\ [Allocation]_vars =>
         [\A n \in 1..batchCount : isFull(BatchAt(Storage, n)) => BatchAt(Storage', n) = BatchAt(Storage, n)]_vars
  <2> SUFFICES ASSUME RoundsInv, [Allocation]_vars, NEW n \in 1..batchCount, isFull(BatchAt(Storage, n))
               PROVE  BatchAt(Storage', n) = BatchAt(Storage, n)
    OBVIOUS
  <2>1. Frozen(Storage, Storage')
    BY AllocationKept DEF StepKept
  <2>2. batchCount \in Nat
    BY DEF RoundsInv, EngineStore, Linked, Storage
  <2>3. n \in Nat
    BY <2>2
  <2>. QED
    BY <2>1, <2>3 DEF Frozen, FullAt
<1>. QED
  BY <1>1, EngineInvariant, PTL DEF AllocationSpec, FullBatchesFrozen

\* While nothing is cancelled, all coverage that a call of internalAddCoverage takes
\* is in the rounds it leaves, over all turns of its loop and under any loop limit.
THEOREM CoverageIsAllPlaced == AllocationSpec => CoverageAllPlaced
<1>1. RoundsInv /\ [Allocation]_vars =>
         [addCoverage => allocated' - allocated = CoverageCounted' - CoverageCounted]_vars
  BY AllocationKept
<1>. QED
  BY <1>1, EngineInvariant, PTL DEF AllocationSpec, CoverageAllPlaced

\* While nothing is cancelled, the logs and the batches are kept together.
THEOREM LogsInvariant == AllocationSpec => []LogsInv
  BY LogsInit, LogsKept, PTL DEF AllocationSpec

\* While nothing is cancelled, every slot of every demand log ends with a batch, and
\* the batches from the partial one on ask for what the logs of all insureds put there.
THEOREM LogsStayMatched == AllocationSpec => []LogsMatchBatches
  BY LogsInvariant, LogsInvMatched, PTL

\* While nothing is cancelled, the demand of an insured is what its log adds up to.
THEOREM DemandStaysRecorded == AllocationSpec => []DemandMatchesLog
  BY LogsInvariant, LogsInvRecorded, PTL
=============================================================================
