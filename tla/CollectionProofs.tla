-------------------------- MODULE CollectionProofs --------------------------
(***************************************************************************)
(* Proofs about what insureds collect from the engine, for any insureds,   *)
(* pool parameters, units and loop limits, while nothing is cancelled.  An *)
(* insured goes along its log of demand, through batches that are split,   *)
(* closed and filled between its calls: what it has collected stays right, *)
(* and it never loses coverage.  The last part shows that no call fails.   *)
(***************************************************************************)
EXTENDS WeightedRoundsProofs

-----------------------------------------------------------------------------
(* The walk of a collection through the full batches of a slot.            *)

(* A point of the walk: the next batch, and the rounds of the slot in front of it. *)
WalkStart(d) == [n |-> d.startBatchNo, got |-> 0]
WalkStops(s, d, w) == d.rounds <= w.got \/ ~FullAt(s, w.n)
WalkStep(s, d, w) ==
    IF WalkStops(s, d, w) THEN w ELSE [n |-> NextOf(s, w.n), got |-> w.got + RoundsAt(s, w.n)]

(* The walk from the beginning of the slot d comes to the point w. *)
Walked(s, d, w) ==
    \A S : WalkStart(d) \in S /\ (\A x \in S : WalkStep(s, d, x) \in S) => w \in S

(* The points at the places of batches within the slot. *)
OnWalk(pos, d) ==
    {x \in [n : DOMAIN pos, got : 0..d.rounds] : pos[x.n] = pos[d.startBatchNo] + x.got}

\* The walk comes to its start, and from each point to the next one.
LEMMA WalkedOn ==
    ASSUME NEW s, NEW d
    PROVE  /\ Walked(s, d, WalkStart(d))
           /\ \A w : Walked(s, d, w) => Walked(s, d, WalkStep(s, d, w))
  BY DEF Walked

\* Within a slot every batch has rounds and leads to the place behind them.
LEMMA WalkMoves ==
    ASSUME NEW s, NEW pos, Placed(s, pos), NEW d \in Slots, SlotPlaced(pos, d),
           NEW x \in OnWalk(pos, d), x.got < d.rounds
    PROVE  /\ RoundsAt(s, x.n) \in Nat \ {0} /\ NextOf(s, x.n) \in DOMAIN pos
           /\ x.got + RoundsAt(s, x.n) <= d.rounds
           /\ [n |-> NextOf(s, x.n), got |-> x.got + RoundsAt(s, x.n)] \in OnWalk(pos, d)
<1>. DEFINE start == pos[d.startBatchNo]
            R == RoundsAt(s, x.n)
            next == NextOf(s, x.n)
            y == [n |-> next, got |-> x.got + R]
<1>1. x.n \in DOMAIN pos /\ x.got \in Nat /\ x.got \in Int /\ pos[x.n] = start + x.got
  BY DEF OnWalk, Slots
<1>2. d.rounds \in Nat
  BY DEF Slots
<1>3. PICK e \in DOMAIN pos : pos[e] = start + d.rounds
  BY DEF SlotPlaced
<1>4. d.startBatchNo \in DOMAIN pos
  BY DEF SlotPlaced
<1>5. start \in Nat /\ pos[x.n] \in Nat /\ R \in Nat /\ PlacedBatch(s, pos, x.n)
  BY <1>1, <1>4, PlaceNumbers
<1>. HIDE DEF start
<1>6. pos[x.n] < pos[e] /\ x.n # e
  BY <1>1, <1>2, <1>3, <1>5
<1>7. Apart(s, pos, x.n, e)
  BY <1>1, <1>3, <1>6, PlaceNumbers
<1>8. R > 0 /\ pos[x.n] + R <= pos[e]
  BY <1>3, <1>5, <1>6, <1>7, <1>2 DEF Apart
<1>9. next # 0
  BY <1>5, <1>8 DEF PlacedBatch
<1>10. next \in DOMAIN pos /\ pos[next] = pos[x.n] + R
  BY <1>5, <1>9 DEF PlacedBatch
<1>. HIDE DEF R, next
<1>11. x.got + R <= d.rounds /\ x.got + R \in 0..d.rounds /\ pos[next] = start + (x.got + R)
  BY <1>1, <1>2, <1>3, <1>5, <1>8, <1>10
<1>12. y \in [n : DOMAIN pos, got : 0..d.rounds]
  BY <1>10, <1>11
<1>13. y \in OnWalk(pos, d)
  BY <1>11, <1>12 DEF OnWalk, start
<1>. QED
  BY <1>5, <1>8, <1>10, <1>11, <1>13 DEF R, next

\* The walk does not leave the slot.
LEMMA WalkStays ==
    ASSUME NEW s, NEW pos, Placed(s, pos), NEW d \in Slots, SlotPlaced(pos, d)
    PROVE  /\ WalkStart(d) \in OnWalk(pos, d)
           /\ \A x \in OnWalk(pos, d) : WalkStep(s, d, x) \in OnWalk(pos, d)
           /\ \A w : Walked(s, d, w) => w \in OnWalk(pos, d)
<1>1. WalkStart(d) \in OnWalk(pos, d)
  <2>1. d.startBatchNo \in DOMAIN pos /\ pos[d.startBatchNo] \in Nat /\ d.rounds \in Nat
    BY PlaceNumbers DEF SlotPlaced, Slots
  <2>2. 0 \in 0..d.rounds /\ pos[d.startBatchNo] = pos[d.startBatchNo] + 0
    BY <2>1
  <2>. QED
    BY <2>1, <2>2 DEF OnWalk, WalkStart
<1>2. ASSUME NEW x \in OnWalk(pos, d) PROVE WalkStep(s, d, x) \in OnWalk(pos, d)
  <2>1. x.got \in Int /\ d.rounds \in Int
    BY DEF OnWalk, Slots
  <2>2. CASE WalkStops(s, d, x)
    BY <2>2 DEF WalkStep
  <2>3. CASE ~WalkStops(s, d, x)
    <3>1. x.got < d.rounds
      BY <2>1, <2>3 DEF WalkStops
    <3>. QED
      BY <2>3, <3>1, WalkMoves DEF WalkStep
  <2>. QED
    BY <2>2, <2>3
<1>. QED
  BY <1>1, <1>2 DEF Walked

\* The walk of a store comes to the same points when its full batches are kept.
LEMMA WalkedFrozen ==
    ASSUME NEW s, NEW pos, Placed(s, pos), NEW d \in Slots, SlotPlaced(pos, d),
           NEW t, Frozen(s, t), NEW w, Walked(s, d, w)
    PROVE  Walked(t, d, w)
<1> SUFFICES ASSUME NEW S, WalkStart(d) \in S, \A x \in S : WalkStep(t, d, x) \in S
             PROVE  w \in S
  BY DEF Walked
<1>. DEFINE T == {x \in OnWalk(pos, d) : x \in S}
<1>1. WalkStart(d) \in T
  BY WalkStays
<1>2. ASSUME NEW x \in T PROVE WalkStep(s, d, x) \in T
  <2>1. WalkStep(s, d, x) \in OnWalk(pos, d)
    BY <1>2, WalkStays
  <2>2. CASE WalkStops(s, d, x)
    BY <1>2, <2>2 DEF WalkStep
  <2>3. CASE ~WalkStops(s, d, x)
    <3>1. x.n \in Nat
      BY <1>2, PlaceNumbers DEF OnWalk
    <3>2. BatchAt(t, x.n) = BatchAt(s, x.n)
      BY <2>3, <3>1 DEF WalkStops, Frozen
    <3>3. WalkStep(t, d, x) = WalkStep(s, d, x)
      BY <3>2 DEF WalkStep, WalkStops, FullAt, NextOf, RoundsAt
    <3>. QED
      BY <1>2, <2>1, <3>3
  <2>. QED
    BY <2>2, <2>3
<1>3. w \in T
  <2>. HIDE DEF T
  <2>. QED
    BY <1>1, <1>2 DEF Walked
<1>. QED
  BY <1>3

\* No point of the walk is behind one where it stops.
LEMMA WalkOrder ==
    ASSUME NEW s, NEW pos, Placed(s, pos), NEW d \in Slots, SlotPlaced(pos, d),
           NEW w \in OnWalk(pos, d), WalkStops(s, d, w), NEW v, Walked(s, d, v)
    PROVE  v.got <= w.got /\ (v.got = w.got => v = w)
<1>. DEFINE T == {x \in OnWalk(pos, d) : x.got <= w.got}
<1>1. ASSUME NEW x \in OnWalk(pos, d)
      PROVE  /\ x.n \in DOMAIN pos /\ x.got \in Nat /\ pos[x.n] = pos[d.startBatchNo] + x.got
             /\ pos[x.n] \in Nat /\ RoundsAt(s, x.n) \in Nat /\ x = [n |-> x.n, got |-> x.got]
  BY <1>1, PlaceNumbers DEF OnWalk, Slots
<1>2. d.startBatchNo \in DOMAIN pos /\ pos[d.startBatchNo] \in Nat /\ d.rounds \in Nat
  BY PlaceNumbers DEF SlotPlaced, Slots
<1>3. ASSUME NEW x \in OnWalk(pos, d), x.got = w.got PROVE x = w
  <2>1. pos[x.n] = pos[w.n]
    BY <1>1, <1>3
  <2>2. x.n = w.n
    <3>1. x.n \in DOMAIN pos /\ w.n \in DOMAIN pos /\ pos[x.n] \in Nat /\ RoundsAt(s, x.n) \in Nat /\ RoundsAt(s, w.n) \in Nat
      BY <1>1
    <3>2. x.n # w.n => Apart(s, pos, x.n, w.n) /\ Apart(s, pos, w.n, x.n)
      BY <3>1, PlaceNumbers
    <3>. QED
      BY <2>1, <3>1, <3>2 DEF Apart
  <2>. QED
    BY <1>1, <1>3, <2>2
<1>4. WalkStart(d) \in T
  <2>1. WalkStart(d) \in OnWalk(pos, d) /\ WalkStart(d).got = 0 /\ w.got \in Nat
    BY <1>1, WalkStays DEF WalkStart
  <2>. QED
    BY <2>1
<1>5. ASSUME NEW x \in T PROVE WalkStep(s, d, x) \in T
  <2>1. WalkStep(s, d, x) \in OnWalk(pos, d) /\ x \in OnWalk(pos, d) /\ x.got <= w.got
    BY <1>5, WalkStays
  <2>2. CASE WalkStops(s, d, x)
    BY <1>5, <2>2 DEF WalkStep
  <2>3. CASE ~WalkStops(s, d, x)
    <3>1. x.got # w.got
      BY <1>3, <2>1, <2>3
    <3>. DEFINE R == RoundsAt(s, x.n)
    <3>2. x.n # w.n /\ pos[x.n] < pos[w.n]
      BY <1>1, <1>2, <2>1, <3>1
    <3>3. Apart(s, pos, x.n, w.n)
      BY <1>1, <2>1, <3>2, PlaceNumbers
    <3>4. R > 0 /\ pos[x.n] + R <= pos[w.n]
      BY <1>1, <2>1, <3>2, <3>3 DEF Apart
    <3>5. R \in Nat /\ x.got \in Nat /\ w.got \in Nat /\ pos[x.n] = pos[d.startBatchNo] + x.got /\ pos[w.n] = pos[d.startBatchNo] + w.got
      BY <1>1, <2>1
    <3>6. x.got + R <= w.got
      BY <1>2, <3>4, <3>5
    <3>7. WalkStep(s, d, x).got = x.got + R
      BY <2>3 DEF WalkStep
    <3>. QED
      BY <2>1, <3>6, <3>7
  <2>. QED
    BY <2>2, <2>3
<1>6. v \in T
  <2>. HIDE DEF T
  <2>. QED
    BY <1>4, <1>5 DEF Walked
<1>. QED
  BY <1>3, <1>6

-----------------------------------------------------------------------------
(* The loops of internalGetCoveredDemand.                                  *)

(* One slot: the turn of the outer loop. *)
collectTurn(s, log, c) ==
    IF c.done \/ c.covered.lastUpdateIndex >= Len(log) THEN [c EXCEPT !.done = TRUE]
    ELSE collectCoveredDemandSlot(s, log[c.covered.lastUpdateIndex + 1], c)
collectStart(s, insured) ==
    [covered |-> s.covered[insured], premium |-> s.premiums[insured],
     total |-> s.premiums[insured], pendingCovered |-> 0, done |-> FALSE, panic |-> FALSE]

CollectStep(loop, s, log, f) == IF loop = "batches" THEN collectBatch(f) ELSE collectTurn(s, log, f)
CollectFrames(loop, s, log, it, frame, n) ==
    it = [k \in 0..n |-> IF k = 0 THEN frame ELSE CollectStep(loop, s, log, it[k - 1])]

\* The frames of the loops make a function.
LEMMA CollectFramesExist ==
    ASSUME NEW n \in Nat, NEW frame, NEW loop, NEW s, NEW log
    PROVE  \E it : CollectFrames(loop, s, log, it, frame, n)
<1>. DEFINE G == {m \in 0..n : \E it : CollectFrames(loop, s, log, it, frame, m)}
<1>1. 0 \in G
  <2>1. CollectFrames(loop, s, log, [k \in 0..0 |-> frame], frame, 0)
    BY DEF CollectFrames
  <2>. QED
    BY <2>1
<1>2. ASSUME NEW m \in 0..(n - 1), m \in G PROVE m + 1 \in G
  <2>1. PICK it : CollectFrames(loop, s, log, it, frame, m)
    BY <1>2
  <2>. DEFINE more == [k \in 0..(m + 1) |-> IF k = 0 THEN frame ELSE CollectStep(loop, s, log, it[k - 1])]
  <2>2. /\ m \in Nat /\ m + 1 \in 0..n
        /\ \A k \in 0..(m + 1) : k # 0 => k - 1 \in 0..m /\ k - 1 \in 0..(m + 1)
        /\ \A k \in 0..m : k \in 0..(m + 1)
    BY <1>2
  <2>3. \A k \in 0..m : it[k] = IF k = 0 THEN frame ELSE CollectStep(loop, s, log, it[k - 1])
    BY <2>1 DEF CollectFrames
  <2>4. \A k \in 0..m : more[k] = it[k]
    BY <2>2, <2>3
  <2>5. more = [k \in 0..(m + 1) |-> IF k = 0 THEN frame ELSE CollectStep(loop, s, log, more[k - 1])]
    BY <2>2, <2>4
  <2>. HIDE DEF more
  <2>6. CollectFrames(loop, s, log, more, frame, m + 1)
    BY <2>5 DEF CollectFrames
  <2>. QED
    BY <2>2, <2>6
<1>3. n \in G
  <2>. HIDE DEF G
  <2>1. 0..n \subseteq G
    BY <1>1, <1>2, UpToInduction
  <2>. QED
    BY <2>1
<1>. QED
  BY <1>3

\* Iterating collectBatch gives the last of its frames.
LEMMA BatchesRun ==
    ASSUME NEW n \in Nat, NEW frame, NEW s, NEW log
    PROVE  \E it : CollectFrames("batches", s, log, it, frame, n) /\ Iterate(collectBatch, frame, n) = it[n]
<1>. DEFINE it == CHOOSE after : after = [k \in 0..n |-> IF k = 0 THEN frame ELSE collectBatch(after[k - 1])]
<1>1. \E after : after = [k \in 0..n |-> IF k = 0 THEN frame ELSE collectBatch(after[k - 1])]
  <2>1. PICK after : CollectFrames("batches", s, log, after, frame, n)
    BY CollectFramesExist
  <2>2. \A f : CollectStep("batches", s, log, f) = collectBatch(f)
    BY DEF CollectStep
  <2>3. after = [k \in 0..n |-> IF k = 0 THEN frame ELSE collectBatch(after[k - 1])]
    BY <2>1, <2>2 DEF CollectFrames
  <2>. QED
    BY <2>3
<1>2. it = [k \in 0..n |-> IF k = 0 THEN frame ELSE collectBatch(it[k - 1])]
  BY <1>1
<1>3. Iterate(collectBatch, frame, n) = it[n]
  BY DEF Iterate
<1>. HIDE DEF it
<1>4. CollectFrames("batches", s, log, it, frame, n)
  BY <1>2 DEF CollectFrames, CollectStep
<1>. QED
  BY <1>3, <1>4

\* internalGetCoveredDemand returns the last frame of its loop.
LEMMA SlotsRun ==
    ASSUME NEW s, NEW insured, NEW limit \in Nat, NEW log, log = s.demands[insured], log # <<>>,
           NEW n \in Nat, n = Min({limit, Len(log) + 1})
    PROVE  \E it : /\ CollectFrames("slots", s, log, it, collectStart(s, insured), n)
                   /\ internalGetCoveredDemand(s, insured, limit) = it[n]
<1>. DEFINE frame == collectStart(s, insured)
            it == CHOOSE after : after = [k \in 0..n |-> IF k = 0 THEN frame ELSE collectTurn(s, log, after[k - 1])]
<1>1. \E after : after = [k \in 0..n |-> IF k = 0 THEN frame ELSE collectTurn(s, log, after[k - 1])]
  <2>1. PICK after : CollectFrames("slots", s, log, after, frame, n)
    BY CollectFramesExist
  <2>2. \A f : CollectStep("slots", s, log, f) = collectTurn(s, log, f)
    BY DEF CollectStep
  <2>3. after = [k \in 0..n |-> IF k = 0 THEN frame ELSE collectTurn(s, log, after[k - 1])]
    BY <2>1, <2>2 DEF CollectFrames
  <2>. QED
    BY <2>3
<1>2. it = [k \in 0..n |-> IF k = 0 THEN frame ELSE collectTurn(s, log, it[k - 1])]
  BY <1>1
<1>3. internalGetCoveredDemand(s, insured, limit) = it[n]
  BY DEF internalGetCoveredDemand, Iterate, collectTurn, collectStart
<1>. HIDE DEF it
<1>4. CollectFrames("slots", s, log, it, frame, n)
  BY <1>2 DEF CollectFrames, CollectStep
<1>. QED
  BY <1>3, <1>4

-----------------------------------------------------------------------------
(* The full batches of one slot.                                           *)

BatchesFields == {"s", "d", "fullRounds", "premium", "done", "panic"}
DemandRecord == {"startBatchNo", "premiumRate", "rounds", "unitPerRound"}

(* The point of the slot where the frame f is, which went on from the round "from". *)
PointOf(f, from) == [n |-> f.d.startBatchNo, got |-> from + f.fullRounds]
InFront(pos, w) == {m \in DOMAIN pos : pos[m] < pos[w.n]}

(* The frame f after k batches of the slot d. *)
BatchesGood(s, pos, d, from, f, k) ==
    /\ DOMAIN f = BatchesFields /\ f.s = s /\ f.panic = FALSE
    /\ DOMAIN f.d = DemandRecord /\ f.d.rounds = d.rounds - from /\ f.d.unitPerRound = d.unitPerRound
    /\ f.fullRounds \in Nat
    /\ Walked(s, d, PointOf(f, from))
    /\ f.done \in BOOLEAN
    /\ f.done => WalkStops(s, d, PointOf(f, from))
    /\ ~WalkStops(s, d, PointOf(f, from)) => k <= Cardinality(InFront(pos, PointOf(f, from)))

\* The batches in front of a batch are fewer than all.
LEMMA FrontIsFinite ==
    ASSUME NEW s, NEW pos, Placed(s, pos), NEW w, w.n \in DOMAIN pos
    PROVE  /\ IsFiniteSet(InFront(pos, w)) /\ Cardinality(InFront(pos, w)) \in Nat
           /\ Cardinality(InFront(pos, w)) <= s.batchCount
<1>1. s.batchCount \in Nat /\ InFront(pos, w) \subseteq 1..s.batchCount
  BY DEF Placed, InFront
<1>2. IsFiniteSet(1..s.batchCount) /\ Cardinality(1..s.batchCount) = s.batchCount
  <2>1. IsFiniteSet(1..s.batchCount) /\ Cardinality(1..s.batchCount) = IF 1 > s.batchCount THEN 0 ELSE s.batchCount - 1 + 1
    BY <1>1, FS_Interval
  <2>. QED
    BY <1>1, <2>1
<1>3. IsFiniteSet(InFront(pos, w)) /\ Cardinality(InFront(pos, w)) <= Cardinality(1..s.batchCount)
  BY <1>1, <1>2, FS_Subset
<1>4. Cardinality(InFront(pos, w)) \in Nat
  BY <1>3, FS_CardinalityType
<1>. QED
  BY <1>2, <1>3, <1>4

\* Behind the rounds of a batch there is one batch more in front.
LEMMA FrontGrows ==
    ASSUME NEW s, NEW pos, Placed(s, pos), NEW w, w.n \in DOMAIN pos, NEW v, v.n \in DOMAIN pos, pos[w.n] < pos[v.n]
    PROVE  Cardinality(InFront(pos, w)) + 1 <= Cardinality(InFront(pos, v))
<1>. DEFINE A == InFront(pos, w)
            B == InFront(pos, v)
            C == A \cup {w.n}
<1>1. \A m \in DOMAIN pos : pos[m] \in Nat
  BY PlaceNumbers
<1>2. IsFiniteSet(A) /\ IsFiniteSet(B)
  BY FrontIsFinite
<1>3. w.n \notin A /\ C \subseteq B
  BY <1>1 DEF InFront
<1>. HIDE DEF A, B
<1>4. IsFiniteSet(C) /\ Cardinality(C) = Cardinality(A) + 1
  BY <1>2, <1>3, FS_AddElement
<1>5. Cardinality(C) <= Cardinality(B)
  BY <1>2, <1>3, FS_Subset
<1>. QED
  BY <1>4, <1>5 DEF A, B

\* One batch of the slot: the walk goes one step on.
LEMMA BatchTurn ==
    ASSUME NEW s, NEW pos, Placed(s, pos), NEW d \in Slots, SlotPlaced(pos, d), NEW from \in Nat,
           NEW f, NEW k \in Nat, BatchesGood(s, pos, d, from, f, k)
    PROVE  BatchesGood(s, pos, d, from, collectBatch(f), k + 1)
<1>. DEFINE w == PointOf(f, from)
            b == BatchAt(f.s, f.d.startBatchNo)
            p == IF b.rounds = 0 THEN f.premium
                 ELSE calcPremium(f.s, f.d.startBatchNo, f.d.unitPerRound, f.premium,
                                  b.rounds, 0, f.d.premiumRate, b.unitPerRound)
            q == f.panic \/ (b.nextBatchNo = 0 /\ f.fullRounds + b.rounds < f.d.rounds)
            rb == [f EXCEPT !.done = TRUE]
            rc == [f EXCEPT !.fullRounds = @ + b.rounds, !.premium = p, !.d.startBatchNo = b.nextBatchNo, !.panic = q]
            armA == f.done
            armB == ~f.done /\ (f.d.rounds <= f.fullRounds \/ ~isFull(b))
            g == collectBatch(f)
<1>1. g = CASE armA -> f [] armB -> rb [] OTHER -> rc
  BY DEF collectBatch
<1>2. /\ DOMAIN f = BatchesFields /\ f.s = s /\ f.panic = FALSE
      /\ DOMAIN f.d = DemandRecord /\ f.d.rounds = d.rounds - from /\ f.d.unitPerRound = d.unitPerRound
      /\ f.fullRounds \in Nat /\ Walked(s, d, w) /\ f.done \in BOOLEAN
      /\ f.done => WalkStops(s, d, w)
      /\ ~WalkStops(s, d, w) => k <= Cardinality(InFront(pos, w))
  BY DEF BatchesGood
<1>3. w.n = f.d.startBatchNo /\ w.got = from + f.fullRounds /\ d.rounds \in Nat
  BY DEF PointOf, Slots
<1>4. WalkStops(s, d, w) <=> f.d.rounds <= f.fullRounds \/ ~isFull(b)
  BY <1>2, <1>3 DEF WalkStops, FullAt
<1>5. w \in OnWalk(pos, d)
  BY <1>2, WalkStays
<1>6. CASE armA
  <2>1. g = f
    BY <1>1, <1>6
  <2>. QED
    BY <1>2, <1>6, <2>1 DEF BatchesGood
<1>7. CASE armB
  <2>1. g = rb
    BY <1>1, <1>7
  <2>2. /\ DOMAIN rb = BatchesFields /\ rb.s = f.s /\ rb.panic = f.panic /\ rb.d = f.d
        /\ rb.fullRounds = f.fullRounds /\ rb.done = TRUE
    BY <1>2 DEF BatchesFields
  <2>3. WalkStops(s, d, w)
    BY <1>4, <1>7
  <2>4. PointOf(rb, from) = w
    BY <2>2 DEF PointOf
  <2>5. rb.panic = FALSE /\ rb.s = s /\ PointOf(rb, from) = w
    BY <1>2, <2>2, <2>4
  <2>. HIDE DEF rb, w, g, armA, armB, rc
  <2>6. BatchesGood(s, pos, d, from, rb, k + 1)
    BY <1>2, <2>2, <2>3, <2>5 DEF BatchesGood
  <2>. QED
    BY <2>1, <2>6 DEF g
<1>8. CASE ~armA /\ ~armB
  <2>1. g = rc
    BY <1>1, <1>8
  <2>2. ~WalkStops(s, d, w)
    BY <1>4, <1>8
  <2>. DEFINE R == RoundsAt(s, w.n)
              next == NextOf(s, w.n)
              v == [n |-> next, got |-> w.got + R]
  <2>3. b.rounds = R /\ b.nextBatchNo = next
    BY <1>2, <1>3 DEF RoundsAt, NextOf
  <2>4. w.got \in Nat /\ w.got < d.rounds
    BY <1>2, <1>3, <2>2 DEF WalkStops
  <2>5. R \in Nat \ {0} /\ next \in DOMAIN pos /\ w.got + R <= d.rounds /\ v \in OnWalk(pos, d)
    BY <1>5, <2>4, WalkMoves
  <2>6. next # 0
    BY <2>5, PlaceNumbers
  <2>. HIDE DEF b, p, R, next
  <2>7. q = FALSE
    BY <1>2, <2>3, <2>6
  <2>. HIDE DEF q
  <2>8. /\ DOMAIN rc = BatchesFields /\ rc.s = f.s /\ rc.panic = FALSE /\ rc.done = f.done
        /\ rc.fullRounds = f.fullRounds + R
        /\ rc.d = [f.d EXCEPT !.startBatchNo = next]
    BY <1>2, <2>3, <2>7 DEF BatchesFields
  <2>9. DOMAIN rc.d = DemandRecord /\ rc.d.startBatchNo = next /\ rc.d.rounds = f.d.rounds /\ rc.d.unitPerRound = f.d.unitPerRound
    BY <1>2, <2>8 DEF DemandRecord
  <2>. HIDE DEF rc, g, armA, armB, rb
  <2>10. PointOf(rc, from) = v
    <3>1. from + rc.fullRounds = w.got + R
      BY <1>2, <1>3, <2>5, <2>8
    <3>. QED
      BY <2>9, <3>1 DEF PointOf
  <2>11. Walked(s, d, v)
    <3>1. WalkStep(s, d, w) = v
      BY <2>2 DEF WalkStep, R, next
    <3>. QED
      BY <1>2, <3>1, WalkedOn
  <2>12. k + 1 <= Cardinality(InFront(pos, v))
    <3>1. /\ w.n \in DOMAIN pos /\ v.n \in DOMAIN pos /\ pos[w.n] = pos[d.startBatchNo] + w.got
          /\ pos[v.n] = pos[d.startBatchNo] + v.got /\ v.got = w.got + R
      BY <1>5, <2>5 DEF OnWalk
    <3>2. pos[d.startBatchNo] \in Nat
      BY PlaceNumbers DEF SlotPlaced
    <3>. HIDE DEF v
    <3>3. pos[w.n] < pos[v.n]
      BY <2>4, <2>5, <3>1, <3>2
    <3>4. Cardinality(InFront(pos, w)) + 1 <= Cardinality(InFront(pos, v))
      BY <3>1, <3>3, FrontGrows
    <3>5. Cardinality(InFront(pos, w)) \in Nat /\ Cardinality(InFront(pos, v)) \in Nat
      BY <3>1, FrontIsFinite
    <3>. QED
      BY <1>2, <2>2, <3>4, <3>5
  <2>13. rc.fullRounds \in Nat /\ ~rc.done
    BY <1>2, <1>8, <2>5, <2>8 DEF armA
  <2>14. rc.s = s /\ rc.done = FALSE
    BY <1>2, <1>8, <2>8 DEF armA
  <2>. HIDE DEF v, w
  <2>15. BatchesGood(s, pos, d, from, rc, k + 1)
    BY <1>2, <2>8, <2>9, <2>10, <2>11, <2>12, <2>13, <2>14 DEF BatchesGood
  <2>. QED
    BY <2>1, <2>15 DEF g
<1>. QED
  BY <1>6, <1>7, <1>8

(* The slot d from its round "from" on, when n is its next batch. *)
RestOf(d, from, n) == IF from = 0 THEN d ELSE [d EXCEPT !.rounds = @ - from, !.startBatchNo = n]
BatchesStart(s, rest, premium, panic) ==
    [s |-> s, d |-> rest, fullRounds |-> 0, premium |-> premium, done |-> FALSE, panic |-> panic]

(* The frames of a walk through the batches of the slot d, from the first to f. *)
BatchesRunTo(s, pos, d, from, frame, it, f) ==
    /\ s.batchCount + 1 \in Nat /\ it[0] = frame /\ it[s.batchCount + 1] = f
    /\ \A k \in 0..s.batchCount : it[k + 1] = collectBatch(it[k])
    /\ \A k \in 0..(s.batchCount + 1) : BatchesGood(s, pos, d, from, it[k], k)

\* Every batch of a walk through a slot goes one step on.
LEMMA SlotFrames ==
    ASSUME NEW s, NEW pos, Placed(s, pos), NEW d \in Slots, SlotPlaced(pos, d), NEW from \in Nat, NEW n,
           from # 0 => Walked(s, d, [n |-> n, got |-> from]), NEW premium, NEW panic, panic = FALSE
    PROVE  \E it : BatchesRunTo(s, pos, d, from, BatchesStart(s, RestOf(d, from, n), premium, panic), it,
                       Iterate(collectBatch, BatchesStart(s, RestOf(d, from, n), premium, panic), s.batchCount + 1))
<1>. DEFINE rest == RestOf(d, from, n)
            frame == BatchesStart(s, rest, premium, panic)
            m == s.batchCount + 1
            w0 == IF from = 0 THEN WalkStart(d) ELSE [n |-> n, got |-> from]
<1>1. s.batchCount \in Nat /\ m \in Nat
  BY DEF Placed
<1>2. DOMAIN d = DemandRecord /\ d.rounds \in Nat
  BY DEF Slots, DemandRecord
<1>3. /\ DOMAIN rest = DemandRecord /\ rest.rounds = d.rounds - from /\ rest.unitPerRound = d.unitPerRound
      /\ rest.startBatchNo = w0.n /\ w0.got = from
  <2>1. CASE from = 0
    <3>1. rest = d
      BY <2>1 DEF RestOf
    <3>. QED
      BY <1>2, <2>1, <3>1 DEF WalkStart
  <2>2. CASE from # 0
    <3>1. rest = [d EXCEPT !.rounds = @ - from, !.startBatchNo = n]
      BY <2>2 DEF RestOf
    <3>. HIDE DEF rest
    <3>. QED
      BY <1>2, <2>2, <3>1 DEF DemandRecord
  <2>. QED
    BY <2>1, <2>2
<1>. HIDE DEF rest
<1>4. Walked(s, d, w0)
  BY WalkedOn
<1>5. w0.n \in DOMAIN pos
  BY <1>4, WalkStays DEF OnWalk
<1>6. BatchesGood(s, pos, d, from, frame, 0)
  <2>1. DOMAIN frame = BatchesFields
    BY DEF BatchesFields, BatchesStart
  <2>2. /\ frame.s = s /\ frame.panic = FALSE /\ frame.d = rest /\ frame.fullRounds = 0 /\ frame.done = FALSE
    BY DEF BatchesStart
  <2>. HIDE DEF frame
  <2>3. PointOf(frame, from) = w0
    <3>1. from + 0 = from
      OBVIOUS
    <3>2. w0 = [n |-> w0.n, got |-> w0.got]
      BY DEF WalkStart
    <3>. HIDE DEF w0
    <3>. QED
      BY <1>3, <2>2, <3>1, <3>2 DEF PointOf
  <2>4. 0 <= Cardinality(InFront(pos, w0))
    BY <1>5, FrontIsFinite
  <2>. HIDE DEF w0
  <2>5. /\ DOMAIN frame.d = DemandRecord /\ frame.d.rounds = d.rounds - from /\ frame.d.unitPerRound = d.unitPerRound
        /\ frame.fullRounds \in Nat
    BY <1>3, <2>2
  <2>6. ~frame.done /\ frame.done \in BOOLEAN
    BY <2>2
  <2>. QED
    BY <1>4, <2>1, <2>2, <2>3, <2>4, <2>5, <2>6 DEF BatchesGood
<1>7. PICK it : CollectFrames("batches", s, <<>>, it, frame, m) /\ Iterate(collectBatch, frame, m) = it[m]
  BY <1>1, BatchesRun
<1>. HIDE DEF frame
<1>8. \A k \in 0..m : it[k] = IF k = 0 THEN frame ELSE collectBatch(it[k - 1])
  BY <1>7 DEF CollectFrames, CollectStep
<1>. DEFINE G == {k \in 0..m : BatchesGood(s, pos, d, from, it[k], k)}
<1>9. 0 \in G
  BY <1>1, <1>6, <1>8
<1>10. ASSUME NEW k \in 0..(m - 1), k \in G PROVE k + 1 \in G
  <2>1. k \in Nat /\ k + 1 \in 0..m /\ k + 1 # 0 /\ (k + 1) - 1 = k /\ BatchesGood(s, pos, d, from, it[k], k)
    BY <1>1, <1>10
  <2>2. it[k + 1] = collectBatch(it[k])
    BY <1>8, <2>1
  <2>3. BatchesGood(s, pos, d, from, it[k + 1], k + 1)
    BY <2>1, <2>2, BatchTurn
  <2>. QED
    BY <2>1, <2>3
<1>11. 0..m \subseteq G
  <2>. HIDE DEF G, m
  <2>. QED
    BY <1>1, <1>9, <1>10, UpToInduction
<1>12. \A k \in 0..m : BatchesGood(s, pos, d, from, it[k], k)
  BY <1>11
<1>13. it[0] = frame /\ \A k \in 0..s.batchCount : it[k + 1] = collectBatch(it[k])
  <2>1. 0 \in 0..m /\ \A k \in 0..s.batchCount : k + 1 \in 0..m /\ k + 1 # 0 /\ (k + 1) - 1 = k
    BY <1>1
  <2>. HIDE DEF m
  <2>. QED
    BY <1>8, <2>1
<1>14. BatchesRunTo(s, pos, d, from, frame, it, Iterate(collectBatch, frame, m))
  BY <1>1, <1>7, <1>12, <1>13 DEF BatchesRunTo
<1>. QED
  BY <1>14 DEF frame, rest

\* The walk through the batches of a slot ends where it stops, and nothing fails.
LEMMA SlotIsWalked ==
    ASSUME NEW s, NEW pos, Placed(s, pos), NEW d \in Slots, SlotPlaced(pos, d), NEW from,
           NEW frame, NEW it, NEW f, BatchesRunTo(s, pos, d, from, frame, it, f)
    PROVE  \E k : BatchesGood(s, pos, d, from, f, k) /\ WalkStops(s, d, PointOf(f, from))
<1>. DEFINE m == s.batchCount + 1
            w == PointOf(f, from)
<1>1. m \in Nat /\ s.batchCount \in Nat
  BY DEF BatchesRunTo, Placed
<1>2. BatchesGood(s, pos, d, from, f, m)
  BY <1>1 DEF BatchesRunTo
<1>3. WalkStops(s, d, w)
  <2>1. w.n \in DOMAIN pos
    BY <1>2, WalkStays DEF BatchesGood, OnWalk
  <2>2. Cardinality(InFront(pos, w)) \in Nat /\ Cardinality(InFront(pos, w)) <= s.batchCount
    BY <2>1, FrontIsFinite
  <2>3. ~(m <= Cardinality(InFront(pos, w)))
    BY <1>1, <2>2
  <2>. QED
    BY <1>2, <2>3 DEF BatchesGood
<1>. QED
  BY <1>2, <1>3

-----------------------------------------------------------------------------
(* What an insured has collected, and what it finds when it collects.      *)

CoverageRecord == {"coveredUnits", "lastUpdateIndex", "lastUpdateBatchNo", "lastUpdateRounds", "lastPartialRoundNo"}
CollectFields == {"covered", "premium", "total", "pendingCovered", "done", "panic"}

(* Units of the first k slots, full rounds of the partial batch n. *)
UnitsBefore(log, k) == SumFunctionOnSet([j \in 1..k |-> UnitsIn(log[j])], 1..k)
PartialIn(s, n) == IF s.partial.batchNo = n THEN s.partial.roundNo ELSE 0

(* All rounds of the slot d are in full batches. *)
SlotDone(s, d) == \E n : Walked(s, d, [n |-> n, got |-> d.rounds])

(* The slot d is covered up to the batch where the walk through it stops: by x units. *)
SlotCovers(s, d, x) ==
    \E w : /\ Walked(s, d, w) /\ WalkStops(s, d, w) /\ w.got < d.rounds
           /\ x = (w.got + PartialIn(s, w.n)) * d.unitPerRound

(* All slots in front of the slot c.lastUpdateIndex + 1 and a part of this one are collected. *)
SlotBegun(s, d, c) ==
    /\ c.lastUpdateRounds < d.rounds
    /\ c.lastUpdateRounds # 0 => Walked(s, d, [n |-> c.lastUpdateBatchNo, got |-> c.lastUpdateRounds])

CoveredAs(s, log, c) ==
    /\ DOMAIN c = CoverageRecord
    /\ c.lastUpdateIndex \in 0..Len(log) /\ c.lastUpdateRounds \in Nat /\ c.lastPartialRoundNo \in Nat
    /\ \A k \in 1..c.lastUpdateIndex : SlotDone(s, log[k])
    /\ c.lastUpdateIndex = Len(log) =>
          c.lastUpdateRounds = 0 /\ c.lastPartialRoundNo = 0 /\ c.coveredUnits = UnitsBefore(log, c.lastUpdateIndex)
    /\ c.lastUpdateIndex < Len(log) =>
          LET d == log[c.lastUpdateIndex + 1]
          IN  /\ SlotBegun(s, d, c)
              /\ c.coveredUnits = UnitsBefore(log, c.lastUpdateIndex)
                                    + (c.lastUpdateRounds + c.lastPartialRoundNo) * d.unitPerRound

(* The coverage of a log: whole slots, and the slot where the full batches end. *)
LogCovers(s, log, x) ==
    \E k \in 0..Len(log) :
        /\ \A j \in 1..k : SlotDone(s, log[j])
        /\ k = Len(log) => x = UnitsBefore(log, k)
        /\ k < Len(log) => \E y : SlotCovers(s, log[k + 1], y) /\ x = UnitsBefore(log, k) + y

(* The frame c of a collection after k slots. *)
CollectGood(s, log, c, k) ==
    /\ DOMAIN c = CollectFields /\ c.panic = FALSE /\ c.done \in BOOLEAN
    /\ CoveredAs(s, log, c.covered)
    /\ c.done => LogCovers(s, log, c.covered.coveredUnits)
    /\ ~c.done => k <= c.covered.lastUpdateIndex

\* Units of the first slots, one by one.
LEMMA UnitsBeforeGrow ==
    ASSUME NEW log \in Seq(Slots)
    PROVE  /\ UnitsBefore(log, 0) = 0
           /\ \A k \in 0..Len(log) : UnitsBefore(log, k) \in Nat
           /\ \A k \in 0..(Len(log) - 1) : UnitsBefore(log, k + 1) = UnitsBefore(log, k) + UnitsIn(log[k + 1])
           /\ UnitsBefore(log, Len(log)) = LogUnits(log)
<1>1. Len(log) \in Nat /\ DOMAIN log = 1..Len(log) /\ \A k \in 1..Len(log) : log[k] \in Slots
  OBVIOUS
<1>2. \A k \in 1..Len(log) : UnitsIn(log[k]) \in Nat
  <2>1. \A d \in Slots : d.rounds \in Nat /\ d.unitPerRound \in Nat
    BY DEF Slots
  <2>2. \A a \in Nat, b \in Nat : a * b \in Nat
    OBVIOUS
  <2>. QED
    BY <1>1, <2>1, <2>2 DEF UnitsIn
<1>3. UnitsBefore(log, 0) = 0
  <2>1. 1..0 = {}
    OBVIOUS
  <2>2. \A f : SumFunctionOnSet(f, 1..0) = 0
    BY <2>1, SumEmpty
  <2>. QED
    BY <2>2 DEF UnitsBefore
<1>4. ASSUME NEW k \in 0..(Len(log) - 1)
      PROVE  UnitsBefore(log, k + 1) = UnitsBefore(log, k) + UnitsIn(log[k + 1])
  <2>. DEFINE f == [j \in 1..k |-> UnitsIn(log[j])]
              g == [j \in 1..(k + 1) |-> UnitsIn(log[j])]
  <2>1. k \in Nat /\ k + 1 \in 1..Len(log) /\ k + 1 \in 1..(k + 1) /\ \A j \in 1..k : j \in 1..Len(log) /\ j \in 1..(k + 1)
    BY <1>1
  <2>2. /\ \A j \in 1..k : f[j] \in Int /\ g[j] = f[j]
        /\ g[k + 1] = UnitsIn(log[k + 1]) /\ g[k + 1] \in Int
    <3>1. \A j \in 1..k : f[j] = UnitsIn(log[j]) /\ g[j] = UnitsIn(log[j])
      BY <2>1
    <3>2. g[k + 1] = UnitsIn(log[k + 1])
      BY <2>1
    <3>3. \A x \in Nat : x \in Int
      OBVIOUS
    <3>. HIDE DEF f, g
    <3>. QED
      BY <1>2, <2>1, <3>1, <3>2, <3>3
  <2>. HIDE DEF f, g
  <2>3. SumFunctionOnSet(g, 1..(k + 1)) = SumFunctionOnSet(f, 1..k) + g[k + 1]
    BY <2>1, <2>2, SumLonger
  <2>4. UnitsBefore(log, k) = SumFunctionOnSet(f, 1..k) /\ UnitsBefore(log, k + 1) = SumFunctionOnSet(g, 1..(k + 1))
    BY DEF UnitsBefore, f, g
  <2>. QED
    BY <2>2, <2>3, <2>4
<1>5. \A k \in 0..Len(log) : UnitsBefore(log, k) \in Nat
  <2>. DEFINE G == {k \in 0..Len(log) : UnitsBefore(log, k) \in Nat}
              n == Len(log)
  <2>1. 0 \in G
    BY <1>1, <1>3
  <2>2. ASSUME NEW k \in 0..(n - 1), k \in G PROVE k + 1 \in G
    <3>1. k + 1 \in 0..n /\ k + 1 \in 1..n
      BY <1>1
    <3>2. UnitsBefore(log, k) \in Nat /\ UnitsIn(log[k + 1]) \in Nat
      BY <1>2, <2>2, <3>1
    <3>3. UnitsBefore(log, k + 1) \in Nat
      BY <1>4, <3>2
    <3>. QED
      BY <3>1, <3>3
  <2>. HIDE DEF G
  <2>3. 0..n \subseteq G
    BY <1>1, <2>1, <2>2, UpToInduction
  <2>. QED
    BY <2>3 DEF G
<1>6. UnitsBefore(log, Len(log)) = LogUnits(log)
  BY <1>1 DEF UnitsBefore, LogUnits
<1>. QED
  BY <1>3, <1>4, <1>5, <1>6

(* Units of the slot d before and after its rounds up to "got" are collected. *)
UnitsUpTo(old, d, got) ==
    old.coveredUnits - old.lastPartialRoundNo * d.unitPerRound + (got - old.lastUpdateRounds) * d.unitPerRound

(* What is stored when the walk through the slot d stops within it. *)
StoppedAt(s, old, d, w) ==
    [coveredUnits |-> UnitsUpTo(old, d, w.got) + PartialIn(s, w.n) * d.unitPerRound,
     lastUpdateIndex |-> old.lastUpdateIndex, lastUpdateBatchNo |-> w.n,
     lastUpdateRounds |-> w.got, lastPartialRoundNo |-> PartialIn(s, w.n)]

SlotResult(s, d, c, g, w) ==
    /\ Walked(s, d, w) /\ WalkStops(s, d, w)
    /\ w.got \in Nat /\ c.covered.lastUpdateRounds <= w.got /\ w.got <= d.rounds
    /\ DOMAIN g = CollectFields /\ g.panic = FALSE
    /\ w.got = d.rounds => g.covered = slotCollected(c.covered, UnitsUpTo(c.covered, d, w.got)) /\ g.done = c.done
    /\ w.got < d.rounds => g.covered = StoppedAt(s, c.covered, d, w) /\ g.done = TRUE

\* Collecting a slot takes what the walk through it finds.
LEMMA SlotIsCollected ==
    ASSUME NEW s, NEW pos, Placed(s, pos), IsPart(s.partial), NEW d \in Slots, SlotPlaced(pos, d),
           NEW c, DOMAIN c = CollectFields, c.panic = FALSE, c.covered.lastUpdateRounds \in Nat,
           c.covered.coveredUnits \in Int, c.covered.lastPartialRoundNo \in Nat, SlotBegun(s, d, c.covered),
           NEW g, g = collectCoveredDemandSlot(s, d, c)
    PROVE  \E w : SlotResult(s, d, c, g, w)
<1>. DEFINE old == c.covered
            from == old.lastUpdateRounds
            rest == RestOf(d, from, old.lastUpdateBatchNo)
            f == Iterate(collectBatch, BatchesStart(s, rest, c.premium, c.panic), s.batchCount + 1)
            units == withoutPartial(old, rest) + f.fullRounds * rest.unitPerRound
            part == s.partial
            b == BatchAt(s, f.d.startBatchNo)
            inPartial == part.batchNo = f.d.startBatchNo
            pending == (part.roundCoverage * rest.unitPerRound) \div b.unitPerRound
            total == calcPremium(s, f.d.startBatchNo, rest.unitPerRound, f.premium,
                                 part.roundNo, pending, rest.premiumRate, b.unitPerRound)
            fails == f.panic \/ rest.rounds # f.fullRounds
            ra == [c EXCEPT !.covered = slotCollected(old, units),
                            !.premium = f.premium, !.total = f.premium,
                            !.panic = fails]
            rb == [c EXCEPT !.covered = [coveredUnits |-> units + part.roundNo * rest.unitPerRound,
                                         lastUpdateIndex |-> old.lastUpdateIndex,
                                         lastUpdateBatchNo |-> f.d.startBatchNo,
                                         lastUpdateRounds |-> old.lastUpdateRounds + f.fullRounds,
                                         lastPartialRoundNo |-> part.roundNo],
                            !.premium = f.premium, !.pendingCovered = pending, !.done = TRUE,
                            !.total = total,
                            !.panic = f.panic]
            rc == [c EXCEPT !.covered = [coveredUnits |-> units,
                                         lastUpdateIndex |-> old.lastUpdateIndex,
                                         lastUpdateBatchNo |-> f.d.startBatchNo,
                                         lastUpdateRounds |-> old.lastUpdateRounds + f.fullRounds,
                                         lastPartialRoundNo |-> 0],
                            !.premium = f.premium, !.total = f.premium, !.done = TRUE,
                            !.panic = f.panic]
            armA == rest.rounds <= f.fullRounds
            armB == rest.rounds > f.fullRounds /\ inPartial /\ PartialRounds(part) > 0
            w == PointOf(f, from)
<1>1. g = CASE armA -> ra [] armB -> rb [] OTHER -> rc
  BY DEF collectCoveredDemandSlot, RestOf, BatchesStart
<1>2. from \in Nat /\ (from # 0 => Walked(s, d, [n |-> old.lastUpdateBatchNo, got |-> from]))
  BY DEF SlotBegun
<1>3. \E k : BatchesGood(s, pos, d, from, f, k) /\ WalkStops(s, d, PointOf(f, from))
  <2>. HIDE DEF from
  <2>1. PICK it : BatchesRunTo(s, pos, d, from, BatchesStart(s, rest, c.premium, c.panic), it, f)
    BY <1>2, SlotFrames
  <2>. HIDE DEF f
  <2>. QED
    BY <2>1, SlotIsWalked
<1>4. /\ f.panic = FALSE /\ f.fullRounds \in Nat /\ Walked(s, d, w) /\ WalkStops(s, d, w)
      /\ DOMAIN f.d = DemandRecord
  BY <1>3 DEF BatchesGood
<1>. HIDE DEF f
<1>5. /\ rest.unitPerRound = d.unitPerRound /\ rest.rounds = d.rounds - from
      /\ d.rounds \in Nat /\ d.unitPerRound \in Nat
  <2>1. DOMAIN d = DemandRecord /\ d.rounds \in Nat /\ d.unitPerRound \in Nat
    BY DEF Slots, DemandRecord
  <2>2. CASE from = 0
    <3>1. rest = d
      BY <2>2 DEF RestOf
    <3>. QED
      BY <2>1, <2>2, <3>1
  <2>3. CASE from # 0
    <3>1. rest = [d EXCEPT !.rounds = @ - from, !.startBatchNo = old.lastUpdateBatchNo]
      BY <2>3 DEF RestOf
    <3>. HIDE DEF rest, from
    <3>. QED
      BY <2>1, <3>1 DEF DemandRecord
  <2>. QED
    BY <2>2, <2>3
<1>. HIDE DEF rest
<1>6. w.n = f.d.startBatchNo /\ w.got = from + f.fullRounds
  BY DEF PointOf
<1>7. w.got \in 0..d.rounds
  BY <1>4, WalkStays DEF OnWalk
<1>8. w.got \in Nat /\ from <= w.got /\ w.got <= d.rounds /\ f.fullRounds = w.got - from
  <2>. HIDE DEF w, from
  <2>. QED
    BY <1>2, <1>4, <1>5, <1>6, <1>7
<1>9. armA <=> w.got = d.rounds
  <2>. HIDE DEF w, from
  <2>. QED
    BY <1>2, <1>4, <1>5, <1>6, <1>8
<1>10. units = UnitsUpTo(old, d, w.got)
  <2>1. withoutPartial(old, rest) = old.coveredUnits - old.lastPartialRoundNo * d.unitPerRound
    BY <1>5 DEF withoutPartial
  <2>2. f.fullRounds * rest.unitPerRound = (w.got - old.lastUpdateRounds) * d.unitPerRound
    BY <1>5, <1>8
  <2>. HIDE DEF w, old
  <2>. QED
    BY <2>1, <2>2 DEF UnitsUpTo
<1>. HIDE DEF units, pending, total
<1>11. CASE armA
  <2>1. g = ra
    <3>1. ~armB
      <4>. HIDE DEF from
      <4>. QED
        BY <1>2, <1>4, <1>5, <1>11
    <3>. HIDE DEF ra, rb, rc, armA, armB
    <3>. QED
      BY <1>1, <1>11, <3>1
  <2>2. fails = FALSE
    <3>. HIDE DEF w, from
    <3>. QED
      BY <1>2, <1>4, <1>5, <1>6, <1>8, <1>9, <1>11
  <2>. HIDE DEF fails
  <2>3. DOMAIN ra = CollectFields /\ ra.panic = FALSE /\ ra.covered = slotCollected(old, units) /\ ra.done = c.done
    BY <2>2 DEF CollectFields
  <2>. HIDE DEF ra, w, from, old, armA
  <2>4. w.got = d.rounds
    BY <1>9, <1>11
  <2>5. ~(w.got < d.rounds)
    BY <1>5, <2>4
  <2>6. SlotResult(s, d, c, g, w)
    BY <1>4, <1>8, <1>10, <2>1, <2>3, <2>4, <2>5 DEF SlotResult, old, from
  <2>. QED
    BY <2>6
<1>12. CASE ~armA
  <2>1. w.got < d.rounds /\ w.got # d.rounds
    <3>. HIDE DEF w, armA
    <3>. QED
      BY <1>5, <1>8, <1>9, <1>12
  <2>2. old.lastUpdateRounds + f.fullRounds = w.got
    BY <1>6
  <2>3. part.roundNo \in Nat /\ part.roundCoverage \in Nat
    BY DEF IsPart
  <2>4. units + 0 * d.unitPerRound = units
    <3>1. \A x \in Int, u \in Nat, p \in Nat, r \in Nat : x - p * u + r * u \in Int
      OBVIOUS
    <3>2. units \in Int
      BY <1>4, <1>5, <3>1 DEF units, withoutPartial
    <3>. HIDE DEF units
    <3>. QED
      BY <1>5, <3>2
  <2>5. CASE armB
    <3>1. g = rb
      <4>. HIDE DEF ra, rb, rc, armA, armB
      <4>. QED
        BY <1>1, <1>12, <2>5
    <3>2. PartialIn(s, w.n) = part.roundNo
      BY <1>6, <2>5 DEF PartialIn
    <3>3. DOMAIN rb = CollectFields /\ rb.panic = FALSE /\ rb.done = TRUE /\ rb.covered = StoppedAt(s, old, d, w)
      <4>. DEFINE cov == [coveredUnits |-> units + part.roundNo * rest.unitPerRound,
                          lastUpdateIndex |-> old.lastUpdateIndex,
                          lastUpdateBatchNo |-> f.d.startBatchNo,
                          lastUpdateRounds |-> old.lastUpdateRounds + f.fullRounds,
                          lastPartialRoundNo |-> part.roundNo]
      <4>1. cov = StoppedAt(s, old, d, w)
        <5>. HIDE DEF w, old
        <5>. QED
          BY <1>5, <1>6, <1>10, <2>2, <3>2 DEF StoppedAt
      <4>2. rb.covered = cov /\ DOMAIN rb = CollectFields /\ rb.panic = f.panic /\ rb.done = TRUE
        BY DEF CollectFields
      <4>. QED
        BY <1>4, <4>1, <4>2
    <3>. HIDE DEF rb, w, from, old
    <3>. QED
      BY <1>4, <1>8, <2>1, <3>1, <3>3 DEF SlotResult, old, from
  <2>6. CASE ~armB
    <3>1. g = rc
      <4>. HIDE DEF ra, rb, rc, armA, armB
      <4>. QED
        BY <1>1, <1>12, <2>6
    <3>2. PartialIn(s, w.n) = 0
      <4>1. rest.rounds > f.fullRounds
        <5>. HIDE DEF w
        <5>. QED
          BY <1>4, <1>5, <1>12
      <4>2. w.n = part.batchNo => ~(PartialRounds(part) > 0)
        BY <1>6, <2>6, <4>1
      <4>3. part.roundNo # 0 => PartialRounds(part) > 0
        BY <2>3 DEF PartialRounds
      <4>. HIDE DEF w
      <4>. QED
        BY <4>2, <4>3 DEF PartialIn
    <3>3. DOMAIN rc = CollectFields /\ rc.panic = FALSE /\ rc.done = TRUE /\ rc.covered = StoppedAt(s, old, d, w)
      <4>. DEFINE cov == [coveredUnits |-> units,
                          lastUpdateIndex |-> old.lastUpdateIndex,
                          lastUpdateBatchNo |-> f.d.startBatchNo,
                          lastUpdateRounds |-> old.lastUpdateRounds + f.fullRounds,
                          lastPartialRoundNo |-> 0]
      <4>1. cov = StoppedAt(s, old, d, w)
        <5>. HIDE DEF w, old
        <5>. QED
          BY <1>6, <1>10, <2>2, <2>4, <3>2 DEF StoppedAt
      <4>2. rc.covered = cov /\ DOMAIN rc = CollectFields /\ rc.panic = f.panic /\ rc.done = TRUE
        BY DEF CollectFields
      <4>. QED
        BY <1>4, <4>1, <4>2
    <3>. HIDE DEF rc, w, from, old
    <3>. QED
      BY <1>4, <1>8, <2>1, <3>1, <3>3 DEF SlotResult, old, from
  <2>. QED
    BY <2>5, <2>6
<1>. QED
  BY <1>11, <1>12

\* The units of the partial batch add to those of the collected rounds.
LEMMA PartAdds ==
    ASSUME NEW before \in Int, NEW u \in Nat, NEW got \in Nat, NEW more \in Nat
    PROVE  before + got * u + more * u = before + (got + more) * u
OBVIOUS

\* What a collection has, for a slot that is begun.
LEMMA CoveredBegun ==
    ASSUME NEW s, NEW log \in Seq(Slots), NEW c, CoveredAs(s, log, c), c.lastUpdateIndex < Len(log)
    PROVE  LET d == log[c.lastUpdateIndex + 1]
           IN  /\ c.lastUpdateIndex + 1 \in DOMAIN log /\ c.lastUpdateIndex \in 0..(Len(log) - 1) /\ d \in Slots
               /\ SlotBegun(s, d, c) /\ d.rounds \in Nat /\ d.unitPerRound \in Nat
               /\ c.lastUpdateRounds \in Nat /\ c.lastPartialRoundNo \in Nat
               /\ UnitsBefore(log, c.lastUpdateIndex) \in Nat /\ c.coveredUnits \in Int
               /\ \A got \in Nat : UnitsUpTo(c, d, got) = UnitsBefore(log, c.lastUpdateIndex) + got * d.unitPerRound
               /\ UnitsBefore(log, c.lastUpdateIndex + 1) =
                      UnitsBefore(log, c.lastUpdateIndex) + d.rounds * d.unitPerRound
<1>. DEFINE i == c.lastUpdateIndex
            d == log[i + 1]
            B == UnitsBefore(log, i)
<1>1. /\ i \in 0..Len(log) /\ i < Len(log) /\ c.lastUpdateRounds \in Nat /\ c.lastPartialRoundNo \in Nat
      /\ SlotBegun(s, d, c) /\ c.coveredUnits = B + (c.lastUpdateRounds + c.lastPartialRoundNo) * d.unitPerRound
  BY DEF CoveredAs
<1>2. Len(log) \in Nat /\ DOMAIN log = 1..Len(log) /\ \A k \in 1..Len(log) : log[k] \in Slots
  OBVIOUS
<1>3. i \in 0..(Len(log) - 1) /\ i + 1 \in DOMAIN log /\ d \in Slots
  <2>. HIDE DEF i
  <2>1. i \in Nat /\ i \in 0..(Len(log) - 1) /\ i + 1 \in 1..Len(log)
    BY <1>1, <1>2
  <2>. QED
    BY <1>2, <2>1
<1>4. d.rounds \in Nat /\ d.unitPerRound \in Nat
  BY <1>3 DEF Slots
<1>5. B \in Nat /\ UnitsBefore(log, i + 1) = B + UnitsIn(d)
  <2>. HIDE DEF i
  <2>1. i \in 0..Len(log)
    BY <1>1
  <2>. QED
    BY <1>3, <2>1, UnitsBeforeGrow
<1>6. \A got \in Nat : UnitsUpTo(c, d, got) = B + got * d.unitPerRound
  <2> SUFFICES ASSUME NEW got \in Nat PROVE UnitsUpTo(c, d, got) = B + got * d.unitPerRound
    OBVIOUS
  <2>. HIDE DEF i, d, B
  <2>1. B \in Int
    BY <1>5
  <2>2. (B + (c.lastUpdateRounds + c.lastPartialRoundNo) * d.unitPerRound)
           - c.lastPartialRoundNo * d.unitPerRound + (got - c.lastUpdateRounds) * d.unitPerRound = B + got * d.unitPerRound
    <3>1. /\ c.lastUpdateRounds \in Nat /\ c.lastPartialRoundNo \in Nat
      BY <1>1
    <3>2. d.unitPerRound \in Nat
      BY <1>4
    <3>3. \A done \in Nat, part \in Nat, u \in Nat : (B + (done + part) * u) - part * u + (got - done) * u = B + got * u
      BY <2>1
    <3>. QED
      BY <3>1, <3>2, <3>3, Zenon
  <2>. QED
    BY <1>1, <2>2, Zenon DEF UnitsUpTo
<1>7. c.coveredUnits \in Int
  <2>1. \A x \in Nat, y \in Nat, z \in Nat : x + y * z \in Int
    OBVIOUS
  <2>2. c.lastUpdateRounds + c.lastPartialRoundNo \in Nat
    BY <1>1
  <2>. HIDE DEF B, d
  <2>. QED
    BY <1>1, <1>4, <1>5, <2>1, <2>2
<1>. HIDE DEF B
<1>8. UnitsBefore(log, i + 1) = B + d.rounds * d.unitPerRound
  BY <1>5 DEF UnitsIn
<1>. QED
  BY <1>1, <1>3, <1>4, <1>5, <1>6, <1>7, <1>8 DEF B

\* One slot of a collection.
LEMMA SlotTurn ==
    ASSUME NEW s, NEW pos, Placed(s, pos), IsPart(s.partial), NEW log, LogPlaced(pos, log),
           NEW c, NEW k \in Nat, CollectGood(s, log, c, k)
    PROVE  CollectGood(s, log, collectTurn(s, log, c), k + 1)
<1>. DEFINE old == c.covered
            i == old.lastUpdateIndex
            g == collectTurn(s, log, c)
<1>1. log \in Seq(Slots) /\ Len(log) \in Nat /\ \A j \in DOMAIN log : SlotPlaced(pos, log[j])
  BY DEF LogPlaced
<1>2. /\ DOMAIN c = CollectFields /\ c.panic = FALSE /\ c.done \in BOOLEAN /\ CoveredAs(s, log, old)
      /\ c.done => LogCovers(s, log, old.coveredUnits)
      /\ ~c.done => k <= i
  BY DEF CollectGood
<1>3. i \in 0..Len(log) /\ i \in Int
  BY <1>2 DEF CoveredAs
<1>4. CASE c.done \/ i >= Len(log)
  <2>1. g = [c EXCEPT !.done = TRUE]
    BY <1>4 DEF collectTurn
  <2>2. DOMAIN g = CollectFields /\ g.panic = FALSE /\ g.done = TRUE /\ g.covered = old
    BY <1>2, <2>1 DEF CollectFields
  <2>3. LogCovers(s, log, old.coveredUnits)
    <3>1. CASE c.done
      BY <1>2, <3>1
    <3>2. CASE i >= Len(log)
      <4>1. i = Len(log) /\ ~(i < Len(log))
        BY <1>1, <1>3, <3>2
      <4>2. old.coveredUnits = UnitsBefore(log, i) /\ \A j \in 1..i : SlotDone(s, log[j])
        BY <1>2, <4>1 DEF CoveredAs
      <4>. HIDE DEF i, old
      <4>. QED
        BY <1>3, <4>1, <4>2 DEF LogCovers
    <3>. QED
      BY <1>4, <3>1, <3>2
  <2>. HIDE DEF g
  <2>4. CollectGood(s, log, g, k + 1)
    BY <1>2, <2>2, <2>3 DEF CollectGood
  <2>. QED
    BY <2>4 DEF g
<1>5. CASE ~c.done /\ ~(i >= Len(log))
  <2>. DEFINE d == log[i + 1]
              B == UnitsBefore(log, i)
              u == d.unitPerRound
  <2>1. g = collectCoveredDemandSlot(s, d, c)
    BY <1>5 DEF collectTurn
  <2>2. i < Len(log) /\ i # Len(log)
    <3>. HIDE DEF i
    <3>. QED
      BY <1>1, <1>3, <1>5
  <2>3. /\ i + 1 \in DOMAIN log /\ i \in 0..(Len(log) - 1) /\ d \in Slots /\ SlotBegun(s, d, old)
        /\ d.rounds \in Nat /\ u \in Nat /\ old.lastUpdateRounds \in Nat /\ old.lastPartialRoundNo \in Nat
        /\ B \in Nat /\ old.coveredUnits \in Int
        /\ \A got \in Nat : UnitsUpTo(old, d, got) = B + got * u
        /\ UnitsBefore(log, i + 1) = B + d.rounds * u
    BY <1>1, <1>2, <2>2, CoveredBegun
  <2>4. SlotPlaced(pos, d)
    BY <1>1, <2>3
  <2>. HIDE DEF g, d, B, old, i
  <2>5. PICK w : SlotResult(s, d, c, g, w)
    BY <1>2, <2>1, <2>3, <2>4, SlotIsCollected DEF old
  <2>6. /\ Walked(s, d, w) /\ WalkStops(s, d, w) /\ w.got \in Nat /\ w.got <= d.rounds
        /\ DOMAIN g = CollectFields /\ g.panic = FALSE
        /\ w.got = d.rounds => g.covered = slotCollected(old, UnitsUpTo(old, d, w.got)) /\ g.done = c.done
        /\ w.got < d.rounds => g.covered = StoppedAt(s, old, d, w) /\ g.done = TRUE
    BY <2>5 DEF SlotResult, old
  <2>7. w \in OnWalk(pos, d)
    BY <2>3, <2>4, <2>6, WalkStays
  <2>8. w = [n |-> w.n, got |-> w.got] /\ w.n \in DOMAIN pos
    BY <2>7 DEF OnWalk
  <2>9. \A j \in 1..i : SlotDone(s, log[j])
    BY <1>2 DEF CoveredAs, i
  <2>10. CASE w.got = d.rounds
    <3>. DEFINE C == g.covered
    <3>1. C = slotCollected(old, UnitsUpTo(old, d, w.got)) /\ g.done = FALSE
      BY <1>2, <1>5, <2>6, <2>10
    <3>2. /\ DOMAIN C = CoverageRecord /\ C.lastUpdateIndex = i + 1 /\ C.lastUpdateRounds = 0 /\ C.lastPartialRoundNo = 0
          /\ C.coveredUnits = UnitsBefore(log, i + 1)
      <4>1. UnitsUpTo(old, d, w.got) = UnitsBefore(log, i + 1)
        BY <2>3, <2>6, <2>10
      <4>2. C = slotCollected(old, UnitsBefore(log, i + 1))
        BY <3>1, <4>1
      <4>. HIDE DEF C
      <4>. QED
        BY <4>2 DEF slotCollected, NoCoverage, CoverageRecord, i
    <3>. HIDE DEF C
    <3>3. SlotDone(s, log[i + 1])
      <4>1. SlotDone(s, d)
        BY <2>6, <2>8, <2>10 DEF SlotDone
      <4>. QED
        BY <4>1 DEF d
    <3>4. \A j \in 1..(i + 1) : SlotDone(s, log[j])
      <4>1. \A j \in 1..(i + 1) : j \in 1..i \/ j = i + 1
        BY <1>3
      <4>. QED
        BY <2>9, <3>3, <4>1
    <3>5. i + 1 \in 0..Len(log) /\ k + 1 <= i + 1
      BY <1>1, <1>2, <1>3, <1>5, <2>2 DEF i
    <3>6. C.lastUpdateIndex < Len(log) =>
              /\ SlotBegun(s, log[C.lastUpdateIndex + 1], C)
              /\ C.coveredUnits = UnitsBefore(log, C.lastUpdateIndex)
                     + (C.lastUpdateRounds + C.lastPartialRoundNo) * log[C.lastUpdateIndex + 1].unitPerRound
      <4> SUFFICES ASSUME i + 1 < Len(log)
                   PROVE  /\ SlotBegun(s, log[(i + 1) + 1], C)
                          /\ UnitsBefore(log, i + 1) = UnitsBefore(log, i + 1) + (0 + 0) * log[(i + 1) + 1].unitPerRound
        BY <3>2
      <4>1. (i + 1) + 1 \in 1..Len(log) /\ DOMAIN log = 1..Len(log)
        BY <1>1, <3>5
      <4>2. log[(i + 1) + 1] \in Slots
        BY <1>1, <4>1
      <4>. DEFINE e == log[(i + 1) + 1]
      <4>3. e.rounds \in Nat \ {0} /\ e.unitPerRound \in Nat
        BY <4>2 DEF Slots
      <4>. HIDE DEF e
      <4>4. 0 < e.rounds /\ (0 + 0) * e.unitPerRound = 0
        BY <4>3
      <4>5. SlotBegun(s, e, C)
        BY <3>2, <4>4 DEF SlotBegun
      <4>6. UnitsBefore(log, i + 1) + 0 = UnitsBefore(log, i + 1)
        BY <1>1, <3>5, UnitsBeforeGrow
      <4>. QED
        BY <4>4, <4>5, <4>6 DEF e
    <3>7. CoveredAs(s, log, C)
      BY <3>2, <3>4, <3>5, <3>6 DEF CoveredAs
    <3>8. CollectGood(s, log, g, k + 1)
      BY <2>6, <3>1, <3>2, <3>5, <3>7 DEF CollectGood, C
    <3>. QED
      BY <3>8 DEF g
  <2>11. CASE w.got # d.rounds
    <3>. DEFINE C == g.covered
                p == PartialIn(s, w.n)
    <3>1. w.got < d.rounds
      <4>1. w.got \in Nat /\ w.got <= d.rounds
        BY <2>6
      <4>2. d.rounds \in Nat
        BY <2>3
      <4>. QED
        BY <2>11, <4>1, <4>2
    <3>2. C = StoppedAt(s, old, d, w) /\ g.done = TRUE
      BY <2>6, <3>1
    <3>3. p \in Nat
      BY DEF PartialIn, IsPart
    <3>4. UnitsUpTo(old, d, w.got) + p * u = B + (w.got + p) * u
      <4>. HIDE DEF p, u
      <4>1. B + w.got * u + p * u = B + (w.got + p) * u
        <5>1. B \in Int
          BY <2>3
        <5>2. u \in Nat /\ w.got \in Nat
          BY <2>3, <2>6 DEF u
        <5>. QED
          BY <3>3, <5>1, <5>2, PartAdds, Zenon
      <4>2. UnitsUpTo(old, d, w.got) = B + w.got * u
        BY <2>3, <2>6
      <4>. QED
        BY <4>1, <4>2
    <3>5. /\ DOMAIN C = CoverageRecord /\ C.lastUpdateIndex = i /\ C.lastUpdateBatchNo = w.n
          /\ C.lastUpdateRounds = w.got /\ C.lastPartialRoundNo = p
          /\ C.coveredUnits = B + (w.got + p) * u
      <4>. HIDE DEF C
      <4>. QED
        BY <3>2, <3>4 DEF StoppedAt, CoverageRecord, i
    <3>. HIDE DEF C, p
    <3>6. SlotBegun(s, d, C)
      BY <2>6, <2>8, <3>1, <3>5 DEF SlotBegun
    <3>7. SlotCovers(s, d, (w.got + p) * u)
      BY <2>6, <3>1 DEF SlotCovers, p
    <3>8. CoveredAs(s, log, C)
      BY <1>3, <2>2, <2>6, <2>9, <3>3, <3>5, <3>6 DEF CoveredAs, d, B
    <3>9. LogCovers(s, log, C.coveredUnits)
      BY <1>3, <2>2, <2>9, <3>5, <3>7 DEF LogCovers, d, B
    <3>10. CollectGood(s, log, g, k + 1)
      BY <2>6, <3>2, <3>8, <3>9 DEF CollectGood, C
    <3>. QED
      BY <3>10 DEF g
  <2>. QED
    BY <2>10, <2>11 DEF g
<1>. QED
  BY <1>4, <1>5

\* Nothing is covered of an empty log.
LEMMA NothingCovered ==
    ASSUME NEW s, NEW log \in Seq(Slots)
    PROVE  CoveredAs(s, log, NoCoverage) /\ (log = <<>> => LogCovers(s, log, NoCoverage.coveredUnits))
<1>1. /\ DOMAIN NoCoverage = CoverageRecord /\ NoCoverage.lastUpdateIndex = 0 /\ NoCoverage.lastUpdateRounds = 0
      /\ NoCoverage.lastPartialRoundNo = 0 /\ NoCoverage.coveredUnits = 0
  BY DEF NoCoverage, CoverageRecord
<1>2. UnitsBefore(log, 0) = 0 /\ Len(log) \in Nat /\ 0 \in 0..Len(log) /\ 1..0 = {}
  BY UnitsBeforeGrow
<1>3. ASSUME 0 < Len(log)
      PROVE  SlotBegun(s, log[0 + 1], NoCoverage) /\ 0 = 0 + (0 + 0) * log[0 + 1].unitPerRound
  <2>1. log[1] \in Slots
    BY <1>3
  <2>2. log[1].rounds \in Nat \ {0} /\ log[1].unitPerRound \in Nat
    BY <2>1 DEF Slots
  <2>3. 0 < log[1].rounds /\ (0 + 0) * log[1].unitPerRound = 0 /\ 0 + 1 = 1
    BY <2>2
  <2>. QED
    BY <1>1, <2>3 DEF SlotBegun
<1>4. CoveredAs(s, log, NoCoverage)
  BY <1>1, <1>2, <1>3 DEF CoveredAs
<1>5. ASSUME log = <<>> PROVE LogCovers(s, log, NoCoverage.coveredUnits)
  <2>1. Len(log) = 0
    BY <1>5
  <2>. QED
    BY <1>1, <1>2, <2>1 DEF LogCovers
<1>. QED
  BY <1>4, <1>5

\* The smaller of two numbers.
LEMMA MinOfTwo ==
    ASSUME NEW a \in Nat, NEW b \in Nat
    PROVE  Min({a, b}) \in Nat /\ (a = b => Min({a, b}) = b)
<1>1. PICK m \in {a, b} : \A x \in {a, b} : m <= x
  OBVIOUS
<1>2. Min({a, b}) \in {a, b}
  BY <1>1 DEF Min
<1>. QED
  BY <1>2

(***************************************************************************)
(* Collecting, as far as a loop limit lets it, never fails and leaves a    *)
(* record of what is covered; without a limit it comes to the end of the   *)
(* full batches.                                                           *)
(***************************************************************************)
LEMMA Collecting ==
    ASSUME NEW s, NEW pos, Placed(s, pos), IsPart(s.partial), NEW insured, NEW log, log = s.demands[insured],
           LogPlaced(pos, log), CoveredAs(s, log, s.covered[insured]), NEW limit \in Nat,
           NEW r, r = internalGetCoveredDemand(s, insured, limit)
    PROVE  /\ r.panic = FALSE /\ CoveredAs(s, log, r.covered)
           /\ limit = Len(log) + 1 => LogCovers(s, log, r.covered.coveredUnits)
<1>. DEFINE start == collectStart(s, insured)
            n == Min({limit, Len(log) + 1})
<1>1. log \in Seq(Slots) /\ Len(log) \in Nat /\ Len(log) + 1 \in Nat
  BY DEF LogPlaced
<1>2. CASE log = <<>>
  <2>1. r = [start EXCEPT !.covered = NoCoverage, !.done = TRUE]
    BY <1>2 DEF internalGetCoveredDemand, collectStart
  <2>2. r.covered = NoCoverage /\ r.panic = FALSE
    BY <2>1 DEF collectStart
  <2>. QED
    BY <1>1, <1>2, <2>2, NothingCovered
<1>3. CASE log # <<>>
  <2>1. n \in Nat /\ (limit = Len(log) + 1 => n = Len(log) + 1)
    BY <1>1, MinOfTwo
  <2>2. PICK it : CollectFrames("slots", s, log, it, start, n) /\ r = it[n]
    BY <1>3, <2>1, SlotsRun
  <2>. HIDE DEF n
  <2>3. \A k \in 0..n : it[k] = IF k = 0 THEN start ELSE collectTurn(s, log, it[k - 1])
    BY <2>2 DEF CollectFrames, CollectStep
  <2>. DEFINE G == {k \in 0..n : CollectGood(s, log, it[k], k)}
  <2>4. 0 \in G
    <3>1. it[0] = start /\ 0 \in 0..n
      BY <2>1, <2>3
    <3>2. /\ DOMAIN start = CollectFields /\ start.panic = FALSE /\ start.done = FALSE
          /\ start.covered = s.covered[insured]
      BY DEF collectStart, CollectFields
    <3>. HIDE DEF start
    <3>3. 0 <= start.covered.lastUpdateIndex
      <4>1. \A x \in 0..Len(log) : 0 <= x
        BY <1>1
      <4>. QED
        BY <3>2, <4>1 DEF CoveredAs
    <3>4. CollectGood(s, log, start, 0)
      BY <3>2, <3>3 DEF CollectGood
    <3>. QED
      BY <3>1, <3>4
  <2>. HIDE DEF start
  <2>5. ASSUME NEW k \in 0..(n - 1), k \in G PROVE k + 1 \in G
    <3>1. k \in Nat /\ k + 1 \in 0..n /\ k + 1 # 0 /\ (k + 1) - 1 = k /\ CollectGood(s, log, it[k], k)
      BY <2>1, <2>5
    <3>2. it[k + 1] = collectTurn(s, log, it[k])
      BY <2>3, <3>1
    <3>3. CollectGood(s, log, it[k + 1], k + 1)
      BY <3>1, <3>2, SlotTurn
    <3>. QED
      BY <3>1, <3>3
  <2>6. n \in G
    <3>. HIDE DEF G
    <3>1. 0..n \subseteq G
      BY <2>1, <2>4, <2>5, UpToInduction
    <3>. QED
      BY <2>1, <3>1
  <2>7. CollectGood(s, log, r, n)
    BY <2>2, <2>6
  <2>8. r.panic = FALSE /\ CoveredAs(s, log, r.covered)
    BY <2>7 DEF CollectGood
  <2>9. ASSUME limit = Len(log) + 1 PROVE LogCovers(s, log, r.covered.coveredUnits)
    <3>1. r.covered.lastUpdateIndex \in 0..Len(log)
      BY <2>8 DEF CoveredAs
    <3>2. ~(n <= r.covered.lastUpdateIndex)
      BY <1>1, <2>1, <2>9, <3>1
    <3>. QED
      BY <2>7, <3>2 DEF CollectGood
  <2>. QED
    BY <2>8, <2>9
<1>. QED
  BY <1>2, <1>3

-----------------------------------------------------------------------------
(* More coverage is found where full batches stay and the partial one goes *)
(* on.                                                                     *)

LogGrows(log, more) ==
    /\ log \in Seq(Slots) /\ more \in Seq(Slots) /\ Len(log) <= Len(more)
    /\ \A k \in 1..Len(log) : more[k] = log[k]

(* The full rounds of the partial batch are still there: the batch is full or still partial. *)
Advanced(s, t) ==
    LET n == s.partial.batchNo
    IN  \/ s.partial.roundNo = 0
        \/ FullAt(t, n) /\ s.partial.roundNo <= RoundsAt(t, n)
        \/ t.partial.batchNo = n /\ s.partial.roundNo <= t.partial.roundNo

PartInBatch(s) == IsPart(s.partial) /\ s.partial.roundNo <= RoundsAt(s, s.partial.batchNo)

\* The rounds that are covered are in the slot.
LEMMA StoppedWithin ==
    ASSUME NEW s, NEW pos, Placed(s, pos), PartInBatch(s), NEW d \in Slots, SlotPlaced(pos, d),
           NEW w, Walked(s, d, w), w.got < d.rounds
    PROVE  /\ w.got \in Nat /\ PartialIn(s, w.n) \in Nat /\ d.rounds \in Nat
           /\ w.got + PartialIn(s, w.n) <= d.rounds
<1>1. w \in OnWalk(pos, d) /\ d.rounds \in Nat
  BY WalkStays DEF Slots
<1>2. w.got \in Nat
  BY <1>1 DEF OnWalk
<1>3. RoundsAt(s, w.n) \in Nat /\ w.got + RoundsAt(s, w.n) <= d.rounds
  BY <1>1, WalkMoves
<1>4. PartialIn(s, w.n) \in Nat /\ PartialIn(s, w.n) <= RoundsAt(s, w.n)
  BY <1>3 DEF PartialIn, PartInBatch, IsPart
<1>. QED
  BY <1>1, <1>2, <1>3, <1>4

\* The walk through a slot stops no earlier than before.
LEMMA SlotGrows ==
    ASSUME NEW s, NEW pos, Placed(s, pos), PartInBatch(s), NEW d \in Slots, SlotPlaced(pos, d),
           NEW t, NEW qos, Placed(t, qos), PartInBatch(t), SlotPlaced(qos, d), Frozen(s, t), Advanced(s, t),
           NEW w, Walked(s, d, w), w.got < d.rounds, NEW v, Walked(t, d, v), WalkStops(t, d, v)
    PROVE  /\ v.got \in Nat /\ w.got <= v.got
           /\ w.got + PartialIn(s, w.n) <= v.got + PartialIn(t, v.n)
<1>1. Walked(t, d, w)
  BY WalkedFrozen
<1>2. w \in OnWalk(qos, d) /\ v \in OnWalk(qos, d)
  BY <1>1, WalkStays
<1>3. w.got \in Nat /\ v.got \in Nat /\ d.rounds \in Nat
  BY <1>2 DEF OnWalk, Slots
<1>4. w.got <= v.got /\ (w.got = v.got => w = v)
  BY <1>1, <1>2, WalkOrder
<1>5. /\ s.partial.roundNo \in Nat /\ t.partial.roundNo \in Nat
      /\ t.partial.roundNo <= RoundsAt(t, t.partial.batchNo)
  BY DEF PartInBatch, IsPart
<1>6. PartialIn(t, v.n) \in Nat
  BY <1>5 DEF PartialIn
<1>7. CASE WalkStops(t, d, w)
  <2>1. v = w
    <3>1. v.got <= w.got
      BY <1>2, <1>7, WalkOrder
    <3>. QED
      BY <1>3, <1>4, <3>1
  <2>2. ~FullAt(t, w.n)
    BY <1>3, <1>7 DEF WalkStops
  <2>3. PartialIn(s, w.n) <= PartialIn(t, w.n)
    BY <1>5, <1>6, <2>1, <2>2 DEF PartialIn, Advanced
  <2>4. PartialIn(s, w.n) \in Nat
    BY <1>5 DEF PartialIn
  <2>. QED
    BY <1>3, <1>4, <1>6, <2>1, <2>3, <2>4
<1>8. CASE ~WalkStops(t, d, w)
  <2>. DEFINE R == RoundsAt(t, w.n)
              x == WalkStep(t, d, w)
  <2>1. x.got = w.got + R
    BY <1>8 DEF WalkStep
  <2>2. Walked(t, d, x)
    BY <1>1, WalkedOn
  <2>3. x.got <= v.got
    BY <1>2, <2>2, WalkOrder
  <2>4. R \in Nat
    BY <1>2, WalkMoves
  <2>5. PartialIn(s, w.n) \in Nat /\ PartialIn(s, w.n) <= R
    BY <1>5, <2>4 DEF PartialIn, Advanced
  <2>. HIDE DEF R, x
  <2>. QED
    BY <1>3, <1>4, <1>6, <2>1, <2>3, <2>4, <2>5
<1>. QED
  BY <1>7, <1>8

\* The units of more slots are more.
LEMMA UnitsBeforeMonotone ==
    ASSUME NEW log \in Seq(Slots), NEW k \in 0..Len(log), NEW m \in k..Len(log)
    PROVE  UnitsBefore(log, k) <= UnitsBefore(log, m)
<1>. DEFINE n == Len(log) - k
            G == {j \in 0..n : UnitsBefore(log, k) <= UnitsBefore(log, k + j)}
<1>1. Len(log) \in Nat /\ n \in Nat /\ k \in Nat /\ DOMAIN log = 1..Len(log) /\ \A j \in 1..Len(log) : log[j] \in Slots
  OBVIOUS
<1>2. /\ \A j \in 0..Len(log) : UnitsBefore(log, j) \in Nat
      /\ \A j \in 0..(Len(log) - 1) : UnitsBefore(log, j + 1) = UnitsBefore(log, j) + UnitsIn(log[j + 1])
  BY UnitsBeforeGrow
<1>3. 0 \in G
  <2>1. k + 0 = k /\ 0 \in 0..n
    BY <1>1
  <2>. QED
    BY <1>2, <2>1
<1>4. ASSUME NEW j \in 0..(n - 1), j \in G PROVE j + 1 \in G
  <2>1. /\ k + j \in 0..(Len(log) - 1) /\ k + j \in 0..Len(log) /\ (k + j) + 1 \in 1..Len(log)
        /\ k + (j + 1) = (k + j) + 1 /\ j + 1 \in 0..n /\ (k + j) + 1 \in 0..Len(log)
    BY <1>1
  <2>. DEFINE d == log[(k + j) + 1]
  <2>2. d \in Slots
    BY <1>1, <2>1
  <2>3. UnitsIn(d) \in Nat
    <3>1. d.rounds \in Nat /\ d.unitPerRound \in Nat
      BY <2>2 DEF Slots
    <3>2. \A a \in Nat, b \in Nat : a * b \in Nat
      OBVIOUS
    <3>. QED
      BY <3>1, <3>2 DEF UnitsIn
  <2>4. UnitsBefore(log, (k + j) + 1) = UnitsBefore(log, k + j) + UnitsIn(d)
    BY <1>2, <2>1
  <2>5. UnitsBefore(log, k) <= UnitsBefore(log, k + j) /\ UnitsBefore(log, k) \in Nat /\ UnitsBefore(log, k + j) \in Nat
    BY <1>2, <1>4, <2>1
  <2>. HIDE DEF d
  <2>6. UnitsBefore(log, k) <= UnitsBefore(log, k + (j + 1))
    BY <2>1, <2>3, <2>4, <2>5
  <2>. QED
    BY <2>1, <2>6
<1>5. m - k \in 0..n /\ k + (m - k) = m
  BY <1>1
<1>6. m - k \in G
  <2>. HIDE DEF G, n
  <2>1. 0..n \subseteq G
    BY <1>1, <1>3, <1>4, UpToInduction
  <2>. QED
    BY <1>5, <2>1
<1>. QED
  BY <1>5, <1>6

\* The first slots of a log that grows are the same.
LEMMA UnitsBeforeSame ==
    ASSUME NEW log, NEW more, LogGrows(log, more), NEW k \in 0..Len(log)
    PROVE  UnitsBefore(more, k) = UnitsBefore(log, k) /\ k \in 0..Len(more)
<1>1. Len(log) \in Nat /\ Len(more) \in Nat /\ Len(log) <= Len(more)
  BY DEF LogGrows
<1>2. \A j \in 1..k : more[j] = log[j]
  BY <1>1 DEF LogGrows
<1>3. [j \in 1..k |-> UnitsIn(more[j])] = [j \in 1..k |-> UnitsIn(log[j])]
  BY <1>2
<1>. QED
  BY <1>1, <1>3 DEF UnitsBefore

\* What is covered of a slot that is not done.
LEMMA SlotCoversWithin ==
    ASSUME NEW s, NEW pos, Placed(s, pos), PartInBatch(s), NEW d \in Slots, SlotPlaced(pos, d),
           NEW y, SlotCovers(s, d, y)
    PROVE  y \in Nat /\ y <= UnitsIn(d)
<1>1. PICK w : Walked(s, d, w) /\ w.got < d.rounds /\ y = (w.got + PartialIn(s, w.n)) * d.unitPerRound
  BY DEF SlotCovers
<1>. DEFINE a == w.got + PartialIn(s, w.n)
            r == d.rounds
            u == d.unitPerRound
<1>2. a \in Nat /\ a <= r /\ r \in Nat /\ u \in Nat
  BY <1>1, StoppedWithin DEF Slots
<1>3. y = a * u /\ UnitsIn(d) = r * u
  BY <1>1 DEF UnitsIn
<1>. HIDE DEF a, r, u
<1>4. u * a <= u * r /\ u * a \in Nat /\ a * u = u * a /\ r * u = u * r
  BY <1>2, MulMonotone
<1>. QED
  BY <1>3, <1>4

\* A number below a length, and the next one.
LEMMA NextWithin ==
    ASSUME NEW n \in Nat, NEW k \in 0..n, k # n
    PROVE  k < n /\ k \in 0..(n - 1) /\ k + 1 \in 0..n /\ k + 1 \in 1..n /\ n \in (k + 1)..n
OBVIOUS

\* What is covered is not more than the log asks for.
LEMMA CoversWithin ==
    ASSUME NEW s, NEW pos, Placed(s, pos), PartInBatch(s), NEW log, LogPlaced(pos, log),
           NEW x, LogCovers(s, log, x)
    PROVE  x \in Nat /\ x <= LogUnits(log)
<1>1. log \in Seq(Slots) /\ Len(log) \in Nat /\ DOMAIN log = 1..Len(log) /\ \A j \in DOMAIN log : SlotPlaced(pos, log[j])
  BY DEF LogPlaced
<1>2. PICK k \in 0..Len(log) :
         /\ k = Len(log) => x = UnitsBefore(log, k)
         /\ k < Len(log) => \E y : SlotCovers(s, log[k + 1], y) /\ x = UnitsBefore(log, k) + y
  BY DEF LogCovers
<1>3. /\ UnitsBefore(log, 0) = 0
      /\ \A j \in 0..Len(log) : UnitsBefore(log, j) \in Nat
      /\ \A j \in 0..(Len(log) - 1) : UnitsBefore(log, j + 1) = UnitsBefore(log, j) + UnitsIn(log[j + 1])
      /\ UnitsBefore(log, Len(log)) = LogUnits(log)
  BY <1>1, UnitsBeforeGrow
<1>4. CASE k = Len(log)
  <2>1. x = UnitsBefore(log, k) /\ UnitsBefore(log, k) = LogUnits(log)
    BY <1>2, <1>3, <1>4
  <2>2. UnitsBefore(log, k) \in Nat
    BY <1>3
  <2>. QED
    BY <2>1, <2>2
<1>5. CASE k # Len(log)
  <2>1. k < Len(log) /\ k \in 0..(Len(log) - 1) /\ k + 1 \in 0..Len(log) /\ k + 1 \in DOMAIN log /\ Len(log) \in (k + 1)..Len(log)
    <3>1. Len(log) \in Nat /\ DOMAIN log = 1..Len(log)
      BY <1>1
    <3>. QED
      BY <1>5, <3>1, NextWithin
  <2>. DEFINE d == log[k + 1]
  <2>2. d \in Slots /\ SlotPlaced(pos, d)
    BY <1>1, <2>1
  <2>3. PICK y : SlotCovers(s, d, y) /\ x = UnitsBefore(log, k) + y
    BY <1>2, <2>1
  <2>4. y \in Nat /\ y <= UnitsIn(d)
    BY <2>2, <2>3, SlotCoversWithin
  <2>5. UnitsIn(d) \in Nat
    <3>1. d.rounds \in Nat /\ d.unitPerRound \in Nat
      BY <2>2 DEF Slots
    <3>2. \A a \in Nat, b \in Nat : a * b \in Nat
      OBVIOUS
    <3>. QED
      BY <3>1, <3>2 DEF UnitsIn
  <2>6. UnitsBefore(log, k + 1) <= UnitsBefore(log, Len(log))
    BY <1>1, <2>1, UnitsBeforeMonotone
  <2>7. UnitsBefore(log, k + 1) = UnitsBefore(log, k) + UnitsIn(d)
    BY <1>3, <2>1
  <2>8. UnitsBefore(log, k) \in Nat /\ UnitsBefore(log, k + 1) \in Nat /\ UnitsBefore(log, Len(log)) \in Nat
    BY <1>1, <1>3, <2>1
  <2>. HIDE DEF d
  <2>. QED
    BY <1>3, <2>3, <2>4, <2>5, <2>6, <2>7, <2>8
<1>. QED
  BY <1>4, <1>5

\* A slot that is done stays done.
LEMMA DoneStays ==
    ASSUME NEW s, NEW pos, Placed(s, pos), NEW d \in Slots, SlotPlaced(pos, d),
           NEW t, Frozen(s, t), SlotDone(s, d)
    PROVE  SlotDone(t, d)
  BY WalkedFrozen DEF SlotDone

\* The walk through a slot that is done does not stop within it.
LEMMA DoneHasNoRest ==
    ASSUME NEW s, NEW pos, Placed(s, pos), NEW d \in Slots, SlotPlaced(pos, d), SlotDone(s, d), NEW y
    PROVE  ~SlotCovers(s, d, y)
<1> SUFFICES ASSUME SlotCovers(s, d, y) PROVE FALSE
  OBVIOUS
<1>1. PICK w : Walked(s, d, w) /\ WalkStops(s, d, w) /\ w.got < d.rounds
  BY DEF SlotCovers
<1>2. PICK n : Walked(s, d, [n |-> n, got |-> d.rounds])
  BY DEF SlotDone
<1>3. w \in OnWalk(pos, d)
  BY <1>1, WalkStays
<1>4. d.rounds <= w.got
  BY <1>1, <1>2, <1>3, WalkOrder
<1>5. w.got \in Nat /\ d.rounds \in Nat
  BY <1>3 DEF OnWalk, Slots
<1>. QED
  BY <1>1, <1>4, <1>5

\* More of the same slot is covered.
LEMMA SlotCoversMore ==
    ASSUME NEW s, NEW pos, Placed(s, pos), PartInBatch(s), NEW d \in Slots, SlotPlaced(pos, d),
           NEW t, NEW qos, Placed(t, qos), PartInBatch(t), SlotPlaced(qos, d), Frozen(s, t), Advanced(s, t),
           NEW x, SlotCovers(s, d, x), NEW y, SlotCovers(t, d, y)
    PROVE  x <= y
<1>1. PICK w : Walked(s, d, w) /\ w.got < d.rounds /\ x = (w.got + PartialIn(s, w.n)) * d.unitPerRound
  BY DEF SlotCovers
<1>2. PICK v : /\ Walked(t, d, v) /\ WalkStops(t, d, v) /\ v.got < d.rounds
               /\ y = (v.got + PartialIn(t, v.n)) * d.unitPerRound
  BY DEF SlotCovers
<1>. DEFINE a == w.got + PartialIn(s, w.n)
            b == v.got + PartialIn(t, v.n)
            u == d.unitPerRound
<1>3. a <= b
  BY <1>1, <1>2, SlotGrows
<1>4. a \in Nat /\ b \in Nat /\ u \in Nat
  <2>1. a \in Nat
    BY <1>1, StoppedWithin
  <2>2. b \in Nat
    BY <1>2, StoppedWithin
  <2>. QED
    BY <2>1, <2>2 DEF Slots
<1>5. x = a * u /\ y = b * u
  BY <1>1, <1>2
<1>. HIDE DEF a, b, u
<1>6. u * a <= u * b /\ a * u = u * a /\ b * u = u * b
  BY <1>3, <1>4, MulMonotone
<1>. QED
  BY <1>5, <1>6

(***************************************************************************)
(* The coverage of a log does not get less, whatever is added, closed or   *)
(* split behind its full batches.                                          *)
(***************************************************************************)
LEMMA CoversGrow ==
    ASSUME NEW s, NEW pos, Placed(s, pos), PartInBatch(s), NEW log, LogPlaced(pos, log),
           NEW t, NEW qos, Placed(t, qos), PartInBatch(t), NEW more, LogPlaced(qos, more),
           Frozen(s, t), Advanced(s, t), LogGrows(log, more),
           NEW x, LogCovers(s, log, x), NEW y, LogCovers(t, more, y)
    PROVE  x <= y
<1>1. /\ log \in Seq(Slots) /\ Len(log) \in Nat /\ DOMAIN log = 1..Len(log)
      /\ more \in Seq(Slots) /\ Len(more) \in Nat /\ DOMAIN more = 1..Len(more) /\ Len(log) <= Len(more)
      /\ \A j \in 1..Len(log) : j \in 1..Len(more) /\ more[j] = log[j]
      /\ \A j \in 1..Len(log) : log[j] \in Slots /\ SlotPlaced(pos, log[j])
      /\ \A j \in 1..Len(more) : more[j] \in Slots /\ SlotPlaced(qos, more[j])
  BY DEF LogPlaced, LogGrows
<1>2. PICK k \in 0..Len(log) :
         /\ \A j \in 1..k : SlotDone(s, log[j])
         /\ k = Len(log) => x = UnitsBefore(log, k)
         /\ k < Len(log) => \E e : SlotCovers(s, log[k + 1], e) /\ x = UnitsBefore(log, k) + e
  BY DEF LogCovers
<1>3. PICK m \in 0..Len(more) :
         /\ \A j \in 1..m : SlotDone(t, more[j])
         /\ m = Len(more) => y = UnitsBefore(more, m)
         /\ m < Len(more) => \E e : SlotCovers(t, more[m + 1], e) /\ y = UnitsBefore(more, m) + e
  BY DEF LogCovers
<1>4. /\ \A j \in 0..Len(more) : UnitsBefore(more, j) \in Nat
      /\ \A j \in 0..(Len(more) - 1) : UnitsBefore(more, j + 1) = UnitsBefore(more, j) + UnitsIn(more[j + 1])
  BY <1>1, UnitsBeforeGrow
<1>5. UnitsBefore(more, k) = UnitsBefore(log, k) /\ k \in 0..Len(more)
  BY UnitsBeforeSame
<1>6. k <= m
  <2> SUFFICES ASSUME ~(k <= m) PROVE FALSE
    OBVIOUS
  <2>1. m + 1 \in 1..k /\ m + 1 \in 1..Len(log) /\ m < Len(more)
    BY <1>1
  <2>2. PICK e : SlotCovers(t, more[m + 1], e)
    BY <1>3, <2>1
  <2>3. SlotDone(t, log[m + 1])
    BY <1>1, <1>2, <2>1, DoneStays
  <2>4. more[m + 1] = log[m + 1] /\ m + 1 \in 1..Len(more)
    BY <1>1, <2>1
  <2>5. ~SlotCovers(t, more[m + 1], e)
    BY <1>1, <2>3, <2>4, DoneHasNoRest
  <2>. QED
    BY <2>2, <2>5
<1>7. UnitsBefore(more, m) <= y
  <2>1. UnitsBefore(more, m) \in Nat
    BY <1>4
  <2>2. CASE m = Len(more)
    <3>1. y = UnitsBefore(more, m)
      BY <1>3, <2>2
    <3>. QED
      BY <2>1, <3>1
  <2>3. CASE m # Len(more)
    <3>1. m < Len(more) /\ m + 1 \in 1..Len(more)
      <4>1. Len(more) \in Nat
        BY <1>1
      <4>. QED
        BY <2>3, <4>1, NextWithin
    <3>2. PICK e : SlotCovers(t, more[m + 1], e) /\ y = UnitsBefore(more, m) + e
      BY <1>3, <3>1
    <3>3. e \in Nat
      BY <1>1, <3>1, <3>2, SlotCoversWithin
    <3>. QED
      BY <2>1, <3>2, <3>3
  <2>. QED
    BY <2>2, <2>3
<1>8. UnitsBefore(more, k) \in Nat /\ UnitsBefore(more, m) \in Nat /\ y \in Int
  <2>1. LogUnits(more) = LogUnits(more) /\ y \in Nat
    BY CoversWithin
  <2>. QED
    BY <1>4, <1>5, <2>1
<1>9. CASE k = Len(log)
  <2>1. m \in k..Len(more)
    BY <1>6
  <2>2. UnitsBefore(more, k) <= UnitsBefore(more, m)
    BY <1>1, <1>5, <2>1, UnitsBeforeMonotone
  <2>3. x = UnitsBefore(more, k)
    BY <1>2, <1>5, <1>9
  <2>. HIDE DEF UnitsBefore
  <2>. QED
    BY <1>7, <1>8, <2>2, <2>3
<1>10. CASE k # Len(log)
  <2>1. k < Len(log) /\ k + 1 \in 1..Len(log) /\ k \in 0..(Len(more) - 1) /\ k + 1 \in 0..Len(more)
    <3>1. Len(log) \in Nat /\ Len(more) \in Nat /\ Len(log) <= Len(more)
      BY <1>1
    <3>2. k < Len(log) /\ k + 1 \in 1..Len(log)
      BY <1>10, <3>1, NextWithin
    <3>3. \A a \in Nat, b \in Nat, j \in Nat : a <= b /\ j < a => j \in 0..(b - 1) /\ j + 1 \in 0..b
      OBVIOUS
    <3>4. k \in Nat
      BY <3>1
    <3>. QED
      BY <3>1, <3>2, <3>3, <3>4
  <2>. DEFINE d == log[k + 1]
  <2>2. d \in Slots /\ SlotPlaced(pos, d) /\ SlotPlaced(qos, d) /\ more[k + 1] = d
    BY <1>1, <2>1
  <2>3. PICK e : SlotCovers(s, d, e) /\ x = UnitsBefore(log, k) + e
    BY <1>2, <2>1
  <2>. HIDE DEF d
  <2>4. e \in Nat /\ e <= UnitsIn(d)
    BY <2>2, <2>3, SlotCoversWithin
  <2>5. CASE k = m
    <3>1. m < Len(more)
      BY <1>1, <2>1, <2>5
    <3>2. PICK h : SlotCovers(t, d, h) /\ y = UnitsBefore(more, k) + h
      BY <1>3, <2>2, <2>5, <3>1
    <3>3. h \in Nat
      BY <2>2, <3>2, SlotCoversWithin
    <3>4. e <= h
      BY <2>2, <2>3, <3>2, SlotCoversMore
    <3>. QED
      BY <1>5, <1>8, <2>3, <2>4, <3>2, <3>3, <3>4
  <2>6. CASE k # m
    <3>1. m \in (k + 1)..Len(more)
      BY <1>6, <2>6
    <3>2. UnitsBefore(more, k + 1) <= UnitsBefore(more, m)
      BY <1>1, <2>1, <3>1, UnitsBeforeMonotone
    <3>3. UnitsBefore(more, k + 1) = UnitsBefore(more, k) + UnitsIn(d) /\ UnitsBefore(more, k + 1) \in Nat
      BY <1>4, <2>1, <2>2
    <3>4. UnitsIn(d) \in Nat
      <4>1. d.rounds \in Nat /\ d.unitPerRound \in Nat
        BY <2>2 DEF Slots
      <4>2. \A a \in Nat, b \in Nat : a * b \in Nat
        OBVIOUS
      <4>. QED
        BY <4>1, <4>2 DEF UnitsIn
    <3>. QED
      BY <1>5, <1>7, <1>8, <2>3, <2>4, <3>2, <3>3, <3>4
  <2>. QED
    BY <2>5, <2>6
<1>. QED
  BY <1>9, <1>10

\* What was collected is still recorded rightly when the log grows.
LEMMA CoveredMoves ==
    ASSUME NEW s, NEW pos, Placed(s, pos), NEW log, LogPlaced(pos, log), NEW t, Frozen(s, t),
           NEW more, LogGrows(log, more), NEW c, CoveredAs(s, log, c)
    PROVE  CoveredAs(t, more, c)
<1>. DEFINE i == c.lastUpdateIndex
            n == Len(log)
<1>1. /\ log \in Seq(Slots) /\ n \in Nat /\ DOMAIN log = 1..n
      /\ more \in Seq(Slots) /\ Len(more) \in Nat /\ n <= Len(more)
      /\ \A j \in 1..n : more[j] = log[j]
      /\ \A j \in 1..n : log[j] \in Slots /\ SlotPlaced(pos, log[j])
  BY DEF LogPlaced, LogGrows
<1>2. /\ DOMAIN c = CoverageRecord /\ i \in 0..n /\ c.lastUpdateRounds \in Nat /\ c.lastPartialRoundNo \in Nat
      /\ \A k \in 1..i : SlotDone(s, log[k])
      /\ i = n => c.lastUpdateRounds = 0 /\ c.lastPartialRoundNo = 0 /\ c.coveredUnits = UnitsBefore(log, i)
      /\ i < n => /\ SlotBegun(s, log[i + 1], c)
                  /\ c.coveredUnits = UnitsBefore(log, i)
                         + (c.lastUpdateRounds + c.lastPartialRoundNo) * log[i + 1].unitPerRound
  BY DEF CoveredAs
<1>3. UnitsBefore(more, i) = UnitsBefore(log, i) /\ i \in 0..Len(more) /\ UnitsBefore(more, i) \in Nat
  <2>1. UnitsBefore(more, i) = UnitsBefore(log, i) /\ i \in 0..Len(more)
    BY <1>2, UnitsBeforeSame
  <2>. QED
    BY <1>1, <2>1, UnitsBeforeGrow
<1>4. \A k \in 1..i : SlotDone(t, more[k])
  <2> SUFFICES ASSUME NEW k \in 1..i PROVE SlotDone(t, more[k])
    OBVIOUS
  <2>1. k \in 1..n
    BY <1>1, <1>2
  <2>. QED
    BY <1>1, <1>2, <2>1, DoneStays
<1>. HIDE DEF i, n
<1>5. CASE i < n
  <2>1. i + 1 \in 1..n /\ i < Len(more) /\ i # Len(more)
    BY <1>1, <1>2, <1>5
  <2>2. more[i + 1] = log[i + 1] /\ log[i + 1] \in Slots /\ SlotPlaced(pos, log[i + 1])
    BY <1>1, <2>1
  <2>3. SlotBegun(t, more[i + 1], c)
    BY <1>2, <1>5, <2>2, WalkedFrozen DEF SlotBegun
  <2>. QED
    BY <1>2, <1>3, <1>4, <1>5, <2>1, <2>2, <2>3 DEF CoveredAs, i
<1>6. CASE ~(i < n)
  <2>1. i = n
    BY <1>1, <1>2, <1>6
  <2>2. ASSUME i < Len(more)
        PROVE  /\ SlotBegun(t, more[i + 1], c)
               /\ c.coveredUnits = UnitsBefore(more, i)
                      + (c.lastUpdateRounds + c.lastPartialRoundNo) * more[i + 1].unitPerRound
    <3>1. i + 1 \in 1..Len(more)
      BY <1>1, <1>3, <2>2
    <3>. DEFINE d == more[i + 1]
    <3>2. d \in Slots
      BY <1>1, <3>1
    <3>3. d.rounds \in Nat \ {0} /\ d.unitPerRound \in Nat
      BY <3>2 DEF Slots
    <3>. HIDE DEF d
    <3>4. 0 < d.rounds /\ (0 + 0) * d.unitPerRound = 0
      BY <3>3
    <3>5. SlotBegun(t, d, c)
      BY <1>2, <2>1, <3>4 DEF SlotBegun
    <3>6. UnitsBefore(more, i) + 0 = UnitsBefore(more, i)
      BY <1>3
    <3>. QED
      BY <1>2, <1>3, <2>1, <3>4, <3>5, <3>6 DEF d
  <2>. QED
    BY <1>2, <1>3, <1>4, <2>1, <2>2 DEF CoveredAs, i
<1>. QED
  BY <1>5, <1>6

-----------------------------------------------------------------------------
(* Adding demand takes nothing from the logs, the partial batch or what    *)
(* was collected.                                                          *)

(* Every batch has its time mark. *)
MarksOK(s) == s.batchCount \in Nat /\ DOMAIN s.marks = 1..s.batchCount

(* Time marks are only added, with their batches, and no premium is written. *)
MarksMore(s, t) ==
    /\ t.premiums = s.premiums
    /\ MarksOK(s) => /\ MarksOK(t) /\ s.batchCount <= t.batchCount
                     /\ \A n \in 1..s.batchCount : t.marks[n] = s.marks[n]

(* The time marks of the full batches are kept. *)
MarksOn(s, t) ==
    MarksOK(s) => MarksOK(t) /\ \A n \in 1..s.batchCount : FullAt(s, n) => t.marks[n] = s.marks[n]

\* Time marks that are added stay.
LEMMA MarksAdd ==
    /\ \A s : MarksMore(s, s)
    /\ \A s, t, u : MarksMore(s, t) /\ MarksMore(t, u) => MarksMore(s, u)
    /\ \A s, t : MarksMore(s, t) => MarksOn(s, t)
<1>1. \A s : MarksMore(s, s)
  BY DEF MarksMore, MarksOK
<1>2. ASSUME NEW s, NEW t, NEW u, MarksMore(s, t), MarksMore(t, u) PROVE MarksMore(s, u)
  BY <1>2 DEF MarksMore, MarksOK
<1>3. \A s, t : MarksMore(s, t) => MarksOn(s, t)
  BY DEF MarksMore, MarksOn
<1>. QED
  BY <1>1, <1>2, <1>3

RestKept(s, t) ==
    IsStore(t) /\ t.partial = s.partial /\ t.covered = s.covered /\ t.demands = s.demands /\ MarksMore(s, t)

LogPrefix(log, more) ==
    \E S : /\ log \in Seq(S) /\ more \in Seq(S) /\ Len(log) <= Len(more)
           /\ \A k \in 1..Len(log) : more[k] = log[k]

(* The frame f for the insured, which began with the store s and this log. *)
FrameRest(s, log, insured, f) ==
    IsDemandFrame(f) /\ RestKept(s, f.s) /\ LogPrefix(log, f.log) /\ f.insured = insured

\* A batch is written beside them.
LEMMA RestPut ==
    ASSUME NEW s, NEW t, RestKept(s, t), NEW n, NEW b
    PROVE  RestKept(s, PutBatch(t, n, b)) /\ PutBatch(t, n, b).batchCount = t.batchCount
<1>. DEFINE q == Put(t.batches, n, b)
<1>1. PutBatch(t, n, b) = [t EXCEPT !.batches = q]
  BY DEF PutBatch
<1>. HIDE DEF q
<1>. QED
  BY <1>1 DEF RestKept, IsStore, StoreFields, MarksMore, MarksOK

\* So is a new batch number with its time mark.
LEMMA RestMarked ==
    ASSUME NEW s, NEW t, RestKept(s, t), NEW n, n = t.batchCount + 1, NEW last
    PROVE  RestKept(s, [initTimeMark(t, n) EXCEPT !.batchCount = n, !.latestBatchNo = last])
<1>. DEFINE mark == [coverageTW |-> 0, timestamp |-> NO_TIMESTAMP]
            added == Put(t.marks, n, mark)
            u == [initTimeMark(t, n) EXCEPT !.batchCount = n, !.latestBatchNo = last]
<1>1. DOMAIN added = DOMAIN t.marks \cup {n} /\ \A k \in DOMAIN t.marks : k # n => added[k] = t.marks[k]
  BY DEF Put
<1>. HIDE DEF mark, added
<1>2. IsStore(t)
  BY DEF RestKept
<1>3. /\ IsStore(u) /\ u.partial = t.partial /\ u.covered = t.covered /\ u.demands = t.demands /\ u.premiums = t.premiums
      /\ u.batchCount = n /\ u.marks = added
  BY <1>2 DEF IsStore, StoreFields, initTimeMark, added, mark
<1>. HIDE DEF u
<1>4. MarksMore(t, u)
  <2> SUFFICES ASSUME MarksOK(t)
               PROVE  MarksOK(u) /\ t.batchCount <= u.batchCount /\ \A k \in 1..t.batchCount : u.marks[k] = t.marks[k]
    BY <1>3 DEF MarksMore
  <2>1. t.batchCount \in Nat /\ DOMAIN t.marks = 1..t.batchCount
    BY DEF MarksOK
  <2>2. n \in Nat /\ t.batchCount <= n /\ (1..t.batchCount) \cup {n} = 1..n /\ n \notin 1..t.batchCount
    BY <2>1
  <2>3. DOMAIN u.marks = 1..n /\ \A k \in 1..t.batchCount : u.marks[k] = t.marks[k]
    BY <1>1, <1>3, <2>1, <2>2
  <2>. QED
    BY <1>3, <2>2, <2>3 DEF MarksOK
<1>5. MarksMore(s, u)
  BY <1>4, MarksAdd DEF RestKept
<1>. QED
  BY <1>3, <1>5 DEF RestKept, u

\* A batch is split beside them.
LEMMA RestSplit ==
    ASSUME NEW s, NEW t, RestKept(s, t), NEW remaining, NEW b
    PROVE  RestKept(s, splitBatch(t, remaining, b).s)
<1>. DEFINE n == t.batchCount + 1
            moved == MovedRounds(b, remaining, n)
            p == PutBatch(t, n, moved)
<1>1. RestKept(s, p) /\ n = p.batchCount + 1
  BY RestPut
<1>2. splitBatch(t, remaining, b).s = t
        \/ \E last : splitBatch(t, remaining, b).s = [initTimeMark(p, n) EXCEPT !.batchCount = n, !.latestBatchNo = last]
  BY DEF splitBatch
<1>. HIDE DEF p, n
<1>3. \A last : RestKept(s, [initTimeMark(p, n) EXCEPT !.batchCount = n, !.latestBatchNo = last])
  BY <1>1, RestMarked
<1>. QED
  BY <1>2, <1>3

\* A log that is pushed to keeps its slots.
LEMMA PrefixPush ==
    ASSUME NEW log, NEW more, LogPrefix(log, more), NEW d
    PROVE  LogPrefix(log, PushDemand(more, d))
<1>1. PICK S : /\ log \in Seq(S) /\ more \in Seq(S) /\ Len(log) <= Len(more)
               /\ \A k \in 1..Len(log) : more[k] = log[k]
  BY DEF LogPrefix
<1>. DEFINE T == S \cup {d}
            next == Append(more, d)
<1>2. log \in Seq(T) /\ more \in Seq(T) /\ d \in T
  BY <1>1
<1>. HIDE DEF T
<1>3. next \in Seq(T) /\ Len(next) = Len(more) + 1 /\ \A k \in 1..Len(more) : next[k] = more[k]
  BY <1>2
<1>4. Len(log) \in Nat /\ Len(more) \in Nat
  BY <1>1
<1>. HIDE DEF next
<1>5. Len(log) <= Len(next) /\ \A k \in 1..Len(log) : next[k] = log[k]
  BY <1>1, <1>3, <1>4
<1>6. LogPrefix(log, next)
  BY <1>2, <1>3, <1>5 DEF LogPrefix
<1>. QED
  BY <1>6 DEF PushDemand, next

\* addToBatch leaves them alone.
LEMMA BatchKeepsRest ==
    ASSUME NEW s, NEW log, NEW insured, NEW f, FrameRest(s, log, insured, f)
    PROVE  FrameRest(s, log, insured, addToBatch(f))
<1>1. ASSUME NEW h, FrameRest(s, log, insured, h), NEW limits, NEW add
      PROVE  FrameRest(s, log, insured, addUnits(h, limits, add))
  <2>. DEFINE units == h.b.unitPerRound + add
              state == IF units < limits.min THEN h.b.state
                       ELSE IF h.isFirstOfOpen /\ units >= limits.ready THEN "Ready" ELSE "ReadyMin"
              takes == limits.share > 0
              g == addUnits(h, limits, add)
  <2>1. g = [h EXCEPT !.b.unitPerRound = units, !.b.roundPremiumRateSum = @ + h.rate * add, !.b.state = state,
                      !.addPerRound = add, !.takeNext = takes]
    BY DEF addUnits
  <2>. HIDE DEF units, state, takes, g
  <2>2. IsDemandFrame(g) /\ g.s = h.s /\ g.log = h.log /\ g.insured = h.insured
    BY <1>1, <2>1 DEF FrameRest, IsDemandFrame, DemandFields
  <2>3. FrameRest(s, log, insured, g)
    BY <1>1, <2>2 DEF FrameRest
  <2>. QED
    BY <2>3 DEF g
<1>2. \A h : FrameRest(s, log, insured, h) => FrameRest(s, log, insured, addToRounds(h))
  BY <1>1 DEF addToRounds, addWithinLimits
<1>. DEFINE splitRounds == internalBatchSplit(f.entry.demandedUnits, MinUnits[f.insured], f.b.rounds, f.unitCount)
            split == splitBatch(f.s, splitRounds, f.b)
            h == withSplit(f, split)
            armA == f.unitCount >= f.b.rounds
            armB == f.unitCount < f.b.rounds /\ splitRounds = 0
            ra == addToRounds(f)
            rb == [f EXCEPT !.addPerRound = 0, !.takeNext = FALSE]
            rc == addToRounds(h)
            g == addToBatch(f)
<1>3. g = CASE armA -> ra [] armB -> rb [] OTHER -> rc
  BY DEF addToBatch
<1>4. FrameRest(s, log, insured, rb)
  BY DEF FrameRest, IsDemandFrame, DemandFields
<1>5. RestKept(s, split.s)
  BY RestSplit DEF FrameRest
<1>. HIDE DEF split
<1>6. IsDemandFrame(h) /\ h.s = split.s /\ h.log = f.log /\ h.insured = f.insured
  BY DEF withSplit, FrameRest, IsDemandFrame, DemandFields
<1>. HIDE DEF h
<1>7. FrameRest(s, log, insured, ra) /\ FrameRest(s, log, insured, rc)
  BY <1>2, <1>5, <1>6 DEF FrameRest
<1>. HIDE DEF armA, armB, ra, rb, rc, g
<1>8. g = ra \/ g = rb \/ g = rc
  BY <1>3
<1>. QED
  BY <1>4, <1>7, <1>8 DEF g

\* So do the stages of a turn of the demand loop.
LEMMA StagesKeepRest ==
    ASSUME NEW s, NEW log, NEW insured, NEW f, FrameRest(s, log, insured, f)
    PROVE  /\ FrameRest(s, log, insured, appendRounds(f)) /\ FrameRest(s, log, insured, addToOpenBatch(f))
           /\ FrameRest(s, log, insured, recordSlot(f)) /\ FrameRest(s, log, insured, takeNextBatch(f))
<1>1. IsDemandFrame(f) /\ RestKept(s, f.s) /\ LogPrefix(log, f.log) /\ f.insured = insured
  BY DEF FrameRest
<1>2. FrameRest(s, log, insured, appendRounds(f))
  <2>. DEFINE appended == internalBatchAppend(f.openRounds, f.unitCount)
              n == f.s.batchCount + 1
              isLast == f.b.nextBatchNo = 0
              t == [initTimeMark(f.s, n) EXCEPT !.batchCount = n, !.latestBatchNo = n]
              armA == f.b.rounds # 0
              armB == f.b.rounds = 0 /\ appended.rounds = 0
              rb == [f EXCEPT !.done = TRUE, !.panic = @ \/ appended.panic]
              rc == [f EXCEPT !.b.rounds = appended.rounds,
                              !.b.nextBatchNo = IF isLast THEN n ELSE @,
                              !.openRounds = @ + appended.rounds,
                              !.updateBatch = TRUE,
                              !.s = IF isLast THEN t ELSE @]
              g == appendRounds(f)
  <2>1. g = CASE armA -> f [] armB -> rb [] OTHER -> rc
    BY DEF appendRounds
  <2>2. RestKept(s, t)
    <3>. HIDE DEF n
    <3>. QED
      BY <1>1, RestMarked DEF n
  <2>. HIDE DEF appended, n, isLast, t
  <2>3. /\ IsDemandFrame(rb) /\ rb.s = f.s /\ rb.log = f.log /\ rb.insured = f.insured
        /\ IsDemandFrame(rc) /\ (rc.s = f.s \/ rc.s = t) /\ rc.log = f.log /\ rc.insured = f.insured
    BY <1>1 DEF IsDemandFrame, DemandFields
  <2>. HIDE DEF armA, armB, rb, rc, g
  <2>4. g = f \/ g = rb \/ g = rc
    BY <2>1
  <2>5. FrameRest(s, log, insured, g)
    BY <1>1, <2>2, <2>3, <2>4 DEF FrameRest
  <2>. QED
    BY <2>5 DEF g
<1>3. FrameRest(s, log, insured, addToOpenBatch(f))
  <2>. DEFINE a == addToBatch(f)
              armB == ~f.done /\ ~isOpen(f.b)
              rb == [f EXCEPT !.addPerRound = 0]
              rc == keepFirstOpen(unitsAdded(a))
              g == addToOpenBatch(f)
              armA == f.done
  <2>1. g = CASE armA -> f [] armB -> rb [] OTHER -> rc
    BY DEF addToOpenBatch
  <2>2. FrameRest(s, log, insured, rb)
    BY <1>1 DEF FrameRest, IsDemandFrame, DemandFields
  <2>3. FrameRest(s, log, insured, a)
    BY BatchKeepsRest
  <2>. HIDE DEF a
  <2>4. FrameRest(s, log, insured, unitsAdded(a))
    BY <2>3 DEF FrameRest, unitsAdded, IsDemandFrame, DemandFields
  <2>. DEFINE h == unitsAdded(a)
  <2>. HIDE DEF h
  <2>5. FrameRest(s, log, insured, keepFirstOpen(h))
    <3>. DEFINE t == [h.s EXCEPT !.firstOpenBatchNo = h.batchNo]
                k == [h EXCEPT !.s = t, !.isFirstOfOpen = FALSE]
    <3>1. keepFirstOpen(h) = h \/ keepFirstOpen(h) = k
      BY DEF keepFirstOpen
    <3>2. FrameRest(s, log, insured, h)
      BY <2>4 DEF h
    <3>3. RestKept(s, t)
      BY <3>2 DEF FrameRest, RestKept, IsStore, StoreFields, MarksMore, MarksOK
    <3>. HIDE DEF t
    <3>4. IsDemandFrame(k) /\ k.s = t /\ k.log = h.log /\ k.insured = h.insured
      BY <3>2 DEF FrameRest, IsDemandFrame, DemandFields
    <3>. HIDE DEF k
    <3>. QED
      BY <3>1, <3>2, <3>3, <3>4 DEF FrameRest
  <2>6. FrameRest(s, log, insured, rc)
    BY <2>5 DEF h
  <2>. HIDE DEF armA, armB, rb, rc, g
  <2>7. g = f \/ g = rb \/ g = rc
    BY <2>1
  <2>. QED
    BY <2>2, <2>6, <2>7 DEF g
<1>4. FrameRest(s, log, insured, recordSlot(f))
  <2>. DEFINE units == f.addPerRound * f.b.rounds
              more == PushDemand(f.log, f.demand)
              armA == f.b.rounds = 0
              armB == f.b.rounds > 0 /\ continuesSlot(f)
              rb == [f EXCEPT !.demand.rounds = @ + f.b.rounds]
              rc == [f EXCEPT !.log = more,
                              !.demand = [startBatchNo |-> f.batchNo, premiumRate |-> f.rate,
                                          rounds |-> f.b.rounds, unitPerRound |-> f.addPerRound]]
              slot == CASE armA -> f [] armB -> rb [] OTHER -> rc
              ends == ~f.takeNext
              g == recordSlot(f)
  <2>1. LogPrefix(log, more)
    BY <1>1, PrefixPush
  <2>2. g = IF f.done THEN f
            ELSE [slot EXCEPT !.unitCount = @ - units, !.entry.demandedUnits = @ + units, !.done = ends]
    BY DEF recordSlot
  <2>. HIDE DEF more
  <2>3. FrameRest(s, log, insured, rb) /\ FrameRest(s, log, insured, rc)
    BY <1>1, <2>1 DEF FrameRest, IsDemandFrame, DemandFields
  <2>4. FrameRest(s, log, insured, slot)
    <3>. HIDE DEF armA, armB, rb, rc
    <3>1. slot = f \/ slot = rb \/ slot = rc
      OBVIOUS
    <3>. QED
      BY <2>3, <3>1
  <2>. HIDE DEF slot, units, ends
  <2>. QED
    BY <2>2, <2>4 DEF FrameRest, IsDemandFrame, DemandFields
<1>5. FrameRest(s, log, insured, takeNextBatch(f))
  <2>. DEFINE t == PutBatch(f.s, f.batchNo, f.b)
              next == BatchAt(t, f.b.nextBatchNo)
              total == f.b.totalUnitsBeforeBatch + UnitsOf(f.b)
              b == [next EXCEPT !.totalUnitsBeforeBatch = total]
              updated == next.totalUnitsBeforeBatch # total
              ends == f.unitCount = 0 \/ f.loopLimit = 0
              g == [f EXCEPT !.s = t, !.batchNo = f.b.nextBatchNo, !.entry.nextBatchNo = f.b.nextBatchNo,
                             !.b = b, !.updateBatch = updated, !.done = ends]
  <2>1. takeNextBatch(f) = f \/ takeNextBatch(f) = g
    BY DEF takeNextBatch
  <2>2. RestKept(s, t)
    BY <1>1, RestPut
  <2>. HIDE DEF t, b, updated, ends
  <2>3. FrameRest(s, log, insured, g)
    BY <1>1, <2>2 DEF FrameRest, IsDemandFrame, DemandFields
  <2>. HIDE DEF g
  <2>. QED
    BY <2>1, <2>3
<1>. QED
  BY <1>2, <1>3, <1>4, <1>5

\* So does the loop.
LEMMA DemandLoopKeepsRest ==
    ASSUME NEW n \in Nat, NEW s, NEW log, NEW insured, NEW frame, FrameRest(s, log, insured, frame)
    PROVE  FrameRest(s, log, insured, Iterate(addDemandStep, frame, n))
<1>1. PICK it : LoopFrames("demand", it, frame, n) /\ Iterate(addDemandStep, frame, n) = it[n]
  BY DemandLoopRuns
<1>. DEFINE G == {k \in 0..n : FrameRest(s, log, insured, it[k])}
<1>2. \A k \in 0..n : it[k] = IF k = 0 THEN frame ELSE addDemandStep(it[k - 1])
  BY <1>1 DEF LoopFrames, LoopStep
<1>3. 0 \in G
  BY <1>2
<1>4. ASSUME NEW k \in 0..(n - 1), k \in G PROVE k + 1 \in G
  <2>. DEFINE f == it[k]
              h == [f EXCEPT !.loopLimit = @ - 1]
  <2>1. k + 1 \in 0..n /\ k + 1 # 0 /\ (k + 1) - 1 = k /\ FrameRest(s, log, insured, f)
    BY <1>4
  <2>2. it[k + 1] = addDemandStep(f)
    BY <1>2, <2>1
  <2>. HIDE DEF f
  <2>3. FrameRest(s, log, insured, h)
    BY <2>1 DEF FrameRest, IsDemandFrame, DemandFields
  <2>4. addDemandStep(f) = f \/ addDemandStep(f) = takeNextBatch(recordSlot(addToOpenBatch(appendRounds(h))))
    BY DEF addDemandStep
  <2>. HIDE DEF h
  <2>5. FrameRest(s, log, insured, takeNextBatch(recordSlot(addToOpenBatch(appendRounds(h)))))
    <3>1. FrameRest(s, log, insured, appendRounds(h))
      BY <2>3, StagesKeepRest
    <3>2. FrameRest(s, log, insured, addToOpenBatch(appendRounds(h)))
      BY <3>1, StagesKeepRest
    <3>3. FrameRest(s, log, insured, recordSlot(addToOpenBatch(appendRounds(h))))
      BY <3>2, StagesKeepRest
    <3>. QED
      BY <3>3, StagesKeepRest
  <2>6. FrameRest(s, log, insured, it[k + 1])
    BY <2>1, <2>2, <2>4, <2>5
  <2>. QED
    BY <2>1, <2>6
<1>5. n \in G
  <2>. HIDE DEF G
  <2>1. 0..n \subseteq G
    BY <1>3, <1>4, UpToInduction
  <2>. QED
    BY <2>1
<1>. QED
  BY <1>1, <1>5

-----------------------------------------------------------------------------
(* The whole of internalAddCoverageDemand takes nothing from what was      *)
(* collected.                                                              *)

(* What was collected and is recorded stays, and the partial batch goes on. *)
GoesOn(s, t) == t.covered = s.covered /\ t.demands = s.demands /\ Advanced(s, t) /\ MarksMore(s, t)

\* The first batch is created.
LEMMA FirstGoesOn ==
    ASSUME NEW s, NEW L, EngineStore(s, L), s.firstOpenBatchNo = 0
    PROVE  GoesOn(s, FirstBatch(s))
<1>1. s.partial.roundNo = 0
  <2>1. s.batchCount = 0 /\ L \subseteq 1..s.batchCount
    BY DEF EngineStore, FirstOpenPlaced, Linked
  <2>2. 1..0 = {} /\ 0 \in Nat /\ 0 \notin 1..0
    OBVIOUS
  <2>3. s.partial.batchNo = 0
    BY <2>1, <2>2 DEF EngineStore, PartialPlaced
  <2>4. BatchAt(s, 0) = NoBatch
    BY <2>1, <2>2 DEF EngineStore, Linked, NoOthers
  <2>5. s.partial.roundNo \in Nat /\ s.partial.roundNo <= 0
    BY <2>3, <2>4 DEF EngineStore, PartialPlaced, IsPart, PartFits, NoBatch
  <2>. QED
    BY <2>5
<1>2. IsStore(s) /\ s.batchCount = 0
  BY DEF EngineStore, FirstOpenPlaced, Linked
<1>3. FirstBatch(s).covered = s.covered /\ FirstBatch(s).demands = s.demands
  BY <1>2 DEF FirstBatch, initTimeMark, IsStore, StoreFields
<1>4. MarksMore(s, FirstBatch(s))
  <2>1. RestKept(s, s)
    BY <1>2, MarksAdd DEF RestKept
  <2>. DEFINE t == [initTimeMark(s, 1) EXCEPT !.batchCount = 1, !.latestBatchNo = 1]
              u == FirstBatch(s)
  <2>2. MarksMore(s, t)
    <3>1. 1 = s.batchCount + 1
      BY <1>2
    <3>. QED
      BY <2>1, <3>1, RestMarked DEF RestKept
  <2>3. u.premiums = t.premiums /\ u.batchCount = t.batchCount /\ u.marks = t.marks
    BY <1>2 DEF FirstBatch, initTimeMark, IsStore, StoreFields
  <2>. HIDE DEF t, u
  <2>4. MarksMore(s, u)
    BY <2>2, <2>3 DEF MarksMore, MarksOK
  <2>. QED
    BY <2>4 DEF u
<1>. QED
  BY <1>1, <1>3, <1>4 DEF GoesOn, Advanced

\* The rounds without coverage are set apart.
LEMMA PartialLeftGoesOn ==
    ASSUME NEW s, NEW L, EngineStore(s, L), s.partial.batchNo # 0, BatchAt(s, s.partial.batchNo).nextBatchNo # 0
    PROVE  GoesOn(s, PartialLeft(s))
<1>. DEFINE p == s.partial.batchNo
            S == PartialRest(s).s
            B == PartialRest(s).b
            full == [B EXCEPT !.state = "Full"]
            part == [roundCoverage |-> 0, batchNo |-> B.nextBatchNo, roundNo |-> 0]
            t == PutBatch(S, p, B)
            v == PutBatch(S, p, full)
            premium == addPartialToTotalPremium(S, p, v.poolPremium, B)
            c == PartialClosed(s)
            u == PartialLeft(s)
<1>1. IsStore(S) /\ IsBatch(B) /\ B.rounds = PartialRounds(s.partial) /\ p \in Nat
  <2>1. PICK M : Divided(s, RestStored(s), L, M, B, B.nextBatchNo)
    BY PartialDivided
  <2>2. p \in L /\ Linked(s, L)
    BY <2>1 DEF Divided, EngineStore
  <2>3. p \in Nat
    BY <2>2, LinksAreNumbers
  <2>4. IsStore(S)
    BY PartialDivided
  <2>. QED
    BY <2>1, <2>3, <2>4 DEF Divided
<1>2. c = IF s.partial.roundCoverage # 0 THEN t
          ELSE [v EXCEPT !.poolPremium = premium, !.partial = part]
  BY DEF PartialClosed, RestStored
<1>3. u = [c EXCEPT !.firstOpenBatchNo = IF c.firstOpenBatchNo = p THEN B.nextBatchNo ELSE c.firstOpenBatchNo]
  BY DEF PartialLeft
<1>4. RestKept(s, s)
  BY MarksAdd DEF RestKept, EngineStore
<1>5. RestKept(s, S)
  BY <1>4, RestSplit DEF PartialRest
<1>6. full.rounds = B.rounds /\ isFull(full)
  BY <1>1 DEF IsBatch, BatchFields, isFull
<1>. HIDE DEF S, B, full, c, u
<1>7. RestKept(s, t) /\ RestKept(s, v)
  BY <1>5, RestPut
<1>8. BatchAt(v, p) = full
  BY <1>1, PutBatchStores
<1>. HIDE DEF t, v, premium
<1>9. CASE s.partial.roundCoverage # 0
  <2>1. /\ u.partial = s.partial /\ u.covered = s.covered /\ u.demands = s.demands
        /\ u.premiums = t.premiums /\ u.batchCount = t.batchCount /\ u.marks = t.marks
    BY <1>2, <1>3, <1>7, <1>9 DEF RestKept, IsStore, StoreFields
  <2>3. MarksMore(s, u)
    BY <1>7, <2>1 DEF RestKept, MarksMore, MarksOK
  <2>2. s.partial.roundNo \in Nat
    BY DEF EngineStore, PartialPlaced, IsPart
  <2>. QED
    BY <2>1, <2>2, <2>3 DEF GoesOn, Advanced, u
<1>10. CASE s.partial.roundCoverage = 0
  <2>. HIDE DEF part
  <2>1. /\ u.batches = v.batches /\ u.covered = s.covered /\ u.demands = s.demands
        /\ u.premiums = v.premiums /\ u.batchCount = v.batchCount /\ u.marks = v.marks
    BY <1>2, <1>3, <1>7, <1>10 DEF RestKept, IsStore, StoreFields
  <2>5. MarksMore(s, u)
    BY <1>7, <2>1 DEF RestKept, MarksMore, MarksOK
  <2>2. BatchAt(u, p) = full
    BY <1>8, <2>1 DEF BatchAt
  <2>3. s.partial.roundNo \in Nat /\ B.rounds = s.partial.roundNo
    <3>1. s.partial.roundNo \in Nat
      BY DEF EngineStore, PartialPlaced, IsPart
    <3>. QED
      BY <1>1, <1>10, <3>1 DEF PartialRounds
  <2>4. FullAt(u, p) /\ s.partial.roundNo <= RoundsAt(u, p)
    BY <1>6, <2>2, <2>3 DEF FullAt, RoundsAt
  <2>. QED
    BY <2>1, <2>4, <2>5 DEF GoesOn, Advanced, u
<1>. QED
  BY <1>9, <1>10

\* findBatchToAppend takes nothing away.
LEMMA FindGoesOn ==
    ASSUME NEW s, NEW L, EngineStore(s, L), NEW nextBatchNo \in L \cup {0},
           NEW r, r = findBatchToAppend(s, nextBatchNo)
    PROVE  GoesOn(s, r.s)
<1>. DEFINE this == AppendAt(s, nextBatchNo)
<1>1. /\ s.firstOpenBatchNo = 0 => FoundAt(r, FirstBatch(s), 1)
      /\ s.firstOpenBatchNo # 0 /\ ~SplitsPartial(s, this) => FoundAt(r, s, this)
      /\ s.firstOpenBatchNo # 0 /\ SplitsPartial(s, this) =>
            FoundAt(r, PartialLeft(s), PartialRest(s).b.nextBatchNo)
  BY FindCases
<1>2. CASE s.firstOpenBatchNo = 0
  <2>1. r.s = FirstBatch(s)
    BY <1>1, <1>2 DEF FoundAt
  <2>. QED
    BY <1>2, <2>1, FirstGoesOn
<1>3. CASE s.firstOpenBatchNo # 0 /\ ~SplitsPartial(s, this)
  <2>1. r.s = s
    BY <1>1, <1>3 DEF FoundAt
  <2>2. s.partial.roundNo \in Nat
    BY DEF EngineStore, PartialPlaced, IsPart
  <2>. QED
    BY <2>1, <2>2, MarksAdd DEF GoesOn, Advanced
<1>4. CASE s.firstOpenBatchNo # 0 /\ SplitsPartial(s, this)
  <2>1. r.s = PartialLeft(s)
    BY <1>1, <1>4 DEF FoundAt
  <2>2. s.partial.batchNo = this /\ BatchAt(s, this).nextBatchNo # 0
    BY <1>4 DEF SplitsPartial
  <2>3. s.partial.batchNo # 0
    <3>1. s.batchCount > 0
      <4>1. s.batchCount \in Nat /\ L \subseteq 1..s.batchCount
        BY DEF EngineStore, Linked
      <4>2. s.firstOpenBatchNo \in L
        BY <1>4 DEF EngineStore, FirstOpenPlaced
      <4>3. s.firstOpenBatchNo \in 1..s.batchCount
        BY <4>1, <4>2
      <4>. QED
        BY <4>1, <4>3
    <3>. QED
      BY <3>1 DEF EngineStore, PartialPlaced
  <2>. QED
    BY <2>1, <2>2, <2>3, PartialLeftGoesOn
<1>. QED
  BY <1>2, <1>3, <1>4

\* A log is the beginning of itself.
LEMMA LogIsPrefix ==
    ASSUME NEW log, log \in Seq(Slots)
    PROVE  LogPrefix(log, log) /\ LogGrows(log, log)
<1>1. Len(log) \in Nat
  OBVIOUS
<1>. QED
  BY <1>1 DEF LogPrefix, LogGrows

\* Full batches that stay keep what was collected.
LEMMA AdvancedStays ==
    ASSUME NEW s, NEW t, NEW u, s.partial.batchNo \in Nat, Advanced(s, t), Frozen(t, u), u.partial = t.partial
    PROVE  Advanced(s, u)
<1>1. FullAt(t, s.partial.batchNo) =>
        FullAt(u, s.partial.batchNo) /\ RoundsAt(u, s.partial.batchNo) = RoundsAt(t, s.partial.batchNo)
  BY DEF Frozen, FullAt, RoundsAt
<1>. QED
  BY <1>1 DEF Advanced

(* The log of the insured is one that began with this log, and the rest is as in s. *)
DemandRest(s, insured, log, t) ==
    /\ t.partial = s.partial /\ t.covered = s.covered /\ MarksMore(s, t)
    /\ \E own : LogPrefix(log, own) /\ t.demands = [s.demands EXCEPT ![insured] = own]

\* The frame after the demand loop is stored: only the log of the insured grows.
LEMMA DemandStoredRest ==
    ASSUME NEW f, NEW s, NEW log, NEW insured, FrameRest(s, log, insured, f), s.demands \in [Insureds -> Seq(Slots)],
           NEW more, NEW r, r = demandAdded(f, more)
    PROVE  DemandRest(s, insured, log, r.s)
<1>. DEFINE t == FrameStored(f)
            old == f.s.insureds[f.insured].nextBatchNo
            enough == more \/ internalIsEnoughForMore(f.entry.demandedUnits, MinUnits[f.insured], f.unitCount)
            pull == IF enough THEN f.batchNo ELSE 0
            pulled == setPullBatch(t, f.insured, old, pull)
            rounds == f.openRounds + f.partialRounds
            own == PushDemand(f.log, f.demand)
            isFirst == f.isFirstOfOpen
            u == [pulled EXCEPT !.openRounds = rounds, !.insureds[f.insured] = f.entry, !.demands[f.insured] = own,
                                !.firstOpenBatchNo = IF isFirst THEN f.batchNo ELSE @]
<1>1. r = [s |-> u, remaining |-> f.unitCount, panic |-> f.panic]
  BY DEF demandAdded, FrameStored, FramePut
<1>. HIDE DEF enough
<1>2. r.s = u
  BY <1>1
<1>3. RestKept(s, f.s) /\ LogPrefix(log, f.log) /\ f.insured = insured
  BY DEF FrameRest
<1>4. RestKept(s, t)
  BY <1>3, RestPut DEF FrameStored, FramePut
<1>5. LogPrefix(log, own)
  BY <1>3, PrefixPush
<1>. HIDE DEF t, old, pull, rounds, own, isFirst
<1>6. OnlyPullable(t, pulled)
  BY <1>4, PullBatchSet DEF RestKept
<1>. HIDE DEF pulled
<1>7. /\ IsStore(pulled) /\ pulled.partial = s.partial /\ pulled.covered = s.covered /\ pulled.demands = s.demands
      /\ pulled.premiums = t.premiums /\ pulled.batchCount = t.batchCount /\ pulled.marks = t.marks
  BY <1>4, <1>6 DEF OnlyPullable, RestKept, IsStore, StoreFields
<1>8. /\ u.partial = s.partial /\ u.covered = s.covered /\ u.demands = [s.demands EXCEPT ![insured] = own]
      /\ u.premiums = t.premiums /\ u.batchCount = t.batchCount /\ u.marks = t.marks
  BY <1>3, <1>7 DEF IsStore, StoreFields
<1>. HIDE DEF u
<1>9. MarksMore(s, u)
  BY <1>4, <1>8 DEF RestKept, MarksMore, MarksOK
<1>. QED
  BY <1>2, <1>5, <1>8, <1>9 DEF DemandRest

\* Adding demand adds slots to one log, and the partial batch goes on.
LEMMA AddDemandGoesOn ==
    ASSUME NEW s, NEW L, EngineStore(s, L), LogsOK(s), NEW insured \in Insureds, NEW unitCount \in Nat, NEW rate \in Nat,
           NEW more, NEW limit \in Nat,
           NEW r, r = internalAddCoverageDemand(s, insured, unitCount, rate, more, limit), ~r.panic
    PROVE  /\ r.s.covered = s.covered /\ Advanced(s, r.s) /\ MarksMore(s, r.s)
           /\ \A i \in Insureds : LogGrows(s.demands[i], r.s.demands[i])
<1>. DEFINE n == s.insureds[insured].nextBatchNo
            found == findBatchToAppend(s, n)
            frame == demandFrame(found, insured, unitCount, rate, limit)
            f == Iterate(addDemandStep, frame, limit)
<1>1. r = demandAdded(f, more)
  BY DEF internalAddCoverageDemand
<1>2. n \in L \cup {0}
  BY DEF EngineStore, InsuredsIn
<1>3. DemandGood(frame, s)
  <2>. HIDE DEF found
  <2>1. found = findBatchToAppend(s, s.insureds[insured].nextBatchNo)
    BY DEF found
  <2>. QED
    BY <2>1, DemandEntered
<1>4. GoesOn(s, found.s) /\ IsStore(found.s)
  <2>. HIDE DEF n
  <2>1. GoesOn(s, found.s)
    BY <1>2, FindGoesOn
  <2>2. PICK M : Appendable(found.s, M, found.batchNo)
    BY <1>2, FindKeeps
  <2>. QED
    BY <2>1, <2>2, AppendableFacts
<1>5. s.demands \in [Insureds -> Seq(Slots)] /\ r.s.demands \in [Insureds -> Seq(Slots)]
  <2>1. LogsOK(r.s)
    BY AddDemandLogs
  <2>. QED
    BY <2>1 DEF LogsOK, DescribedAs, Described, LogsPlaced
<1>6. /\ IsDemandFrame(frame) /\ frame.s = found.s /\ frame.log = found.s.demands[insured] /\ frame.insured = insured
      /\ ~frame.done
  <2>. HIDE DEF found
  <2>. QED
    BY <1>3 DEF DemandGood, demandFrame
<1>. HIDE DEF found, frame, n
<1>7. found.s.demands = s.demands /\ found.s.covered = s.covered /\ Advanced(s, found.s) /\ MarksMore(s, found.s)
  BY <1>4 DEF GoesOn
<1>8. FrameRest(found.s, s.demands[insured], insured, frame)
  <2>1. LogPrefix(s.demands[insured], s.demands[insured])
    BY <1>5, LogIsPrefix
  <2>. QED
    BY <1>4, <1>6, <1>7, <2>1, MarksAdd DEF FrameRest, RestKept
<1>9. FrameRest(found.s, s.demands[insured], insured, f)
  BY <1>8, DemandLoopKeepsRest
<1>10. DemandGood(frame, found.s)
  <2>1. Frozen(found.s, frame.s)
    BY <1>6 DEF Frozen
  <2>. QED
    BY <1>3, <1>6, <2>1 DEF DemandGood, DemandBetween
<1>11. DemandGood(f, found.s)
  BY <1>10, DemandLoopKeeps
<1>. HIDE DEF f
<1>12. Frozen(found.s, r.s)
  <2>1. ~f.panic
    BY <1>1 DEF demandAdded
  <2>2. PICK K : IF f.done THEN DemandFinished(f, K, found.s) ELSE DemandBetween(f, K, found.s)
    BY <1>11, <2>1 DEF DemandGood
  <2>3. f.done => DemandFinished(f, K, found.s)
    BY <2>2
  <2>4. ~f.done => DemandBetween(f, K, found.s)
    BY <2>2
  <2>5. DemandFinished(f, K, found.s)
    BY <2>3, <2>4, BetweenIsFinished
  <2>. QED
    BY <1>1, <2>5, DemandStored
<1>13. PICK own : /\ r.s.partial = found.s.partial /\ r.s.covered = s.covered /\ MarksMore(found.s, r.s)
                /\ LogPrefix(s.demands[insured], own) /\ r.s.demands = [s.demands EXCEPT ![insured] = own]
  <2>1. found.s.demands \in [Insureds -> Seq(Slots)]
    BY <1>5, <1>7
  <2>2. DemandRest(found.s, insured, s.demands[insured], r.s)
    BY <1>1, <1>9, <2>1, DemandStoredRest
  <2>. QED
    BY <1>7, <2>2 DEF DemandRest
<1>14. Advanced(s, r.s)
  <2>1. s.partial.batchNo \in L \/ s.partial.batchNo = 0
    BY DEF EngineStore, PartialPlaced
  <2>2. L \subseteq Nat /\ 0 \in Nat
    BY LinksAreNumbers DEF EngineStore
  <2>3. s.partial.batchNo \in Nat
    BY <2>1, <2>2, Zenon
  <2>. QED
    BY <1>7, <1>12, <1>13, <2>3, AdvancedStays
<1>15. \A i \in Insureds : LogGrows(s.demands[i], r.s.demands[i])
  <2>. TAKE i \in Insureds
  <2>1. CASE i = insured
    <3>1. r.s.demands[i] = own /\ LogPrefix(s.demands[i], own)
      BY <1>5, <1>13, <2>1
    <3>2. s.demands[i] \in Seq(Slots) /\ r.s.demands[i] \in Seq(Slots)
      BY <1>5
    <3>. QED
      BY <3>1, <3>2 DEF LogPrefix, LogGrows
  <2>2. CASE i # insured
    <3>1. r.s.demands[i] = s.demands[i] /\ s.demands[i] \in Seq(Slots)
      BY <1>5, <1>13, <2>2
    <3>. QED
      BY <3>1, LogIsPrefix
  <2>. QED
    BY <2>1, <2>2
<1>16. MarksMore(s, r.s)
  BY <1>7, <1>13, MarksAdd
<1>. QED
  BY <1>13, <1>14, <1>15, <1>16

-----------------------------------------------------------------------------
(* internalAddCoverage takes nothing from what was collected.              *)

(* What was collected and its premium are as in s0, and so are the time marks of its full batches. *)
Undisturbed(s0, t) == t.covered = s0.covered /\ t.premiums = s0.premiums /\ MarksOn(s0, t)

(* The partial batch of s0 is full, or its partial round is no earlier, and nothing that was collected is touched. *)
AheadOf(s0, t, part) ==
    /\ Undisturbed(s0, t)
    /\ \/ FullAt(t, s0.partial.batchNo)
       \/ part.batchNo = s0.partial.batchNo /\ s0.partial.roundNo <= part.roundNo

AheadGood(f, L, s0, sum) == CoverageGood(f, L, s0, sum) /\ (f.panic \/ AheadOf(s0, f.s, f.part))

\* The time marks of batches that are not full and the batches are beside what was collected.
LEMMA BesideCollected ==
    ASSUME NEW s0, NEW s, IsStore(s), Undisturbed(s0, s), NEW part, NEW u, NEW n, NEW b
    PROVE  /\ ~FullAt(s0, part.batchNo) => Undisturbed(s0, updateTimeMark(s, part, u))
           /\ Undisturbed(s0, PutBatch(s, n, b))
<1>1. ASSUME ~FullAt(s0, part.batchNo) PROVE Undisturbed(s0, updateTimeMark(s, part, u))
  <2>. DEFINE m == part.batchNo
              t == updateTimeMark(s, part, u)
  <2>1. PICK mark : t = [s EXCEPT !.marks = [s.marks EXCEPT ![m] = mark]]
    BY DEF updateTimeMark, IsStore, StoreFields
  <2>. HIDE DEF m, t
  <2>2. t.covered = s.covered /\ t.premiums = s.premiums /\ t.batchCount = s.batchCount
        /\ t.marks = [s.marks EXCEPT ![m] = mark]
    BY <2>1 DEF IsStore, StoreFields
  <2>3. DOMAIN t.marks = DOMAIN s.marks /\ \A k \in DOMAIN s.marks : k # m => t.marks[k] = s.marks[k]
    BY <2>2
  <2>4. ASSUME MarksOK(s0)
        PROVE  MarksOK(t) /\ \A k \in 1..s0.batchCount : FullAt(s0, k) => t.marks[k] = s0.marks[k]
    <3>1. MarksOK(s) /\ \A k \in 1..s0.batchCount : FullAt(s0, k) => s.marks[k] = s0.marks[k]
      BY <2>4 DEF Undisturbed, MarksOn
    <3>2. MarksOK(t)
      BY <2>2, <2>3, <3>1 DEF MarksOK
    <3>3. ASSUME NEW k \in 1..s0.batchCount, FullAt(s0, k) PROVE t.marks[k] = s0.marks[k]
      <4>1. k # m
        BY <1>1, <3>3 DEF m
      <4>2. CASE k \in DOMAIN s.marks
        BY <2>3, <3>1, <3>3, <4>1, <4>2
      <4>3. CASE k \notin DOMAIN s.marks
        <5>1. t.marks[k] = s.marks[k]
          BY <2>2, <4>3
        <5>. QED
          BY <3>1, <3>3, <5>1
      <4>. QED
        BY <4>2, <4>3
    <3>. QED
      BY <3>2, <3>3
  <2>5. MarksOn(s0, t)
    BY <2>4 DEF MarksOn
  <2>. QED
    BY <2>2, <2>5 DEF Undisturbed, t
<1>2. Undisturbed(s0, PutBatch(s, n, b))
  <2>. DEFINE q == Put(s.batches, n, b)
              t == PutBatch(s, n, b)
  <2>1. t = [s EXCEPT !.batches = q]
    BY DEF PutBatch
  <2>. HIDE DEF q, t
  <2>2. t.covered = s.covered /\ t.premiums = s.premiums /\ t.batchCount = s.batchCount /\ t.marks = s.marks
    BY <2>1 DEF IsStore, StoreFields
  <2>. QED
    BY <2>2 DEF Undisturbed, MarksOn, MarksOK, t
<1>. QED
  BY <1>1, <1>2

\* So is the rest of the store.
LEMMA UndisturbedSame ==
    ASSUME NEW s0, NEW s, NEW t, Undisturbed(s0, s), t.covered = s.covered, t.premiums = s.premiums,
           t.batchCount = s.batchCount, t.marks = s.marks
    PROVE  Undisturbed(s0, t)
  BY DEF Undisturbed, MarksOn, MarksOK

\* A turn of the coverage loop.
LEMMA AheadStepKeeps ==
    ASSUME NEW f, NEW L, NEW s0, NEW sum, AheadGood(f, L, s0, sum),
           s0.partial.batchNo \in Nat, s0.partial.roundNo \in Nat
    PROVE  AheadGood(addCoverageStep(f), L, s0, sum)
<1>. DEFINE h == [f EXCEPT !.loopLimit = @ - 1]
            c == closeFullBatch(h)
            r == fillRounds(h)
            g == addCoverageStep(f)
            n0 == s0.partial.batchNo
            r0 == s0.partial.roundNo
<1>1. CoverageGood(f, L, s0, sum) /\ CoverageGood(g, L, s0, sum) /\ IsCoverageFrame(f)
  BY CoverageStepKeeps DEF AheadGood, CoverageGood
<1>2. /\ IsCoverageFrame(h) /\ h.s = f.s /\ h.b = f.b /\ h.amount = f.amount /\ h.part = f.part
      /\ h.batchUpdated = f.batchUpdated /\ h.panic = f.panic
  BY <1>1 DEF IsCoverageFrame, CoverageFields
<1>3. CASE f.done
  <2>1. g = f
    BY <1>3 DEF addCoverageStep
  <2>. QED
    BY <2>1
<1>4. /\ IsCoverageFrame(c) /\ (h.panic => c.panic)
      /\ IsCoverageFrame(r) /\ (h.panic => r.panic)
  BY <1>2, CoverageStepsKeepPanic
<1>. HIDE DEF h, c, r
<1>5. ASSUME ~f.panic
      PROVE  /\ AheadOf(s0, f.s, f.part) /\ CoverageStore(f, L, s0) /\ CoverageBatch(f)
             /\ IsStore(f.s) /\ f.part.batchNo \in Nat /\ IsBatch(f.b) /\ ~isFull(f.b) /\ f.b.nextBatchNo \in Nat /\ IsPart(f.part)
             /\ ~FullAt(s0, f.part.batchNo)
  <2>1. AheadOf(s0, f.s, f.part) /\ CoverageStore(f, L, s0) /\ CoverageBatch(f)
    BY <1>5 DEF AheadGood, CoverageGood, CoverageKept
  <2>2. f.part.batchNo \in Nat
    BY <2>1, LinksAreNumbers DEF CoverageStore
  <2>3. ~FullAt(s0, f.part.batchNo)
    BY <2>1, <2>2 DEF CoverageStore, CoverageBatch, SameButTotal, Frozen, FullAt, isFull
  <2>. QED
    BY <2>1, <2>2, <2>3 DEF CoverageStore, CoverageBatch, IsBatch
<1>6. CASE ~f.done /\ f.part.roundNo >= f.b.rounds
  <2>. DEFINE e == c.done \/ c.loopLimit = 0
  <2>1. g = [c EXCEPT !.done = e]
    BY <1>6 DEF addCoverageStep, c, h
  <2>. HIDE DEF e, g
  <2>2. g.panic = c.panic /\ g.s = c.s /\ g.b = c.b /\ g.part = c.part
    BY <1>4, <2>1 DEF IsCoverageFrame, CoverageFields
  <2>3. CASE f.panic
    BY <1>1, <1>2, <1>4, <2>2, <2>3 DEF AheadGood, g
  <2>4. CASE ~f.panic
    <3>. DEFINE full == [f.b EXCEPT !.state = "Full"]
                n == f.part.batchNo
                s1 == PutBatch(f.s, n, full)
                q == f.b.nextBatchNo
                next == BatchAt(s1, q)
                total == f.b.totalUnitsBeforeBatch + UnitsOf(f.b)
                open == s1.openRounds - f.b.rounds
    <3>1. isFull(full)
      BY <1>5, <2>4 DEF IsBatch, BatchFields, isFull
    <3>2. q # 0
      BY <1>5, <1>6, <2>4 DEF CoverageBatch
    <3>. HIDE DEF full
    <3>3. IsStore(s1) /\ BatchAt(s1, n) = full /\ Elsewhere(f.s, s1, n) /\ Undisturbed(s0, s1)
      <4>1. IsStore(s1) /\ BatchAt(s1, n) = full /\ Elsewhere(f.s, s1, n)
        BY <1>5, <2>4, PutBatchStores
      <4>2. Undisturbed(s0, f.s) /\ IsStore(f.s)
        BY <1>5, <2>4 DEF AheadOf
      <4>3. Undisturbed(s0, s1)
        BY <4>2, BesideCollected
      <4>. QED
        BY <4>1, <4>3
    <3>13. IsStore(s1)
      BY <3>3
    <3>4. FullAt(s1, n0)
      <4>1. CASE n0 = n
        BY <3>1, <3>3, <4>1 DEF FullAt
      <4>2. CASE n0 # n
        <5>1. FullAt(f.s, n0)
          BY <1>5, <2>4, <4>2 DEF AheadOf
        <5>2. BatchAt(s1, n0) = BatchAt(f.s, n0)
          BY <3>3, <4>2 DEF Elsewhere
        <5>. QED
          BY <5>1, <5>2 DEF FullAt
      <4>. QED
        BY <4>1, <4>2
    <3>. HIDE DEF s1, next, open, total, n
    <3>5. /\ c.s = [s1 EXCEPT !.openRounds = open]
          /\ c.part = [batchNo |-> q, roundNo |-> 0, roundCoverage |-> 0]
          /\ c.b = [next EXCEPT !.totalUnitsBeforeBatch = total]
      BY <1>2, <1>5, <2>4, <3>2, <3>13, CloseEffects DEF c, full, s1, next, open, total, n
    <3>6. /\ c.s.batches = s1.batches /\ c.s.covered = s1.covered /\ c.s.premiums = s1.premiums
          /\ c.s.batchCount = s1.batchCount /\ c.s.marks = s1.marks
      BY <3>3, <3>5 DEF IsStore, StoreFields
    <3>9. Undisturbed(s0, c.s)
      BY <3>3, <3>6, UndisturbedSame
    <3>7. FullAt(c.s, n0) /\ Undisturbed(s0, c.s)
      BY <3>4, <3>6, <3>9 DEF FullAt, BatchAt
    <3>8. AheadOf(s0, c.s, c.part)
      BY <3>7 DEF AheadOf
    <3>. QED
      BY <1>1, <2>2, <3>8 DEF AheadGood, g
  <2>. QED
    BY <2>3, <2>4
<1>7. CASE ~f.done /\ ~(f.part.roundNo >= f.b.rounds)
  <2>. DEFINE e == r.done \/ r.loopLimit = 0
  <2>1. g = [r EXCEPT !.done = e]
    BY <1>7 DEF addCoverageStep, r, h
  <2>. HIDE DEF e, g
  <2>2. g.panic = r.panic /\ g.s = r.s /\ g.b = r.b /\ g.part = r.part
    BY <1>4, <2>1 DEF IsCoverageFrame, CoverageFields
  <2>3. CASE f.panic
    BY <1>1, <1>2, <1>4, <2>2, <2>3 DEF AheadGood, g
  <2>4. CASE ~f.panic /\ UnitSize * f.b.unitPerRound = 0
    <3>1. r.panic
      BY <1>2, <2>4 DEF r, fillRounds, IsCoverageFrame, CoverageFields
    <3>. QED
      BY <1>1, <2>2, <3>1 DEF AheadGood, g
  <2>5. CASE ~f.panic /\ UnitSize * f.b.unitPerRound # 0
    <3>. DEFINE perRound == UnitSize * h.b.unitPerRound
                rounds == h.amount \div perRound
    <3>1. perRound # 0 /\ IsStore(h.s) /\ IsPart(h.part)
      BY <1>2, <1>5, <2>5
    <3>2. rounds \in Nat
      <4>1. f.b.unitPerRound \in Nat /\ UnitSize \in Nat /\ h.amount \in Nat /\ h.b = f.b
        BY <1>2, <1>5, <2>5, RoundsAssumption DEF IsBatch, CoverageBatch
      <4>2. perRound \in Nat
        BY <4>1
      <4>. HIDE DEF perRound
      <4>. QED
        BY <3>1, <4>1, <4>2
    <3>3. FillResult(h, r, perRound, rounds)
      <4>. HIDE DEF perRound, rounds
      <4>1. perRound = UnitSize * h.b.unitPerRound /\ rounds = h.amount \div perRound
        BY DEF perRound, rounds
      <4>. QED
        BY <1>2, <3>1, <4>1, FillEffects DEF r
    <3>. HIDE DEF perRound, rounds
    <3>4. /\ r.s = updateTimeMark(h.s, h.part, h.b.unitPerRound) /\ r.part.batchNo = f.part.batchNo
          /\ r.part.roundNo = f.part.roundNo + rounds \/ r.part.roundNo = f.b.rounds
      BY <1>2, <3>3 DEF FillResult
    <3>5. f.part.roundNo \in Nat /\ f.b.rounds \in Nat
      BY <1>5, <2>5 DEF IsPart, IsBatch
    <3>6. r.part.roundNo \in Nat /\ f.part.roundNo <= r.part.roundNo
      BY <1>7, <3>2, <3>4, <3>5
    <3>7. OnlyMarked(h.s, r.s) /\ Undisturbed(s0, r.s)
      <4>1. Undisturbed(s0, h.s) /\ ~FullAt(s0, h.part.batchNo)
        BY <1>2, <1>5, <2>5 DEF AheadOf
      <4>2. Undisturbed(s0, updateTimeMark(h.s, h.part, h.b.unitPerRound))
        BY <3>1, <4>1, BesideCollected
      <4>. QED
        BY <3>1, <3>4, <4>2, TimeMarked
    <3>8. r.s.batches = f.s.batches
      BY <1>2, <3>7 DEF OnlyMarked
    <3>9. FullAt(r.s, n0) <=> FullAt(f.s, n0)
      BY <3>8 DEF FullAt, BatchAt
    <3>10. AheadOf(s0, f.s, f.part)
      BY <1>5, <2>5
    <3>11. r0 <= f.part.roundNo => r0 <= r.part.roundNo
      BY <3>5, <3>6
    <3>12. AheadOf(s0, r.s, r.part)
      BY <3>4, <3>7, <3>9, <3>10, <3>11 DEF AheadOf
    <3>. QED
      BY <1>1, <2>2, <3>12 DEF AheadGood, g
  <2>. QED
    BY <2>3, <2>4, <2>5
<1>. QED
  BY <1>3, <1>6, <1>7

\* All turns of the coverage loop.
LEMMA AheadLoopKeeps ==
    ASSUME NEW n \in Nat, NEW frame, NEW L, NEW s0, NEW sum, AheadGood(frame, L, s0, sum),
           s0.partial.batchNo \in Nat, s0.partial.roundNo \in Nat
    PROVE  AheadGood(Iterate(addCoverageStep, frame, n), L, s0, sum)
<1>1. PICK it : LoopFrames("coverage", it, frame, n) /\ Iterate(addCoverageStep, frame, n) = it[n]
  BY CoverageLoopRuns
<1>. DEFINE G == {k \in 0..n : AheadGood(it[k], L, s0, sum)}
<1>2. \A k \in 0..n : it[k] = IF k = 0 THEN frame ELSE addCoverageStep(it[k - 1])
  BY <1>1 DEF LoopFrames, LoopStep
<1>3. 0 \in G
  BY <1>2
<1>4. ASSUME NEW k \in 0..(n - 1), k \in G PROVE k + 1 \in G
  <2>1. k + 1 \in 0..n /\ k + 1 # 0 /\ (k + 1) - 1 = k /\ AheadGood(it[k], L, s0, sum)
    BY <1>4
  <2>2. it[k + 1] = addCoverageStep(it[k])
    BY <1>2, <2>1
  <2>3. AheadGood(it[k + 1], L, s0, sum)
    BY <2>1, <2>2, AheadStepKeeps
  <2>. QED
    BY <2>1, <2>3
<1>5. n \in G
  <2>. HIDE DEF G
  <2>1. 0..n \subseteq G
    BY <1>3, <1>4, UpToInduction
  <2>. QED
    BY <2>1
<1>. QED
  BY <1>1, <1>5

\* internalAddCoverage as a whole.
LEMMA AddCoverageGoesOn ==
    ASSUME NEW s, NEW L, EngineStore(s, L), NEW amount \in Nat, NEW limit \in Nat,
           NEW r, r = internalAddCoverage(s, amount, limit), ~r.panic
    PROVE  Undisturbed(s, r.s) /\ Advanced(s, r.s)
<1>. DEFINE n0 == s.partial.batchNo
            r0 == s.partial.roundNo
<1>0. Undisturbed(s, s)
  BY DEF Undisturbed, MarksOn
<1>1. IsPart(s.partial) /\ s.partial.roundCoverage \in Nat /\ IsStore(s) /\ r0 \in Nat /\ PartFits(s.partial, BatchAt(s, n0))
  BY DEF EngineStore, PartialPlaced, IsPart
<1>2. n0 \in Nat
  <2>1. L \subseteq Nat /\ 0 \in Nat /\ n0 \in L \cup {0}
    BY LinksAreNumbers DEF EngineStore, PartialPlaced
  <2>. HIDE DEF n0
  <2>. QED
    BY <2>1
<1>3. CASE CoverageBlocked(s, amount)
  <2>1. r.s = s
    BY <1>1, <1>3, AddCoverageCases
  <2>. QED
    BY <1>0, <1>1, <2>1 DEF Advanced
<1>6. ASSUME ~CoverageBlocked(s, amount) PROVE ~FullAt(s, n0)
  <2>1. n0 # 0
    BY <1>6 DEF CoverageBlocked
  <2>2. PartialFacts(s, L, BatchAt(s, n0))
    BY <2>1, PartialBatch
  <2>. QED
    BY <2>2 DEF PartialFacts, FullAt
<1>4. CASE ~CoverageBlocked(s, amount) /\ CoverageFits(s, amount)
  <2>1. r.s = roundFilled(s, amount)
    BY <1>1, <1>4, AddCoverageCases
  <2>. DEFINE marked == updateTimeMark(s, s.partial, BatchAt(s, s.partial.batchNo).unitPerRound)
  <2>2. OnlyMarked(s, marked) /\ Undisturbed(s, marked)
    BY <1>0, <1>1, <1>4, <1>6, TimeMarked, BesideCollected
  <2>3. r.s = [marked EXCEPT !.partial.roundCoverage = @ + amount]
    BY <2>1 DEF roundFilled
  <2>. HIDE DEF marked
  <2>4. /\ r.s.covered = marked.covered /\ r.s.premiums = marked.premiums
        /\ r.s.batchCount = marked.batchCount /\ r.s.marks = marked.marks
        /\ r.s.partial.batchNo = n0 /\ r.s.partial.roundNo = r0
    BY <1>1, <2>2, <2>3 DEF OnlyMarked, SameHeads, IsStore, StoreFields, IsPart, PartFields
  <2>5. Undisturbed(s, r.s)
    BY <2>2, <2>4, UndisturbedSame
  <2>. QED
    BY <1>1, <2>4, <2>5 DEF Advanced
<1>5. CASE ~CoverageBlocked(s, amount) /\ ~CoverageFits(s, amount)
  <2>1. PICK f : f = coverageLoop(s, amount, limit) /\ r.s = coverageStored(f) /\ (f.panic => r.panic)
    BY <1>1, <1>5, AddCoverageCases
  <2>. DEFINE frame == coverageFrame(s, amount, limit)
              marked == updateTimeMark(s, s.partial, BatchAt(s, n0).unitPerRound)
              sum == StoreSum(s) + amount
  <2>2. CoverageGood(frame, L, s, sum)
    BY <1>5, LoopEntered
  <2>3. /\ frame.s = s \/ frame.s = marked
        /\ frame.part.batchNo = n0 /\ (frame.part.roundNo = r0 \/ frame.part.roundNo = r0 + 1)
    BY <1>1 DEF coverageFrame, IsPart, PartFields
  <2>4. Undisturbed(s, marked)
    BY <1>0, <1>1, <1>5, <1>6, BesideCollected
  <2>5. f = Iterate(addCoverageStep, frame, limit)
    BY <2>1 DEF coverageLoop
  <2>. HIDE DEF frame, marked, sum
  <2>6. AheadOf(s, frame.s, frame.part)
    BY <1>0, <1>1, <2>3, <2>4 DEF AheadOf
  <2>7. AheadGood(frame, L, s, sum)
    BY <2>2, <2>6 DEF AheadGood
  <2>8. AheadGood(f, L, s, sum)
    BY <1>1, <1>2, <2>5, <2>7, AheadLoopKeeps
  <2>9. /\ AheadOf(s, f.s, f.part) /\ IsStore(f.s) /\ f.part.batchNo \in Nat /\ ~FullAt(f.s, f.part.batchNo)
    <3>1. AheadOf(s, f.s, f.part) /\ CoverageStore(f, L, s) /\ CoverageBatch(f)
      BY <2>1, <2>8 DEF AheadGood, CoverageGood, CoverageKept
    <3>2. f.part.batchNo \in Nat
      BY <3>1, LinksAreNumbers DEF CoverageStore
    <3>3. ~FullAt(f.s, f.part.batchNo)
      BY <3>1 DEF CoverageBatch, SameButTotal, FullAt, isFull
    <3>. QED
      BY <3>1, <3>2, <3>3 DEF CoverageStore
  <2>. DEFINE stored == IF f.batchUpdated THEN PutBatch(f.s, f.part.batchNo, f.b) ELSE f.s
  <2>10. IsStore(stored) /\ Undisturbed(s, stored) /\ (FullAt(f.s, n0) => FullAt(stored, n0))
    <3>. DEFINE v == PutBatch(f.s, f.part.batchNo, f.b)
    <3>1. IsStore(v) /\ Elsewhere(f.s, v, f.part.batchNo) /\ Undisturbed(s, v)
      <4>1. IsStore(v) /\ Elsewhere(f.s, v, f.part.batchNo)
        BY <2>9, PutBatchStores
      <4>2. Undisturbed(s, f.s) /\ IsStore(f.s)
        BY <2>9 DEF AheadOf
      <4>3. Undisturbed(s, v)
        BY <4>2, BesideCollected
      <4>. QED
        BY <4>1, <4>3
    <3>2. FullAt(f.s, n0) => FullAt(v, n0)
      <4> SUFFICES ASSUME FullAt(f.s, n0) PROVE FullAt(v, n0)
        OBVIOUS
      <4>1. n0 # f.part.batchNo
        BY <2>9
      <4>2. BatchAt(v, n0) = BatchAt(f.s, n0)
        BY <1>2, <3>1, <4>1 DEF Elsewhere
      <4>. QED
        BY <4>2 DEF FullAt
    <3>. HIDE DEF v
    <3>3. stored = v \/ stored = f.s
      BY DEF v
    <3>. QED
      BY <2>9, <3>1, <3>2, <3>3 DEF AheadOf
  <2>11. r.s = [stored EXCEPT !.partial = f.part, !.poolPremium = f.premium, !.firstOpenBatchNo = f.openBatchNo]
    BY <2>1 DEF coverageStored
  <2>. HIDE DEF stored
  <2>12. /\ r.s.batches = stored.batches /\ r.s.covered = stored.covered /\ r.s.partial = f.part
         /\ r.s.premiums = stored.premiums /\ r.s.batchCount = stored.batchCount /\ r.s.marks = stored.marks
    BY <2>10, <2>11 DEF IsStore, StoreFields
  <2>15. Undisturbed(s, r.s)
    BY <2>10, <2>12, UndisturbedSame
  <2>13. FullAt(f.s, n0) => FullAt(r.s, n0)
    BY <2>10, <2>12 DEF FullAt, BatchAt
  <2>14. r0 <= RoundsAt(r.s, n0)
    <3>1. ShapesKept(s, r.s)
      BY AddCoverageShapes
    <3>2. RoundsAt(r.s, n0) = BatchAt(s, n0).rounds
      BY <1>2, <3>1 DEF ShapesKept, SameShape, RoundsAt
    <3>. QED
      BY <1>1, <3>2 DEF PartFits
  <2>. QED
    BY <2>9, <2>12, <2>13, <2>14, <2>15 DEF AheadOf, Advanced
<1>. QED
  BY <1>3, <1>4, <1>5

-----------------------------------------------------------------------------
(* What is collected under every step while nothing is cancelled.          *)

(* Every insured has collected what one finds on the way it came through its log. *)
CoverOK(s) == DOMAIN s.covered = Insureds /\ \A i \in Insureds : CoveredAs(s, s.demands[i], s.covered[i])

(* The inductive invariant: the list of batches, the logs, and what is collected along them. *)
CoverInv == LogsInv /\ CoverOK(Storage)

(* The log of the insured i can be walked through, with the places pos of the batches. *)
Readable(s, pos, i) ==
    /\ Placed(s, pos) /\ PartInBatch(s) /\ LogPlaced(pos, s.demands[i])
    /\ CoveredAs(s, s.demands[i], s.covered[i])

\* The invariant lets every log be walked through.
LEMMA LogsAreReadable ==
    ASSUME NEW s, NEW L, EngineStore(s, L), LogsOK(s), CoverOK(s)
    PROVE  \E pos : \A i \in Insureds : Readable(s, pos, i)
<1>1. PICK pos : Described(s, pos, s.demands)
  BY DEF LogsOK, DescribedAs
<1>2. PartInBatch(s)
  BY DEF EngineStore, PartialPlaced, PartFits, PartInBatch, RoundsAt
<1>3. \A i \in Insureds : Readable(s, pos, i)
  BY <1>1, <1>2 DEF Described, LogsPlaced, CoverOK, Readable
<1>. QED
  BY <1>3

\* Collecting all that is covered never fails.
LEMMA CollectedIsCovered ==
    ASSUME NEW s, NEW pos, NEW i, Readable(s, pos, i)
    PROVE  /\ CollectedIn(s, i).panic = FALSE
           /\ LogCovers(s, s.demands[i], CollectedIn(s, i).covered.coveredUnits)
           /\ CollectedIn(s, i).covered.coveredUnits \in Nat
           /\ CollectedIn(s, i).covered.coveredUnits <= LogUnits(s.demands[i])
<1>. DEFINE log == s.demands[i]
            limit == Len(log) + 1
            r == internalGetCoveredDemand(s, i, limit)
            units == r.covered.coveredUnits
<1>1. /\ Placed(s, pos) /\ PartInBatch(s) /\ IsPart(s.partial) /\ LogPlaced(pos, log) /\ CoveredAs(s, log, s.covered[i])
  BY DEF Readable, PartInBatch
<1>2. limit \in Nat
  BY <1>1 DEF LogPlaced
<1>3. CollectedIn(s, i) = r
  BY DEF CollectedIn
<1>. HIDE DEF limit
<1>4. r.panic = FALSE /\ (limit = Len(log) + 1 => LogCovers(s, log, units))
  <2>. HIDE DEF r, log
  <2>1. log = s.demands[i] /\ r = internalGetCoveredDemand(s, i, limit)
    BY DEF r, log
  <2>. QED
    BY <1>1, <1>2, <2>1, Collecting
<1>5. LogCovers(s, log, units)
  BY <1>4 DEF limit
<1>. HIDE DEF r, log
<1>6. units \in Nat /\ units <= LogUnits(log)
  <2>. HIDE DEF units
  <2>. QED
    BY <1>1, <1>5, CoversWithin
<1>. QED
  BY <1>3, <1>4, <1>5, <1>6 DEF log

\* Collecting finds no less after a step that takes nothing away.
LEMMA CollectedGrows ==
    ASSUME NEW s, NEW pos, NEW t, NEW qos, NEW i, Readable(s, pos, i), Readable(t, qos, i),
           Frozen(s, t), Advanced(s, t), LogGrows(s.demands[i], t.demands[i])
    PROVE  CollectedIn(s, i).covered.coveredUnits <= CollectedIn(t, i).covered.coveredUnits
<1>. DEFINE log == s.demands[i]
            more == t.demands[i]
            x == CollectedIn(s, i).covered.coveredUnits
            y == CollectedIn(t, i).covered.coveredUnits
<1>1. LogCovers(s, log, x) /\ LogCovers(t, more, y)
  BY CollectedIsCovered
<1>2. /\ Placed(s, pos) /\ PartInBatch(s) /\ LogPlaced(pos, log)
      /\ Placed(t, qos) /\ PartInBatch(t) /\ LogPlaced(qos, more) /\ LogGrows(log, more)
  BY DEF Readable
<1>. HIDE DEF log, more, x, y
<1>3. x <= y
  BY <1>1, <1>2, CoversGrow
<1>. QED
  BY <1>3 DEF x, y

(* A step that takes nothing from the logs and the partial batch, and what is collected after it. *)
TakesNothing(s, t) ==
    Advanced(s, t) /\ MarksOn(s, t) /\ \A i \in Insureds : LogGrows(s.demands[i], t.demands[i])
CollectsAlong(s, t) ==
    /\ DOMAIN t.covered = Insureds /\ \A i \in Insureds : CoveredAs(s, s.demands[i], t.covered[i])
    /\ \/ t.covered = s.covered /\ t.premiums = s.premiums
       \/ \E i \in Insureds : receiveDemandedCoverage(i)

\* A log is as long as it was where it is not written.
LEMMA SameLogsGrow ==
    ASSUME NEW s, LogsOK(s), NEW i \in Insureds
    PROVE  LogGrows(s.demands[i], s.demands[i])
<1>1. s.demands[i] \in Seq(Slots)
  BY DEF LogsOK, DescribedAs, Described, LogsPlaced
<1>. QED
  BY <1>1, LogIsPrefix

\* Commit gives the variables what was collected and the partial batch of the record.
LEMMA CommittedCovers ==
    ASSUME NEW s, NEW t, Commit(t), CoverOK(s), Undisturbed(s, t), Advanced(s, t),
           \A i \in Insureds : LogGrows(s.demands[i], t.demands[i])
    PROVE  TakesNothing(s, Storage') /\ CollectsAlong(s, Storage')
<1>1. /\ (Storage').batches = t.batches /\ (Storage').partial = t.partial
      /\ (Storage').demands = t.demands /\ (Storage').covered = t.covered /\ (Storage').premiums = t.premiums
      /\ (Storage').batchCount = t.batchCount /\ (Storage').marks = t.marks
  BY DEF Commit, Storage
<1>2. \A n : BatchAt(Storage', n) = BatchAt(t, n)
  BY <1>1 DEF BatchAt
<1>3. Advanced(s, Storage')
  BY <1>1, <1>2 DEF Advanced, FullAt, RoundsAt
<1>4. Undisturbed(s, Storage')
  BY <1>1, UndisturbedSame
<1>. QED
  BY <1>1, <1>3, <1>4 DEF TakesNothing, CollectsAlong, CoverOK, Undisturbed

\* addCoverageDemand takes nothing from what was collected.
LEMMA DemandTakesNothing ==
    ASSUME CoverInv, NEW insured \in Insureds, addCoverageDemand(insured)
    PROVE  TakesNothing(Storage, Storage') /\ CollectsAlong(Storage, Storage')
<1>1. PICK L : EngineStore(Storage, L)
  BY DEF CoverInv, LogsInv, RoundsInv
<1>2. PICK units \in UnitCounts, rate \in Rates, more \in HasMore, limit \in LoopLimits :
         \E r \in {internalAddCoverageDemand(Storage, insured, units, rate, more, limit)} :
            ~r.panic /\ Commit(r.s)
  BY DEF addCoverageDemand
<1>. DEFINE s == Storage
            r == internalAddCoverageDemand(s, insured, units, rate, more, limit)
<1>3. ~r.panic /\ Commit(r.s)
  BY <1>2
<1>4. units \in Nat /\ limit \in Nat /\ rate \in Nat
  BY RoundsAssumption
<1>5. EngineStore(s, L) /\ LogsOK(s) /\ CoverOK(s)
  BY <1>1 DEF CoverInv, LogsInv
<1>. HIDE DEF s
<1>6. Undisturbed(s, r.s) /\ Advanced(s, r.s) /\ \A i \in Insureds : LogGrows(s.demands[i], r.s.demands[i])
  <2>. HIDE DEF r
  <2>1. r = internalAddCoverageDemand(s, insured, units, rate, more, limit)
    BY DEF r
  <2>2. /\ r.s.covered = s.covered /\ Advanced(s, r.s) /\ MarksMore(s, r.s)
        /\ \A i \in Insureds : LogGrows(s.demands[i], r.s.demands[i])
    BY <1>3, <1>4, <1>5, <2>1, AddDemandGoesOn
  <2>3. MarksOn(s, r.s) /\ r.s.premiums = s.premiums
    BY <2>2, MarksAdd DEF MarksMore
  <2>. QED
    BY <2>2, <2>3 DEF Undisturbed
<1>. HIDE DEF r
<1>7. TakesNothing(s, Storage') /\ CollectsAlong(s, Storage')
  BY <1>3, <1>5, <1>6, CommittedCovers
<1>. QED
  BY <1>7 DEF s

\* Nor does addCoverage.
LEMMA CoverageTakesNothing ==
    ASSUME CoverInv, addCoverage
    PROVE  TakesNothing(Storage, Storage') /\ CollectsAlong(Storage, Storage')
<1>1. PICK L : EngineStore(Storage, L)
  BY DEF CoverInv, LogsInv, RoundsInv
<1>2. PICK amount \in Amounts, limit \in CoverageLoopLimits :
         \E r \in {internalAddCoverage(Storage, amount, limit)} : ~r.panic /\ Commit(r.s)
  BY DEF addCoverage
<1>. DEFINE s == Storage
            r == internalAddCoverage(s, amount, limit)
<1>3. ~r.panic /\ Commit(r.s)
  BY <1>2
<1>4. amount \in Nat /\ limit \in Nat
  BY RoundsAssumption
<1>5. EngineStore(s, L) /\ LogsOK(s) /\ CoverOK(s)
  BY <1>1 DEF CoverInv, LogsInv
<1>. HIDE DEF s
<1>6. Undisturbed(s, r.s) /\ Advanced(s, r.s) /\ r.s.demands = s.demands
  <2>. HIDE DEF r
  <2>1. r = internalAddCoverage(s, amount, limit)
    BY DEF r
  <2>2. ShapesKept(s, r.s)
    BY <1>3, <1>4, <1>5, <2>1, AddCoverageShapes
  <2>3. Undisturbed(s, r.s) /\ Advanced(s, r.s)
    BY <1>3, <1>4, <1>5, <2>1, AddCoverageGoesOn
  <2>. QED
    BY <2>2, <2>3 DEF ShapesKept
<1>. HIDE DEF r
<1>7. \A i \in Insureds : LogGrows(s.demands[i], r.s.demands[i])
  BY <1>5, <1>6, SameLogsGrow
<1>8. TakesNothing(s, Storage') /\ CollectsAlong(s, Storage')
  BY <1>3, <1>5, <1>6, <1>7, CommittedCovers
<1>. QED
  BY <1>8 DEF s

\* Nor does pullDemandCandidate.
LEMMA PullTakesNothing ==
    ASSUME CoverInv, pullDemandCandidate
    PROVE  TakesNothing(Storage, Storage') /\ CollectsAlong(Storage, Storage')
<1>1. PICK limit \in LoopLimits, peek \in BOOLEAN :
         Commit(internalPullDemandCandidate(Storage, limit, peek).s)
  BY DEF pullDemandCandidate
<1>. DEFINE s == Storage
            t == internalPullDemandCandidate(s, limit, peek).s
<1>2. OnlyPullable(s, t)
  BY RoundsAssumption, StorageIsStore, PullKeeps
<1>3. Commit(t)
  BY <1>1
<1>4. LogsOK(s) /\ CoverOK(s) /\ s.partial.roundNo \in Nat
  BY DEF CoverInv, LogsInv, RoundsInv, EngineStore, PartialPlaced, IsPart
<1>. HIDE DEF s, t
<1>5. /\ t.partial = s.partial /\ t.covered = s.covered /\ t.demands = s.demands
      /\ t.premiums = s.premiums /\ t.batchCount = s.batchCount /\ t.marks = s.marks
  BY <1>2 DEF OnlyPullable, StoreFields
<1>8. Undisturbed(s, t)
  BY <1>5 DEF Undisturbed, MarksOn, MarksOK
<1>6. Advanced(s, t) /\ \A i \in Insureds : LogGrows(s.demands[i], t.demands[i])
  BY <1>4, <1>5, SameLogsGrow DEF Advanced
<1>7. TakesNothing(s, Storage') /\ CollectsAlong(s, Storage')
  BY <1>3, <1>4, <1>6, <1>8, CommittedCovers
<1>. QED
  BY <1>7 DEF s

\* Collecting itself goes on along the log, and time takes nothing away.
LEMMA OthersTakeNothing ==
    ASSUME CoverInv,
           (\E i \in Insureds : receiveDemandedCoverage(i)) \/ Tick \/ UNCHANGED vars
    PROVE  TakesNothing(Storage, Storage') /\ CollectsAlong(Storage, Storage')
<1>. DEFINE s == Storage
<1>1. UNCHANGED <<partial, demands, batchCount, marks>>
  BY DEF receiveDemandedCoverage, Tick, vars, storageVars
<1>2. /\ (Storage').partial = s.partial /\ (Storage').demands = s.demands
      /\ (Storage').batchCount = s.batchCount /\ (Storage').marks = s.marks
  BY <1>1 DEF Storage
<1>9. MarksOn(s, Storage')
  BY <1>2 DEF MarksOn, MarksOK
<1>3. LogsOK(s) /\ CoverOK(s) /\ s.partial.roundNo \in Nat
  BY DEF CoverInv, LogsInv, RoundsInv, EngineStore, PartialPlaced, IsPart
<1>4. TakesNothing(s, Storage')
  BY <1>2, <1>3, <1>9, SameLogsGrow DEF TakesNothing, Advanced
<1>5. (Storage').covered = covered' /\ s.covered = covered /\ (Storage').premiums = premiums' /\ s.premiums = premiums
  BY DEF Storage
<1>6. CASE UNCHANGED <<covered, premiums>>
  BY <1>3, <1>4, <1>5, <1>6 DEF CollectsAlong, CoverOK
<1>7. CASE \E i \in Insureds : receiveDemandedCoverage(i)
  <2>1. PICK i \in Insureds : receiveDemandedCoverage(i)
    BY <1>7
  <2>2. PICK limit \in LoopLimits :
           covered' = [covered EXCEPT ![i] = internalGetCoveredDemand(Storage, i, limit).covered]
    BY <2>1 DEF receiveDemandedCoverage
  <2>. DEFINE r == internalGetCoveredDemand(s, i, limit)
  <2>3. covered' = [covered EXCEPT ![i] = r.covered] /\ limit \in Nat
    BY <2>2, RoundsAssumption
  <2>4. PICK L : EngineStore(s, L)
    BY DEF CoverInv, LogsInv, RoundsInv
  <2>. HIDE DEF s
  <2>5. PICK pos : Readable(s, pos, i)
    BY <1>3, <2>4, LogsAreReadable
  <2>6. CoveredAs(s, s.demands[i], r.covered)
    <3>1. Placed(s, pos) /\ IsPart(s.partial) /\ LogPlaced(pos, s.demands[i]) /\ CoveredAs(s, s.demands[i], s.covered[i])
      BY <2>5 DEF Readable, PartInBatch
    <3>. HIDE DEF r
    <3>2. r = internalGetCoveredDemand(s, i, limit)
      BY DEF r
    <3>. QED
      BY <2>3, <3>1, <3>2, Collecting
  <2>. HIDE DEF r
  <2>7. CollectsAlong(s, Storage')
    BY <1>3, <1>5, <1>7, <2>3, <2>6 DEF CollectsAlong, CoverOK
  <2>. QED
    BY <1>4, <2>7 DEF s
<1>8. UNCHANGED <<covered, premiums>> \/ \E i \in Insureds : receiveDemandedCoverage(i)
  BY DEF Tick, vars, storageVars
<1>. QED
  BY <1>6, <1>7, <1>8

\* No step takes anything away.
LEMMA StepTakesNothing ==
    ASSUME CoverInv, [Allocation]_vars
    PROVE  TakesNothing(Storage, Storage') /\ CollectsAlong(Storage, Storage')
  BY DemandTakesNothing, CoverageTakesNothing, PullTakesNothing, OthersTakeNothing DEF Allocation

\* Nobody has collected anything before the first call.
LEMMA CoverInit == Init => CoverInv
<1> SUFFICES ASSUME Init PROVE CoverInv
  OBVIOUS
<1>. DEFINE s == Storage
<1>1. LogsInv /\ LogsOK(s)
  BY LogsInit DEF LogsInv
<1>2. s.covered = [i \in Insureds |-> NoCoverage]
  BY DEF Init, Storage
<1>. HIDE DEF s
<1>3. \A i \in Insureds : s.demands[i] \in Seq(Slots)
  BY <1>1 DEF LogsOK, DescribedAs, Described, LogsPlaced
<1>4. \A i \in Insureds : CoveredAs(s, s.demands[i], s.covered[i])
  <2>. TAKE i \in Insureds
  <2>1. s.covered[i] = NoCoverage
    BY <1>2
  <2>. QED
    BY <1>3, <2>1, NothingCovered
<1>5. CoverOK(s)
  BY <1>2, <1>4 DEF CoverOK
<1>. QED
  BY <1>1, <1>5 DEF CoverInv, s

\* The invariant is inductive under Allocation.
LEMMA CoverKept == CoverInv /\ [Allocation]_vars => CoverInv'
<1> SUFFICES ASSUME CoverInv, [Allocation]_vars PROVE CoverInv'
  OBVIOUS
<1>. DEFINE s == Storage
            t == Storage'
<1>1. LogsInv'
  BY LogsKept DEF CoverInv
<1>2. Frozen(s, t)
  BY AllocationKept DEF CoverInv, LogsInv, StepKept
<1>3. TakesNothing(s, t) /\ CollectsAlong(s, t)
  BY StepTakesNothing
<1>4. PICK L : EngineStore(s, L)
  BY DEF CoverInv, LogsInv, RoundsInv
<1>5. LogsOK(s) /\ CoverOK(s)
  BY DEF CoverInv, LogsInv
<1>. HIDE DEF s, t
<1>6. PICK pos : \A i \in Insureds : Readable(s, pos, i)
  BY <1>4, <1>5, LogsAreReadable
<1>7. \A i \in Insureds : CoveredAs(t, t.demands[i], t.covered[i])
  <2>. TAKE i \in Insureds
  <2>1. Placed(s, pos) /\ LogPlaced(pos, s.demands[i])
    BY <1>6 DEF Readable
  <2>2. LogGrows(s.demands[i], t.demands[i]) /\ CoveredAs(s, s.demands[i], t.covered[i])
    BY <1>3 DEF TakesNothing, CollectsAlong
  <2>. QED
    BY <1>2, <2>1, <2>2, CoveredMoves
<1>8. CoverOK(t)
  BY <1>3, <1>7 DEF CoverOK, CollectsAlong
<1>. QED
  BY <1>1, <1>8 DEF CoverInv, t

-----------------------------------------------------------------------------
(* Theorems.                                                               *)

\* While nothing is cancelled, collecting goes on where it stopped.
THEOREM CoverInvariant == AllocationSpec => []CoverInv
  BY CoverInit, CoverKept, PTL DEF AllocationSpec

\* While nothing is cancelled, no call changes a full batch, and none takes coverage
\* from what an insured can collect.
THEOREM NothingIsTakenBack == AllocationSpec => NothingTakenBack
<1>1. CoverInv /\ CoverInv' /\ [Allocation]_vars =>
         [\A old \in {Storage}, new \in {Storage'}, i \in Insureds :
            new.insureds[i].status = "Accepted" =>
                CollectedIn(new, i).covered.coveredUnits >= CollectedIn(old, i).covered.coveredUnits]_vars
  <2> SUFFICES ASSUME CoverInv, CoverInv', [Allocation]_vars, NEW i \in Insureds
               PROVE  CollectedIn(Storage', i).covered.coveredUnits >= CollectedIn(Storage, i).covered.coveredUnits
    OBVIOUS
  <2>. DEFINE s == Storage
              t == Storage'
              x == CollectedIn(s, i).covered.coveredUnits
              y == CollectedIn(t, i).covered.coveredUnits
  <2>1. Frozen(s, t)
    BY AllocationKept DEF CoverInv, LogsInv, StepKept
  <2>2. TakesNothing(s, t)
    BY StepTakesNothing
  <2>3. PICK L : EngineStore(s, L)
    BY DEF CoverInv, LogsInv, RoundsInv
  <2>4. PICK M : EngineStore(t, M)
    BY DEF CoverInv, LogsInv, RoundsInv
  <2>5. LogsOK(s) /\ CoverOK(s) /\ LogsOK(t) /\ CoverOK(t)
    BY DEF CoverInv, LogsInv
  <2>. HIDE DEF s, t
  <2>6. PICK pos : Readable(s, pos, i)
    BY <2>3, <2>5, LogsAreReadable
  <2>7. PICK qos : Readable(t, qos, i)
    BY <2>4, <2>5, LogsAreReadable
  <2>8. x <= y
    BY <2>1, <2>2, <2>6, <2>7, CollectedGrows DEF TakesNothing
  <2>9. x \in Nat /\ y \in Nat
    BY <2>6, <2>7, CollectedIsCovered
  <2>. HIDE DEF x, y
  <2>10. y >= x
    BY <2>8, <2>9
  <2>. QED
    BY <2>10 DEF x, y, s, t
<1>2. AllocationSpec => CoverageNotWithdrawn
  BY <1>1, CoverInvariant, PTL DEF AllocationSpec, CoverageNotWithdrawn
<1>. QED
  BY <1>2, FullBatchesStay, PTL DEF NothingTakenBack

(* What the insureds can collect, and what they would collect from the beginning of their logs. *)
CollectedWithinDemand ==
    \A i \in Insureds : ~Collected(i).panic /\ Collected(i).covered.coveredUnits <= insureds[i].demandedUnits
Afresh(i) == [Storage EXCEPT !.covered[i] = NoCoverage, !.premiums[i] = NoPremium]
CollectedAsAfresh ==
    \A i \in Insureds : Collected(i).covered.coveredUnits = CollectedIn(Afresh(i), i).covered.coveredUnits

\* While nothing is cancelled, collecting fails for no insured, and none collects more
\* than it demanded.
THEOREM NoneCollectsMore == AllocationSpec => []CollectedWithinDemand
<1>1. CoverInv => CollectedWithinDemand
  <2> SUFFICES ASSUME CoverInv, NEW i \in Insureds
               PROVE  ~Collected(i).panic /\ Collected(i).covered.coveredUnits <= insureds[i].demandedUnits
    BY DEF CollectedWithinDemand
  <2>1. PICK L : EngineStore(Storage, L)
    BY DEF CoverInv, LogsInv, RoundsInv
  <2>2. LogsOK(Storage) /\ CoverOK(Storage)
    BY DEF CoverInv, LogsInv
  <2>3. PICK pos : Readable(Storage, pos, i)
    BY <2>1, <2>2, LogsAreReadable
  <2>4. insureds[i].demandedUnits = LogUnits(Storage.demands[i])
    BY <2>2 DEF LogsOK, Storage
  <2>. QED
    BY <2>3, <2>4, CollectedIsCovered DEF Collected
<1>. QED
  BY <1>1, CoverInvariant, PTL

\* Places depend on the batches only.
LEMMA PlacedAlike ==
    ASSUME NEW s, NEW pos, Placed(s, pos), NEW t, t.batches = s.batches, t.batchCount = s.batchCount
    PROVE  Placed(t, pos)
<1>1. \A k : BatchAt(t, k) = BatchAt(s, k)
  BY DEF BatchAt
<1>2. \A k : RoundsAt(t, k) = RoundsAt(s, k) /\ NextOf(t, k) = NextOf(s, k)
  BY <1>1 DEF RoundsAt, NextOf
<1>3. ASSUME NEW n \in DOMAIN pos PROVE PlacedBatch(t, pos, n)
  <2>1. PlacedBatch(s, pos, n)
    BY DEF Placed
  <2>. QED
    BY <1>1, <1>2, <2>1 DEF PlacedBatch
<1>4. ASSUME NEW n \in DOMAIN pos, NEW m \in DOMAIN pos, n # m PROVE Apart(t, pos, n, m)
  <2>1. Apart(s, pos, n, m)
    BY <1>4 DEF Placed
  <2>. QED
    BY <1>2, <2>1 DEF Apart
<1>. QED
  BY <1>3, <1>4 DEF Placed

\* While nothing is cancelled, an insured that collects in many calls, under any loop
\* limits, comes to the same coverage as one that collects all at once.
THEOREM CollectingIsIncremental == AllocationSpec => []CollectedAsAfresh
<1>1. CoverInv => CollectedAsAfresh
  <2> SUFFICES ASSUME CoverInv, NEW i \in Insureds
               PROVE  Collected(i).covered.coveredUnits = CollectedIn(Afresh(i), i).covered.coveredUnits
    BY DEF CollectedAsAfresh
  <2>. DEFINE s == Storage
              t == Afresh(i)
              log == s.demands[i]
              x == CollectedIn(s, i).covered.coveredUnits
              y == CollectedIn(t, i).covered.coveredUnits
  <2>1. PICK L : EngineStore(s, L)
    BY DEF CoverInv, LogsInv, RoundsInv
  <2>2. LogsOK(s) /\ CoverOK(s)
    BY DEF CoverInv, LogsInv
  <2>3. t.batches = s.batches /\ t.batchCount = s.batchCount /\ t.partial = s.partial /\ t.demands = s.demands
        /\ t.covered = [s.covered EXCEPT ![i] = NoCoverage]
    BY DEF Afresh, Storage
  <2>. HIDE DEF s, t
  <2>4. PICK pos : Readable(s, pos, i)
    BY <2>1, <2>2, LogsAreReadable
  <2>5. \A k : BatchAt(t, k) = BatchAt(s, k)
    BY <2>3 DEF BatchAt
  <2>6. Frozen(s, t) /\ Frozen(t, s)
    BY <2>5 DEF Frozen, FullAt
  <2>7. Advanced(s, t) /\ Advanced(t, s)
    <3>1. s.partial.roundNo \in Nat
      BY <2>4 DEF Readable, PartInBatch, IsPart
    <3>. QED
      BY <2>3, <3>1 DEF Advanced
  <2>8. LogGrows(s.demands[i], t.demands[i]) /\ LogGrows(t.demands[i], s.demands[i])
    BY <2>2, <2>3, SameLogsGrow
  <2>9. Readable(t, pos, i)
    <3>1. Placed(t, pos)
      BY <2>3, <2>4, PlacedAlike DEF Readable
    <3>2. PartInBatch(t) /\ LogPlaced(pos, t.demands[i])
      BY <2>3, <2>4, <2>5 DEF Readable, PartInBatch, RoundsAt
    <3>3. CoveredAs(t, t.demands[i], t.covered[i])
      <4>1. t.covered[i] = NoCoverage /\ t.demands[i] \in Seq(Slots)
        BY <2>2, <2>3, <3>2 DEF CoverOK, LogPlaced
      <4>. QED
        BY <4>1, NothingCovered
    <3>. QED
      BY <3>1, <3>2, <3>3 DEF Readable
  <2>10. x <= y /\ y <= x
    BY <2>4, <2>6, <2>7, <2>8, <2>9, CollectedGrows
  <2>11. x \in Nat /\ y \in Nat
    BY <2>4, <2>9, CollectedIsCovered
  <2>. HIDE DEF x, y
  <2>12. x = y
    BY <2>10, <2>11
  <2>. QED
    BY <2>12 DEF x, y, s, t, Collected
<1>. QED
  BY <1>1, CoverInvariant, PTL

-----------------------------------------------------------------------------
(* The premium of what is collected.                                       *)

(* A point of the way through a log: "got" rounds of the slot k are collected, up to the  *)
(* batch n, with this premium.  At the beginning of a slot its own first batch counts.    *)
PremiumPoint(k, n, got, premium) == [k |-> k, n |-> IF got = 0 THEN 0 ELSE n, got |-> got, premium |-> premium]
PremiumStart == PremiumPoint(1, 0, 0, NoPremium)
PointBatch(log, x) == IF x.got = 0 THEN log[x.k].startBatchNo ELSE x.n

PremiumStops(s, log, x) ==
    x.k > Len(log) \/ (~(log[x.k].rounds <= x.got) /\ ~FullAt(s, PointBatch(log, x)))
PremiumOfBatch(s, d, n, premium) ==
    calcPremium(s, n, d.unitPerRound, premium, RoundsAt(s, n), 0, d.premiumRate, BatchAt(s, n).unitPerRound)
PremiumMove(s, log, x) ==
    IF log[x.k].rounds <= x.got THEN PremiumPoint(x.k + 1, 0, 0, x.premium)
    ELSE PremiumPoint(x.k, NextOf(s, PointBatch(log, x)), x.got + RoundsAt(s, PointBatch(log, x)),
                      PremiumOfBatch(s, log[x.k], PointBatch(log, x), x.premium))

(* The way from the beginning of the log, and the points it comes to. *)
PremiumWay(s, log, way, m) ==
    /\ way[0] = PremiumStart
    /\ \A j \in 0..(m - 1) : ~PremiumStops(s, log, way[j]) /\ way[j + 1] = PremiumMove(s, log, way[j])
Paid(s, log, x) == \E m \in Nat : \E way : PremiumWay(s, log, way, m) /\ way[m] = x

\* The way begins at its start, and goes on where it does not stop.
LEMMA PaidOn ==
    ASSUME NEW s, NEW log
    PROVE  /\ Paid(s, log, PremiumStart)
           /\ \A x : Paid(s, log, x) /\ ~PremiumStops(s, log, x) => Paid(s, log, PremiumMove(s, log, x))
<1>1. Paid(s, log, PremiumStart)
  <2>. DEFINE way == [j \in {0} |-> PremiumStart]
  <2>1. way[0] = PremiumStart /\ 0..(0 - 1) = {} /\ 0 \in Nat
    OBVIOUS
  <2>. HIDE DEF way
  <2>. QED
    BY <2>1 DEF Paid, PremiumWay
<1>2. ASSUME NEW x, Paid(s, log, x), ~PremiumStops(s, log, x) PROVE Paid(s, log, PremiumMove(s, log, x))
  <2>1. PICK m \in Nat : \E way : PremiumWay(s, log, way, m) /\ way[m] = x
    BY <1>2 DEF Paid
  <2>2. PICK way : PremiumWay(s, log, way, m) /\ way[m] = x
    BY <2>1
  <2>. DEFINE y == PremiumMove(s, log, x)
              more == [j \in 0..(m + 1) |-> IF j = m + 1 THEN y ELSE way[j]]
  <2>. HIDE DEF y
  <2>3. more[m + 1] = y /\ (\A j \in 0..m : more[j] = way[j]) /\ m + 1 \in Nat
    OBVIOUS
  <2>4. \A j \in 0..((m + 1) - 1) : j \in 0..m /\ ((j \in 0..(m - 1) /\ j + 1 \in 0..m) \/ j = m)
    OBVIOUS
  <2>5. 0 \in 0..m /\ m \in 0..m
    OBVIOUS
  <2>. HIDE DEF more
  <2>6. more[0] = PremiumStart
    BY <2>2, <2>3, <2>5 DEF PremiumWay
  <2>7. ASSUME NEW j \in 0..((m + 1) - 1)
        PROVE  ~PremiumStops(s, log, more[j]) /\ more[j + 1] = PremiumMove(s, log, more[j])
    <3>1. CASE j = m
      <4>1. more[j] = x /\ more[j + 1] = y
        BY <2>2, <2>3, <2>5, <3>1
      <4>. QED
        BY <1>2, <4>1 DEF y
    <3>2. CASE j \in 0..(m - 1) /\ j + 1 \in 0..m
      <4>1. more[j] = way[j] /\ more[j + 1] = way[j + 1]
        BY <2>3, <2>4, <3>2
      <4>2. ~PremiumStops(s, log, way[j]) /\ way[j + 1] = PremiumMove(s, log, way[j])
        BY <2>2, <3>2 DEF PremiumWay
      <4>. QED
        BY <4>1, <4>2
    <3>. QED
      BY <2>4, <3>1, <3>2
  <2>8. PremiumWay(s, log, more, m + 1)
    BY <2>6, <2>7 DEF PremiumWay
  <2>9. Paid(s, log, y)
    BY <2>3, <2>8 DEF Paid
  <2>. QED
    BY <2>9 DEF y
<1>. QED
  BY <1>1, <1>2

\* A way is the beginning of one that is no shorter.
LEMMA WaysAgree ==
    ASSUME NEW s, NEW log, NEW m \in Nat, NEW l \in Nat, m <= l,
           NEW way, PremiumWay(s, log, way, m), NEW long, PremiumWay(s, log, long, l)
    PROVE  long[m] = way[m]
<1>. DEFINE G == {j \in 0..m : long[j] = way[j]}
<1>1. 0 \in G
  BY DEF PremiumWay
<1>2. ASSUME NEW j \in 0..(m - 1), j \in G PROVE j + 1 \in G
  <2>1. j \in 0..(l - 1) /\ j + 1 \in 0..m /\ long[j] = way[j]
    BY <1>2
  <2>2. long[j + 1] = PremiumMove(s, log, long[j]) /\ way[j + 1] = PremiumMove(s, log, way[j])
    BY <2>1 DEF PremiumWay
  <2>. QED
    BY <2>1, <2>2
<1>. HIDE DEF G
<1>3. 0..m \subseteq G /\ m \in 0..m
  BY <1>1, <1>2, UpToInduction
<1>. QED
  BY <1>3 DEF G

\* The way stops at one point only.
LEMMA StopsMeet ==
    ASSUME NEW s, NEW log, NEW x, Paid(s, log, x), PremiumStops(s, log, x),
           NEW y, Paid(s, log, y), PremiumStops(s, log, y)
    PROVE  x = y
<1>1. PICK m \in Nat : \E way : PremiumWay(s, log, way, m) /\ way[m] = x
  BY DEF Paid
<1>2. PICK way : PremiumWay(s, log, way, m) /\ way[m] = x
  BY <1>1
<1>3. PICK l \in Nat : \E long : PremiumWay(s, log, long, l) /\ long[l] = y
  BY DEF Paid
<1>4. PICK long : PremiumWay(s, log, long, l) /\ long[l] = y
  BY <1>3
<1>5. CASE m <= l
  <2>1. long[m] = x
    BY <1>2, <1>4, <1>5, WaysAgree
  <2>2. ~(m \in 0..(l - 1))
    BY <1>4, <2>1 DEF PremiumWay
  <2>3. m = l
    BY <1>5, <2>2
  <2>. QED
    BY <1>4, <2>1, <2>3
<1>6. CASE ~(m <= l)
  <2>0. l <= m
    BY <1>6
  <2>1. way[l] = y
    BY <1>2, <1>4, <2>0, WaysAgree
  <2>2. ~(l \in 0..(m - 1))
    BY <1>2, <2>1 DEF PremiumWay
  <2>. QED
    BY <1>6, <2>2
<1>. QED
  BY <1>5, <1>6

(* A point at a place within a slot of the log, or behind the last one. *)
OnPath(pos, log, x) ==
    /\ x.k \in Nat \ {0}
    /\ x.k <= Len(log) => [n |-> PointBatch(log, x), got |-> x.got] \in OnWalk(pos, log[x.k])

\* The way does not leave the slots of the log.
LEMMA PathGoesOn ==
    ASSUME NEW s, NEW pos, Placed(s, pos), NEW log, LogPlaced(pos, log),
           NEW x, OnPath(pos, log, x), ~PremiumStops(s, log, x)
    PROVE  /\ OnPath(pos, log, PremiumMove(s, log, x)) /\ x.k \in 1..Len(log)
           /\ PointBatch(log, x) \in DOMAIN pos
<1>. DEFINE k == x.k
            d == log[k]
            n == PointBatch(log, x)
            w == [n |-> n, got |-> x.got]
            y == PremiumMove(s, log, x)
<1>1. log \in Seq(Slots) /\ Len(log) \in Nat /\ DOMAIN log = 1..Len(log) /\ \A j \in DOMAIN log : SlotPlaced(pos, log[j])
  BY DEF LogPlaced
<1>2. k \in Nat /\ k \in 1..Len(log)
  BY <1>1 DEF OnPath, PremiumStops
<1>3. d \in Slots /\ SlotPlaced(pos, d) /\ d.rounds \in Nat
  <2>1. d \in Slots /\ SlotPlaced(pos, d)
    BY <1>1, <1>2
  <2>. QED
    BY <2>1 DEF Slots
<1>4. w \in OnWalk(pos, d) /\ n \in DOMAIN pos /\ x.got \in Nat
  <2>1. w \in OnWalk(pos, d)
    BY <1>1, <1>2 DEF OnPath
  <2>. HIDE DEF n, d, k
  <2>2. w.n \in DOMAIN pos /\ w.got \in 0..d.rounds /\ w.n = n /\ w.got = x.got
    BY <2>1 DEF OnWalk
  <2>. QED
    BY <1>3, <2>1, <2>2
<1>5. CASE d.rounds <= x.got
  <2>1. y = PremiumPoint(k + 1, 0, 0, x.premium)
    BY <1>5 DEF PremiumMove
  <2>2. y.k = k + 1 /\ y.got = 0 /\ PointBatch(log, y) = log[k + 1].startBatchNo
    BY <2>1 DEF PremiumPoint, PointBatch
  <2>3. ASSUME k + 1 <= Len(log)
        PROVE  [n |-> PointBatch(log, y), got |-> y.got] \in OnWalk(pos, log[k + 1])
    <3>1. k + 1 \in 1..Len(log)
      BY <1>1, <1>2, <2>3
    <3>2. log[k + 1] \in Slots /\ SlotPlaced(pos, log[k + 1])
      BY <1>1, <3>1
    <3>3. WalkStart(log[k + 1]) \in OnWalk(pos, log[k + 1])
      BY <3>2, WalkStays
    <3>. QED
      BY <2>2, <3>3 DEF WalkStart
  <2>4. y.k \in Nat \ {0}
    BY <1>2, <2>2
  <2>. QED
    BY <1>2, <1>4, <2>2, <2>3, <2>4 DEF OnPath
<1>6. CASE ~(d.rounds <= x.got)
  <2>. DEFINE R == RoundsAt(s, n)
              next == NextOf(s, n)
              v == [n |-> next, got |-> x.got + R]
              p == PremiumOfBatch(s, d, n, x.premium)
  <2>1. y = PremiumPoint(k, next, x.got + R, p)
    BY <1>6 DEF PremiumMove
  <2>. HIDE DEF p, n
  <2>2. R \in Nat \ {0} /\ v \in OnWalk(pos, d)
    <3>1. w.got < d.rounds /\ w.n = n /\ w.got = x.got
      BY <1>3, <1>4, <1>6
    <3>. HIDE DEF w
    <3>. QED
      BY <1>3, <1>4, <3>1, WalkMoves
  <2>. HIDE DEF R, next
  <2>3. x.got + R # 0
    BY <1>4, <2>2
  <2>4. y.k = k /\ y.got = x.got + R /\ y.n = next
    BY <2>1, <2>3 DEF PremiumPoint
  <2>5. PointBatch(log, y) = next
    BY <2>3, <2>4 DEF PointBatch
  <2>6. [n |-> PointBatch(log, y), got |-> y.got] \in OnWalk(pos, log[y.k])
    BY <2>2, <2>4, <2>5
  <2>7. y.k \in Nat \ {0}
    BY <1>2, <2>4
  <2>. QED
    BY <1>2, <1>4, <2>6, <2>7 DEF OnPath, n
<1>. QED
  BY <1>5, <1>6

\* The premium of what is collected stays where the full batches keep their time marks.
LEMMA PaidFrozen ==
    ASSUME NEW s, NEW pos, Placed(s, pos), NEW log, LogPlaced(pos, log), NEW t, NEW more,
           Frozen(s, t), MarksOK(s), MarksOn(s, t), LogGrows(log, more), NEW x, Paid(s, log, x)
    PROVE  Paid(t, more, x)
<1>1. PICK m \in Nat : \E way : PremiumWay(s, log, way, m) /\ way[m] = x
  BY DEF Paid
<1>2. PICK way : PremiumWay(s, log, way, m) /\ way[m] = x
  BY <1>1
<1>3. log \in Seq(Slots) /\ more \in Seq(Slots) /\ Len(log) \in Nat /\ Len(more) \in Nat /\ Len(log) <= Len(more)
      /\ \A k \in 1..Len(log) : more[k] = log[k]
  BY DEF LogGrows
<1>. DEFINE G == {j \in 0..m : OnPath(pos, log, way[j])}
<1>4. 0 \in G
  <2>1. way[0] = PremiumStart
    BY <1>2 DEF PremiumWay
  <2>2. PremiumStart.k = 1 /\ PremiumStart.got = 0 /\ PointBatch(log, PremiumStart) = log[1].startBatchNo
    BY DEF PremiumStart, PremiumPoint, PointBatch
  <2>3. ASSUME 1 <= Len(log) PROVE [n |-> PointBatch(log, PremiumStart), got |-> 0] \in OnWalk(pos, log[1])
    <3>1. 1 \in DOMAIN log
      BY <1>3, <2>3
    <3>2. log[1] \in Slots /\ SlotPlaced(pos, log[1])
      BY <3>1 DEF LogPlaced
    <3>3. WalkStart(log[1]) \in OnWalk(pos, log[1])
      BY <3>2, WalkStays
    <3>. QED
      BY <2>2, <3>3 DEF WalkStart
  <2>4. OnPath(pos, log, PremiumStart)
    BY <2>2, <2>3 DEF OnPath
  <2>. QED
    BY <2>1, <2>4
<1>5. ASSUME NEW j \in 0..(m - 1), j \in G PROVE j + 1 \in G
  <2>1. j + 1 \in 0..m /\ OnPath(pos, log, way[j]) /\ ~PremiumStops(s, log, way[j])
        /\ way[j + 1] = PremiumMove(s, log, way[j])
    BY <1>2, <1>5 DEF PremiumWay
  <2>2. OnPath(pos, log, way[j + 1])
    BY <2>1, PathGoesOn
  <2>. QED
    BY <2>1, <2>2
<1>6. 0..m \subseteq G
  <2>. HIDE DEF G
  <2>. QED
    BY <1>4, <1>5, UpToInduction
<1>7. ASSUME NEW j \in 0..(m - 1)
      PROVE  ~PremiumStops(t, more, way[j]) /\ way[j + 1] = PremiumMove(t, more, way[j])
  <2>. DEFINE y == way[j]
              n == PointBatch(log, y)
  <2>1. j \in 0..m /\ ~PremiumStops(s, log, y) /\ way[j + 1] = PremiumMove(s, log, y)
    BY <1>2 DEF PremiumWay
  <2>2. OnPath(pos, log, y)
    BY <1>6, <2>1
  <2>. HIDE DEF y
  <2>3. y.k \in 1..Len(log) /\ n \in DOMAIN pos
    BY <2>1, <2>2, PathGoesOn
  <2>4. more[y.k] = log[y.k] /\ ~(y.k > Len(more)) /\ PointBatch(more, y) = n
    <3>1. more[y.k] = log[y.k] /\ ~(y.k > Len(more))
      BY <1>3, <2>3
    <3>. QED
      BY <3>1 DEF PointBatch
  <2>5. CASE log[y.k].rounds <= y.got
    BY <2>1, <2>4, <2>5 DEF PremiumStops, PremiumMove, y
  <2>6. CASE ~(log[y.k].rounds <= y.got)
    <3>1. FullAt(s, n)
      BY <2>1, <2>6 DEF PremiumStops
    <3>. HIDE DEF n
    <3>2. n \in Nat /\ n \in 1..s.batchCount
      BY <2>3, PlaceNumbers DEF Placed
    <3>3. BatchAt(t, n) = BatchAt(s, n) /\ t.marks[n] = s.marks[n]
      BY <3>1, <3>2 DEF Frozen, MarksOn
    <3>4. \A d, p : PremiumOfBatch(t, d, n, p) = PremiumOfBatch(s, d, n, p)
      BY <3>3 DEF PremiumOfBatch, calcPremium, RoundsAt
    <3>5. FullAt(t, n) /\ NextOf(t, n) = NextOf(s, n) /\ RoundsAt(t, n) = RoundsAt(s, n)
      BY <3>1, <3>3 DEF FullAt, NextOf, RoundsAt
    <3>6. ~PremiumStops(t, more, y)
      BY <2>4, <3>5 DEF PremiumStops
    <3>7. PremiumMove(t, more, y) = PremiumMove(s, log, y)
      BY <2>4, <2>6, <3>4, <3>5 DEF PremiumMove, n
    <3>. QED
      BY <2>1, <3>6, <3>7 DEF y
  <2>. QED
    BY <2>5, <2>6 DEF y
<1>8. PremiumWay(t, more, way, m)
  BY <1>2, <1>7 DEF PremiumWay
<1>. QED
  BY <1>2, <1>8 DEF Paid

(* The point of an insured that has collected c with the premium p. *)
PointOfCover(c, p) == PremiumPoint(c.lastUpdateIndex + 1, c.lastUpdateBatchNo, c.lastUpdateRounds, p)
PaidAs(s, log, c, p) == Paid(s, log, PointOfCover(c, p))

(* The premium where the way stops, with that of the partial batch. *)
PendingOf(s, d, n) == (s.partial.roundCoverage * d.unitPerRound) \div BatchAt(s, n).unitPerRound
TotalInPartial(s, d, n, premium) ==
    calcPremium(s, n, d.unitPerRound, premium, s.partial.roundNo, PendingOf(s, d, n), d.premiumRate,
                BatchAt(s, n).unitPerRound)
StopTotal(s, log, x) ==
    IF x.k <= Len(log) /\ s.partial.batchNo = PointBatch(log, x) /\ PartialRounds(s.partial) > 0
    THEN TotalInPartial(s, log[x.k], PointBatch(log, x), x.premium) ELSE x.premium

(* The frame c of a collection. *)
PaidFrame(s, log, c) ==
    /\ PaidAs(s, log, c.covered, c.premium)
    /\ ~c.done => c.total = c.premium
    /\ c.done => /\ PremiumStops(s, log, PointOfCover(c.covered, c.premium))
                 /\ c.total = StopTotal(s, log, PointOfCover(c.covered, c.premium))

(* The frame f of the batches of the slot k, which went on from the round "from". *)
PaidBatches(s, log, k, from, f) ==
    /\ f.d.premiumRate = log[k].premiumRate
    /\ from + f.fullRounds = 0 => f.d.startBatchNo = log[k].startBatchNo
    /\ Paid(s, log, PremiumPoint(k, f.d.startBatchNo, from + f.fullRounds, f.premium))

\* One batch of a slot pays the premium of its rounds.
LEMMA BatchIsPaid ==
    ASSUME NEW s, NEW pos, Placed(s, pos), NEW log, LogPlaced(pos, log), NEW k \in 1..Len(log), NEW from \in Nat,
           NEW f, NEW j, BatchesGood(s, pos, log[k], from, f, j), PaidBatches(s, log, k, from, f)
    PROVE  PaidBatches(s, log, k, from, collectBatch(f))
<1>. DEFINE d == log[k]
            w == PointOf(f, from)
            b == BatchAt(f.s, f.d.startBatchNo)
            premium == calcPremium(f.s, f.d.startBatchNo, f.d.unitPerRound, f.premium,
                                   b.rounds, 0, f.d.premiumRate, b.unitPerRound)
            p == IF b.rounds = 0 THEN f.premium ELSE premium
            q == f.panic \/ (b.nextBatchNo = 0 /\ f.fullRounds + b.rounds < f.d.rounds)
            rb == [f EXCEPT !.done = TRUE]
            rc == [f EXCEPT !.fullRounds = @ + b.rounds, !.premium = p, !.d.startBatchNo = b.nextBatchNo, !.panic = q]
            armA == f.done
            armB == ~f.done /\ (f.d.rounds <= f.fullRounds \/ ~isFull(b))
            g == collectBatch(f)
            x == PremiumPoint(k, f.d.startBatchNo, from + f.fullRounds, f.premium)
<1>1. g = CASE armA -> f [] armB -> rb [] OTHER -> rc
  BY DEF collectBatch
<1>2. /\ DOMAIN f = BatchesFields /\ f.s = s
      /\ DOMAIN f.d = DemandRecord /\ f.d.rounds = d.rounds - from /\ f.d.unitPerRound = d.unitPerRound
      /\ f.fullRounds \in Nat /\ Walked(s, d, w)
  BY DEF BatchesGood
<1>3. f.d.premiumRate = d.premiumRate /\ (from + f.fullRounds = 0 => f.d.startBatchNo = d.startBatchNo) /\ Paid(s, log, x)
  BY DEF PaidBatches
<1>4. log \in Seq(Slots) /\ Len(log) \in Nat /\ d \in Slots /\ SlotPlaced(pos, d) /\ d.rounds \in Nat
  <2>1. log \in Seq(Slots) /\ k \in DOMAIN log
    BY DEF LogPlaced
  <2>2. d \in Slots /\ SlotPlaced(pos, d)
    BY <2>1 DEF LogPlaced
  <2>. QED
    BY <2>1, <2>2 DEF Slots
<1>5. w.n = f.d.startBatchNo /\ w.got = from + f.fullRounds
  BY DEF PointOf
<1>6. /\ x.k = k /\ x.got = from + f.fullRounds /\ x.premium = f.premium /\ PointBatch(log, x) = f.d.startBatchNo
  <2>. DEFINE got == from + f.fullRounds
              y == PremiumPoint(k, f.d.startBatchNo, got, f.premium)
  <2>1. got = 0 => f.d.startBatchNo = log[k].startBatchNo
    BY <1>3
  <2>. HIDE DEF got
  <2>2. y.k = k /\ y.got = got /\ y.premium = f.premium /\ PointBatch(log, y) = f.d.startBatchNo
    BY <2>1 DEF PremiumPoint, PointBatch
  <2>. QED
    BY <2>2 DEF got
<1>7. CASE armA
  <2>1. g = f
    BY <1>1, <1>7
  <2>. QED
    BY <2>1
<1>8. CASE armB
  <2>1. g = rb
    BY <1>1, <1>8
  <2>2. rb.d = f.d /\ rb.fullRounds = f.fullRounds /\ rb.premium = f.premium
    BY <1>2 DEF BatchesFields
  <2>. HIDE DEF rb, g
  <2>3. PaidBatches(s, log, k, from, rb)
    BY <1>3, <2>2 DEF PaidBatches
  <2>. QED
    BY <2>1, <2>3 DEF g
<1>9. CASE ~armA /\ ~armB
  <2>1. g = rc
    BY <1>1, <1>9
  <2>2. w.got < d.rounds /\ isFull(b) /\ ~(d.rounds <= x.got)
    <3>1. ~(f.d.rounds <= f.fullRounds) /\ isFull(b)
      BY <1>9
    <3>. HIDE DEF b, w, x, d
    <3>. QED
      BY <1>2, <1>4, <1>5, <1>6, <3>1
  <2>3. w \in OnWalk(pos, d)
    BY <1>2, <1>4, WalkStays
  <2>. DEFINE n == f.d.startBatchNo
              R == RoundsAt(s, n)
              next == NextOf(s, n)
  <2>4. R \in Nat \ {0}
    <3>. HIDE DEF w, d
    <3>. QED
      BY <1>4, <1>5, <2>2, <2>3, WalkMoves
  <2>5. b.rounds = R /\ b.nextBatchNo = next /\ b = BatchAt(s, n)
    BY <1>2 DEF RoundsAt, NextOf
  <2>6. ~PremiumStops(s, log, x)
    <3>1. ~(x.k > Len(log))
      BY <1>4, <1>6
    <3>2. FullAt(s, PointBatch(log, x))
      BY <1>6, <2>2, <2>5 DEF FullAt
    <3>. HIDE DEF x
    <3>. QED
      BY <3>1, <3>2 DEF PremiumStops
  <2>7. p = PremiumOfBatch(s, d, n, f.premium)
    <3>1. p = premium
      BY <2>4, <2>5
    <3>2. premium = PremiumOfBatch(s, d, n, f.premium)
      BY <1>2, <1>3, <2>5 DEF PremiumOfBatch
    <3>. QED
      BY <3>1, <3>2
  <2>. HIDE DEF b, p, R, next, d, q
  <2>8. rc.fullRounds = f.fullRounds + R /\ rc.premium = p /\ rc.d = [f.d EXCEPT !.startBatchNo = next]
    BY <1>2, <2>5 DEF BatchesFields
  <2>9. rc.d.startBatchNo = next /\ rc.d.premiumRate = d.premiumRate
    BY <1>2, <1>3, <2>8 DEF DemandRecord
  <2>. HIDE DEF rc, g, armA, armB, rb
  <2>10. from + rc.fullRounds = (from + f.fullRounds) + R /\ from + rc.fullRounds # 0
    BY <1>2, <2>4, <2>8
  <2>11. PremiumMove(s, log, x) = PremiumPoint(k, next, from + rc.fullRounds, p)
    <3>1. PremiumMove(s, log, x) = PremiumPoint(x.k, NextOf(s, PointBatch(log, x)),
               x.got + RoundsAt(s, PointBatch(log, x)), PremiumOfBatch(s, log[x.k], PointBatch(log, x), x.premium))
      <4>1. ~(log[x.k].rounds <= x.got)
        BY <1>6, <2>2 DEF d
      <4>. HIDE DEF x
      <4>. QED
        BY <4>1 DEF PremiumMove
    <3>. HIDE DEF x
    <3>. QED
      BY <1>6, <2>7, <2>10, <3>1 DEF R, next, d
  <2>12. Paid(s, log, PremiumPoint(k, next, from + rc.fullRounds, p))
    BY <1>3, <2>6, <2>11, PaidOn
  <2>13. PaidBatches(s, log, k, from, rc)
    BY <2>8, <2>9, <2>10, <2>12 DEF PaidBatches, d
  <2>. QED
    BY <2>1, <2>13 DEF g
<1>. QED
  BY <1>7, <1>8, <1>9

\* The batches of a slot pay the premium of all their rounds.
LEMMA BatchesArePaid ==
    ASSUME NEW s, NEW pos, Placed(s, pos), NEW log, LogPlaced(pos, log), NEW k \in 1..Len(log), NEW from \in Nat,
           NEW frame, NEW it, NEW f, BatchesRunTo(s, pos, log[k], from, frame, it, f), PaidBatches(s, log, k, from, frame)
    PROVE  PaidBatches(s, log, k, from, f)
<1>. DEFINE m == s.batchCount + 1
            G == {j \in 0..m : PaidBatches(s, log, k, from, it[j])}
<1>1. s.batchCount \in Nat /\ m \in Nat
  BY DEF Placed
<1>2. it[0] = frame /\ it[m] = f
  BY DEF BatchesRunTo
<1>3. 0 \in G
  BY <1>1, <1>2
<1>4. ASSUME NEW j \in 0..(m - 1), j \in G PROVE j + 1 \in G
  <2>1. j \in 0..s.batchCount /\ j \in 0..m /\ j + 1 \in 0..m /\ PaidBatches(s, log, k, from, it[j])
    BY <1>1, <1>4
  <2>2. it[j + 1] = collectBatch(it[j]) /\ BatchesGood(s, pos, log[k], from, it[j], j)
    BY <2>1 DEF BatchesRunTo
  <2>3. PaidBatches(s, log, k, from, it[j + 1])
    BY <2>1, <2>2, BatchIsPaid
  <2>. QED
    BY <2>1, <2>3
<1>. HIDE DEF G, m
<1>5. 0..m \subseteq G /\ m \in 0..m
  BY <1>1, <1>3, <1>4, UpToInduction
<1>. QED
  BY <1>2, <1>5 DEF G

\* The frame of a slot, at its beginning.
LEMMA SlotBeginsPaid ==
    ASSUME NEW s, NEW log \in Seq(Slots), NEW c, CoveredAs(s, log, c.covered), c.covered.lastUpdateIndex < Len(log),
           PaidAs(s, log, c.covered, c.premium), NEW panic
    PROVE  LET old == c.covered
               k == old.lastUpdateIndex + 1
               from == old.lastUpdateRounds
           IN  PaidBatches(s, log, k, from,
                   BatchesStart(s, RestOf(log[k], from, old.lastUpdateBatchNo), c.premium, panic))
<1>. DEFINE old == c.covered
            k == old.lastUpdateIndex + 1
            d == log[k]
            from == old.lastUpdateRounds
            rest == RestOf(d, from, old.lastUpdateBatchNo)
            f == BatchesStart(s, rest, c.premium, panic)
            p == c.premium
<1>1. from \in Nat /\ d \in Slots
  BY CoveredBegun
<1>2. DOMAIN d = DemandRecord
  BY <1>1 DEF Slots, DemandRecord
<1>3. Paid(s, log, PremiumPoint(k, old.lastUpdateBatchNo, from, p))
  BY DEF PaidAs, PointOfCover
<1>4. f.d = rest /\ f.fullRounds = 0 /\ f.premium = p
  BY DEF BatchesStart
<1>. HIDE DEF f, d, k, from, p
<1>5. from + f.fullRounds = from
  BY <1>1, <1>4
<1>6. CASE from = 0
  <2>1. rest = d
    BY <1>6 DEF RestOf
  <2>. HIDE DEF rest
  <2>2. f.d.premiumRate = d.premiumRate /\ f.d.startBatchNo = d.startBatchNo
    BY <1>4, <2>1
  <2>3. \A n : PremiumPoint(k, n, from, p) = PremiumPoint(k, old.lastUpdateBatchNo, from, p)
    BY <1>6 DEF PremiumPoint
  <2>4. PaidBatches(s, log, k, from, f)
    BY <1>3, <1>4, <1>5, <2>2, <2>3 DEF PaidBatches, d
  <2>. QED
    BY <2>4 DEF f, d, k, from, p, rest
<1>7. CASE from # 0
  <2>1. rest = [d EXCEPT !.rounds = @ - from, !.startBatchNo = old.lastUpdateBatchNo]
    BY <1>7 DEF RestOf
  <2>. HIDE DEF rest
  <2>2. f.d.premiumRate = d.premiumRate /\ f.d.startBatchNo = old.lastUpdateBatchNo
    BY <1>2, <1>4, <2>1 DEF DemandRecord
  <2>3. PaidBatches(s, log, k, from, f)
    BY <1>3, <1>4, <1>5, <1>7, <2>2 DEF PaidBatches, d
  <2>. QED
    BY <2>3 DEF f, d, k, from, p, rest
<1>. QED
  BY <1>6, <1>7

\* Collecting a slot pays the premium of what it takes.
LEMMA SlotIsPaid ==
    ASSUME NEW s, NEW pos, Placed(s, pos), NEW log, LogPlaced(pos, log),
           NEW c, DOMAIN c = CollectFields, c.panic = FALSE, c.done = FALSE, CoveredAs(s, log, c.covered),
           c.covered.lastUpdateIndex < Len(log), PaidFrame(s, log, c),
           NEW g, g = collectCoveredDemandSlot(s, log[c.covered.lastUpdateIndex + 1], c)
    PROVE  PaidFrame(s, log, g)
<1>. DEFINE old == c.covered
            k == old.lastUpdateIndex + 1
            d == log[k]
            from == old.lastUpdateRounds
            rest == RestOf(d, from, old.lastUpdateBatchNo)
            frame == BatchesStart(s, rest, c.premium, c.panic)
            f == Iterate(collectBatch, frame, s.batchCount + 1)
            units == withoutPartial(old, rest) + f.fullRounds * rest.unitPerRound
            part == s.partial
            n == f.d.startBatchNo
            b == BatchAt(s, n)
            pending == (part.roundCoverage * rest.unitPerRound) \div b.unitPerRound
            total == calcPremium(s, n, rest.unitPerRound, f.premium, part.roundNo, pending, rest.premiumRate, b.unitPerRound)
            fails == f.panic \/ rest.rounds # f.fullRounds
            partUnits == units + part.roundNo * rest.unitPerRound
            got == from + f.fullRounds
            ra == [c EXCEPT !.covered = slotCollected(old, units),
                            !.premium = f.premium, !.total = f.premium, !.panic = fails]
            cb == [coveredUnits |-> partUnits, lastUpdateIndex |-> old.lastUpdateIndex, lastUpdateBatchNo |-> n,
                   lastUpdateRounds |-> got, lastPartialRoundNo |-> part.roundNo]
            rb == [c EXCEPT !.covered = cb, !.premium = f.premium, !.pendingCovered = pending, !.done = TRUE,
                            !.total = total, !.panic = f.panic]
            cc == [coveredUnits |-> units, lastUpdateIndex |-> old.lastUpdateIndex, lastUpdateBatchNo |-> n,
                   lastUpdateRounds |-> got, lastPartialRoundNo |-> 0]
            rc == [c EXCEPT !.covered = cc, !.premium = f.premium, !.total = f.premium, !.done = TRUE, !.panic = f.panic]
            armA == rest.rounds <= f.fullRounds
            armB == rest.rounds > f.fullRounds /\ part.batchNo = n /\ PartialRounds(part) > 0
            x == PremiumPoint(k, n, got, f.premium)
<1>1. g = CASE armA -> ra [] armB -> rb [] OTHER -> rc
  BY DEF collectCoveredDemandSlot, RestOf, BatchesStart
<1>2. /\ log \in Seq(Slots) /\ k \in DOMAIN log /\ d \in Slots /\ SlotBegun(s, d, old) /\ from \in Nat
      /\ d.rounds \in Nat /\ SlotPlaced(pos, d)
  <2>1. log \in Seq(Slots)
    BY DEF LogPlaced
  <2>2. k \in DOMAIN log /\ d \in Slots /\ SlotBegun(s, d, old) /\ from \in Nat /\ d.rounds \in Nat
    BY <2>1, CoveredBegun
  <2>. QED
    BY <2>1, <2>2 DEF LogPlaced
<1>3. k \in 1..Len(log) /\ Len(log) \in Nat
  BY <1>2
<1>4. PaidBatches(s, log, k, from, frame)
  BY <1>2, SlotBeginsPaid DEF PaidFrame
<1>5. PICK it : BatchesRunTo(s, pos, d, from, frame, it, f)
  <2>. HIDE DEF from
  <2>. QED
    BY <1>2, SlotFrames DEF SlotBegun, from
<1>. HIDE DEF f, frame
<1>6. PaidBatches(s, log, k, from, f)
  <2>. HIDE DEF k, from
  <2>. QED
    BY <1>2, <1>3, <1>4, <1>5, BatchesArePaid DEF d
<1>7. \E j : BatchesGood(s, pos, d, from, f, j) /\ WalkStops(s, d, PointOf(f, from))
  <2>. HIDE DEF from, d
  <2>. QED
    BY <1>2, <1>5, SlotIsWalked
<1>8. f.fullRounds \in Nat /\ f.d.unitPerRound = d.unitPerRound /\ WalkStops(s, d, PointOf(f, from))
  BY <1>7 DEF BatchesGood
<1>9. /\ rest.unitPerRound = d.unitPerRound /\ rest.premiumRate = d.premiumRate /\ rest.rounds = d.rounds - from
  <2>1. DOMAIN d = DemandRecord
    BY <1>2 DEF Slots, DemandRecord
  <2>2. CASE from = 0
    <3>1. rest = d
      BY <2>2 DEF RestOf
    <3>. HIDE DEF rest, d, from
    <3>. QED
      BY <1>2, <2>2, <3>1
  <2>3. CASE from # 0
    <3>1. rest = [d EXCEPT !.rounds = @ - from, !.startBatchNo = old.lastUpdateBatchNo]
      BY <2>3 DEF RestOf
    <3>. HIDE DEF rest, d, from
    <3>. QED
      BY <2>1, <3>1 DEF DemandRecord
  <2>. QED
    BY <2>2, <2>3
<1>10. Paid(s, log, x) /\ (got = 0 => n = log[k].startBatchNo)
  BY <1>6 DEF PaidBatches
<1>. HIDE DEF rest, from, n, b, pending, total, fails, units, partUnits
<1>11. got \in Nat /\ (armA <=> d.rounds <= got)
  <2>. HIDE DEF d
  <2>. QED
    BY <1>2, <1>8, <1>9
<1>12. /\ x.k = k /\ x.got = got /\ x.premium = f.premium /\ PointBatch(log, x) = n
  <2>. HIDE DEF got, k
  <2>. QED
    BY <1>10 DEF PremiumPoint, PointBatch
<1>. HIDE DEF got
<1>13. CASE armA
  <2>1. g = ra
    <3>1. ~armB
      BY <1>2, <1>8, <1>9, <1>13
    <3>. HIDE DEF ra, rb, rc, armA, armB
    <3>. QED
      BY <1>1, <1>13, <3>1
  <2>2. ra.covered = slotCollected(old, units) /\ ra.premium = f.premium /\ ra.total = f.premium /\ ra.done = FALSE
    BY DEF CollectFields
  <2>. HIDE DEF ra
  <2>3. PointOfCover(ra.covered, ra.premium) = PremiumPoint(k + 1, 0, 0, f.premium)
    BY <2>2 DEF slotCollected, NoCoverage, PointOfCover, PremiumPoint
  <2>. HIDE DEF k, x
  <2>4. ~PremiumStops(s, log, x) /\ PremiumMove(s, log, x) = PremiumPoint(k + 1, 0, 0, f.premium)
    <3>1. log[x.k].rounds <= x.got /\ ~(x.k > Len(log))
      BY <1>3, <1>11, <1>12, <1>13 DEF d
    <3>. QED
      BY <1>12, <3>1 DEF PremiumStops, PremiumMove
  <2>5. Paid(s, log, PremiumPoint(k + 1, 0, 0, f.premium))
    BY <1>10, <2>4, PaidOn
  <2>6. PaidAs(s, log, ra.covered, ra.premium)
    BY <2>3, <2>5 DEF PaidAs
  <2>. QED
    BY <2>1, <2>2, <2>6 DEF PaidFrame
<1>14. CASE ~armA
  <2>1. PremiumStops(s, log, x)
    <3>1. ~(d.rounds <= got)
      BY <1>11, <1>14
    <3>2. ~FullAt(s, n)
      BY <1>8, <3>1 DEF WalkStops, PointOf, got, n
    <3>. HIDE DEF x, k
    <3>. QED
      BY <1>12, <3>1, <3>2 DEF PremiumStops, d
  <2>2. x.k <= Len(log) /\ log[x.k] = d
    <3>. HIDE DEF x, k
    <3>. QED
      BY <1>3, <1>12 DEF d
  <2>3. CASE armB
    <3>1. g = rb
      <4>. HIDE DEF ra, rb, rc, armA, armB
      <4>. QED
        BY <1>1, <1>14, <2>3
    <3>2. rb.covered = cb /\ rb.premium = f.premium /\ rb.total = total /\ rb.done = TRUE
      BY DEF CollectFields
    <3>. HIDE DEF rb
    <3>3. PointOfCover(rb.covered, rb.premium) = x
      BY <3>2 DEF PointOfCover
    <3>4. StopTotal(s, log, x) = total
      <4>1. part.batchNo = PointBatch(log, x) /\ PartialRounds(part) > 0
        <5>. HIDE DEF x
        <5>. QED
          BY <1>12, <2>3
      <4>2. StopTotal(s, log, x) = TotalInPartial(s, d, n, f.premium)
        <5>. HIDE DEF x
        <5>. QED
          BY <1>12, <2>2, <4>1 DEF StopTotal
      <4>3. PendingOf(s, d, n) = pending
        BY <1>9 DEF PendingOf, pending, b
      <4>. QED
        BY <1>9, <4>2, <4>3 DEF TotalInPartial, total, b
    <3>. HIDE DEF x
    <3>. QED
      BY <1>10, <2>1, <3>1, <3>2, <3>3, <3>4 DEF PaidFrame, PaidAs
  <2>4. CASE ~armB
    <3>1. g = rc
      <4>. HIDE DEF ra, rb, rc, armA, armB
      <4>. QED
        BY <1>1, <1>14, <2>4
    <3>2. rc.covered = cc /\ rc.premium = f.premium /\ rc.total = f.premium /\ rc.done = TRUE
      BY DEF CollectFields
    <3>. HIDE DEF rc
    <3>3. PointOfCover(rc.covered, rc.premium) = x
      BY <3>2 DEF PointOfCover
    <3>4. StopTotal(s, log, x) = f.premium
      <4>1. ~(part.batchNo = PointBatch(log, x) /\ PartialRounds(part) > 0)
        <5>1. rest.rounds > f.fullRounds
          BY <1>2, <1>8, <1>9, <1>14
        <5>. HIDE DEF x
        <5>. QED
          BY <1>12, <2>4, <5>1
      <4>. HIDE DEF x
      <4>. QED
        BY <1>12, <4>1 DEF StopTotal
    <3>. HIDE DEF x
    <3>. QED
      BY <1>10, <2>1, <3>1, <3>2, <3>3, <3>4 DEF PaidFrame, PaidAs
  <2>. QED
    BY <2>3, <2>4
<1>. QED
  BY <1>13, <1>14

\* One slot of a collection, or the end of the log.
LEMMA TurnIsPaid ==
    ASSUME NEW s, NEW pos, Placed(s, pos), NEW log, LogPlaced(pos, log),
           NEW c, NEW k, CollectGood(s, log, c, k), PaidFrame(s, log, c)
    PROVE  PaidFrame(s, log, collectTurn(s, log, c))
<1>. DEFINE i == c.covered.lastUpdateIndex
            g == collectTurn(s, log, c)
            x == PointOfCover(c.covered, c.premium)
<1>1. DOMAIN c = CollectFields /\ c.panic = FALSE /\ c.done \in BOOLEAN /\ CoveredAs(s, log, c.covered)
  BY DEF CollectGood
<1>2. i \in 0..Len(log) /\ Len(log) \in Nat
  BY <1>1 DEF CoveredAs, LogPlaced
<1>3. CASE c.done \/ i >= Len(log)
  <2>1. g = [c EXCEPT !.done = TRUE]
    BY <1>3 DEF collectTurn
  <2>2. g.done = TRUE /\ g.covered = c.covered /\ g.premium = c.premium /\ g.total = c.total
    BY <1>1, <2>1 DEF CollectFields
  <2>3. PremiumStops(s, log, x) /\ c.total = StopTotal(s, log, x)
    <3>1. CASE c.done
      BY <3>1 DEF PaidFrame
    <3>2. CASE ~c.done
      <4>1. x.k = i + 1 /\ x.premium = c.premium
        BY DEF PointOfCover, PremiumPoint
      <4>. HIDE DEF x, i
      <4>2. x.k > Len(log) /\ ~(x.k <= Len(log))
        BY <1>2, <1>3, <3>2, <4>1
      <4>3. c.total = c.premium
        BY <3>2 DEF PaidFrame
      <4>. QED
        BY <4>1, <4>2, <4>3 DEF PremiumStops, StopTotal
    <3>. QED
      BY <3>1, <3>2
  <2>. HIDE DEF g
  <2>4. PaidFrame(s, log, g)
    BY <2>2, <2>3 DEF PaidFrame
  <2>. QED
    BY <2>4 DEF g
<1>4. CASE ~c.done /\ ~(i >= Len(log))
  <2>1. g = collectCoveredDemandSlot(s, log[i + 1], c)
    BY <1>4 DEF collectTurn
  <2>2. i < Len(log) /\ c.done = FALSE
    BY <1>1, <1>2, <1>4
  <2>. HIDE DEF g
  <2>3. PaidFrame(s, log, g)
    BY <1>1, <2>1, <2>2, SlotIsPaid
  <2>. QED
    BY <2>3 DEF g
<1>. QED
  BY <1>3, <1>4

\* Nothing is paid before anything is collected.
LEMMA NothingPaid == \A s, log : PaidAs(s, log, NoCoverage, NoPremium)
<1>1. PointOfCover(NoCoverage, NoPremium) = PremiumStart
  BY DEF PointOfCover, NoCoverage, PremiumStart, PremiumPoint
<1>. QED
  BY <1>1, PaidOn DEF PaidAs

(***************************************************************************)
(* Collecting under a loop limit leaves the premium of what is collected;  *)
(* without a limit its total is that where the way stops.                  *)
(***************************************************************************)
LEMMA CollectingIsPaid ==
    ASSUME NEW s, NEW pos, Placed(s, pos), IsPart(s.partial), NEW insured, NEW log, log = s.demands[insured],
           LogPlaced(pos, log), CoveredAs(s, log, s.covered[insured]), NEW limit \in Nat,
           PaidAs(s, log, s.covered[insured], s.premiums[insured]), log = <<>> => s.premiums[insured] = NoPremium,
           NEW r, r = internalGetCoveredDemand(s, insured, limit)
    PROVE  /\ PaidAs(s, log, r.covered, r.premium)
           /\ log = <<>> => r.premium = NoPremium
           /\ limit = Len(log) + 1 =>
                 \E x : Paid(s, log, x) /\ PremiumStops(s, log, x) /\ r.total = StopTotal(s, log, x)
<1>. DEFINE start == collectStart(s, insured)
            n == Min({limit, Len(log) + 1})
<1>1. log \in Seq(Slots) /\ Len(log) \in Nat /\ Len(log) + 1 \in Nat
  BY DEF LogPlaced
<1>2. CASE log = <<>>
  <2>1. r = [start EXCEPT !.covered = NoCoverage, !.done = TRUE]
    BY <1>2 DEF internalGetCoveredDemand, collectStart
  <2>2. r.covered = NoCoverage /\ r.premium = NoPremium /\ r.total = NoPremium
    BY <1>2, <2>1 DEF collectStart
  <2>3. PremiumStart.k = 1 /\ PremiumStart.premium = NoPremium /\ Len(log) = 0
    BY <1>2 DEF PremiumStart, PremiumPoint
  <2>4. PremiumStops(s, log, PremiumStart) /\ StopTotal(s, log, PremiumStart) = NoPremium
    BY <2>3 DEF PremiumStops, StopTotal
  <2>5. Paid(s, log, PremiumStart)
    BY PaidOn
  <2>. QED
    BY <2>2, <2>4, <2>5, NothingPaid
<1>3. CASE log # <<>>
  <2>1. n \in Nat /\ (limit = Len(log) + 1 => n = Len(log) + 1)
    BY <1>1, MinOfTwo
  <2>2. PICK it : CollectFrames("slots", s, log, it, start, n) /\ r = it[n]
    BY <1>3, <2>1, SlotsRun
  <2>. HIDE DEF n
  <2>3. \A k \in 0..n : it[k] = IF k = 0 THEN start ELSE collectTurn(s, log, it[k - 1])
    BY <2>2 DEF CollectFrames, CollectStep
  <2>. DEFINE G == {k \in 0..n : CollectGood(s, log, it[k], k) /\ PaidFrame(s, log, it[k])}
  <2>4. 0 \in G
    <3>1. it[0] = start /\ 0 \in 0..n
      BY <2>1, <2>3
    <3>2. /\ DOMAIN start = CollectFields /\ start.panic = FALSE /\ start.done = FALSE
          /\ start.covered = s.covered[insured] /\ start.premium = s.premiums[insured] /\ start.total = s.premiums[insured]
      BY DEF collectStart, CollectFields
    <3>. HIDE DEF start
    <3>3. 0 <= start.covered.lastUpdateIndex
      <4>1. \A x \in 0..Len(log) : 0 <= x
        BY <1>1
      <4>. QED
        BY <3>2, <4>1 DEF CoveredAs
    <3>4. CollectGood(s, log, start, 0)
      BY <3>2, <3>3 DEF CollectGood
    <3>5. PaidFrame(s, log, start)
      BY <3>2 DEF PaidFrame
    <3>. QED
      BY <3>1, <3>4, <3>5
  <2>. HIDE DEF start
  <2>5. ASSUME NEW k \in 0..(n - 1), k \in G PROVE k + 1 \in G
    <3>1. k \in Nat /\ k + 1 \in 0..n /\ k + 1 # 0 /\ (k + 1) - 1 = k /\ CollectGood(s, log, it[k], k) /\ PaidFrame(s, log, it[k])
      BY <2>1, <2>5
    <3>2. it[k + 1] = collectTurn(s, log, it[k])
      BY <2>3, <3>1
    <3>3. CollectGood(s, log, it[k + 1], k + 1)
      BY <3>1, <3>2, SlotTurn
    <3>4. PaidFrame(s, log, it[k + 1])
      BY <3>1, <3>2, TurnIsPaid
    <3>. QED
      BY <3>1, <3>3, <3>4
  <2>6. n \in G
    <3>. HIDE DEF G
    <3>1. 0..n \subseteq G
      BY <2>1, <2>4, <2>5, UpToInduction
    <3>. QED
      BY <2>1, <3>1
  <2>7. CollectGood(s, log, r, n) /\ PaidFrame(s, log, r)
    BY <2>2, <2>6
  <2>8. PaidAs(s, log, r.covered, r.premium)
    BY <2>7 DEF PaidFrame
  <2>9. ASSUME limit = Len(log) + 1
        PROVE  \E x : Paid(s, log, x) /\ PremiumStops(s, log, x) /\ r.total = StopTotal(s, log, x)
    <3>1. r.covered.lastUpdateIndex \in 0..Len(log) /\ r.done \in BOOLEAN
      BY <2>7 DEF CollectGood, CoveredAs
    <3>2. ~(n <= r.covered.lastUpdateIndex)
      BY <1>1, <2>1, <2>9, <3>1
    <3>3. r.done
      BY <2>7, <3>1, <3>2 DEF CollectGood
    <3>. QED
      BY <2>7, <3>3 DEF PaidFrame, PaidAs
  <2>. QED
    BY <1>3, <2>8, <2>9
<1>. QED
  BY <1>2, <1>3


-----------------------------------------------------------------------------
(* The premium under every step while nothing is cancelled.                *)

(* Every insured has the premium one finds on the way it came through its log. *)
PremOK(s) ==
    /\ DOMAIN s.premiums = Insureds
    /\ \A i \in Insureds : /\ PaidAs(s, s.demands[i], s.covered[i], s.premiums[i])
                           /\ s.demands[i] = <<>> => s.premiums[i] = NoPremium

(* The inductive invariant: what is collected, and the premium along it. *)
PremInv == CoverInv /\ MarksOK(Storage) /\ PremOK(Storage)

(* What was collected and paid after a step is found in the logs before it. *)
PaysAlong(s, t) ==
    /\ DOMAIN t.premiums = Insureds
    /\ \A i \in Insureds : /\ PaidAs(s, s.demands[i], t.covered[i], t.premiums[i])
                           /\ s.demands[i] = <<>> => t.premiums[i] = NoPremium

\* Only collecting writes premiums, and it goes on along the log.
LEMMA StepPaysAlong ==
    ASSUME PremInv, [Allocation]_vars
    PROVE  PaysAlong(Storage, Storage')
<1>. DEFINE s == Storage
            t == Storage'
<1>1. CollectsAlong(s, t) /\ PremOK(s) /\ LogsOK(s) /\ CoverOK(s)
  BY StepTakesNothing DEF PremInv, CoverInv, LogsInv
<1>2. t.covered = covered' /\ s.covered = covered /\ t.premiums = premiums' /\ s.premiums = premiums
  BY DEF Storage
<1>3. CASE t.covered = s.covered /\ t.premiums = s.premiums
  <2>. HIDE DEF s, t
  <2>1. PaysAlong(s, t)
    BY <1>1, <1>3 DEF PaysAlong, PremOK
  <2>. QED
    BY <2>1 DEF s, t
<1>4. CASE \E i \in Insureds : receiveDemandedCoverage(i)
  <2>1. PICK i \in Insureds : receiveDemandedCoverage(i)
    BY <1>4
  <2>2. PICK limit \in LoopLimits :
           /\ covered' = [covered EXCEPT ![i] = internalGetCoveredDemand(Storage, i, limit).covered]
           /\ premiums' = [premiums EXCEPT ![i] = internalGetCoveredDemand(Storage, i, limit).premium]
    BY <2>1 DEF receiveDemandedCoverage
  <2>. DEFINE r == internalGetCoveredDemand(s, i, limit)
  <2>3. covered' = [covered EXCEPT ![i] = r.covered] /\ premiums' = [premiums EXCEPT ![i] = r.premium] /\ limit \in Nat
    BY <2>2, RoundsAssumption
  <2>4. PICK L : EngineStore(s, L)
    BY DEF PremInv, CoverInv, LogsInv, RoundsInv
  <2>. HIDE DEF s, t
  <2>5. PICK pos : Readable(s, pos, i)
    BY <1>1, <2>4, LogsAreReadable
  <2>6. PaidAs(s, s.demands[i], r.covered, r.premium) /\ (s.demands[i] = <<>> => r.premium = NoPremium)
    <3>1. Placed(s, pos) /\ IsPart(s.partial) /\ LogPlaced(pos, s.demands[i]) /\ CoveredAs(s, s.demands[i], s.covered[i])
      BY <2>5 DEF Readable, PartInBatch
    <3>2. PaidAs(s, s.demands[i], s.covered[i], s.premiums[i]) /\ (s.demands[i] = <<>> => s.premiums[i] = NoPremium)
      BY <1>1 DEF PremOK
    <3>. HIDE DEF r
    <3>3. r = internalGetCoveredDemand(s, i, limit)
      BY DEF r
    <3>. QED
      BY <2>3, <3>1, <3>2, <3>3, CollectingIsPaid
  <2>. HIDE DEF r
  <2>7. DOMAIN s.covered = Insureds /\ DOMAIN s.premiums = Insureds
    BY <1>1 DEF CoverOK, PremOK
  <2>8. /\ DOMAIN t.premiums = Insureds
        /\ t.covered[i] = r.covered /\ t.premiums[i] = r.premium
        /\ \A j \in Insureds : j # i => t.covered[j] = s.covered[j] /\ t.premiums[j] = s.premiums[j]
    BY <1>2, <2>3, <2>7
  <2>9. ASSUME NEW j \in Insureds
        PROVE  PaidAs(s, s.demands[j], t.covered[j], t.premiums[j]) /\ (s.demands[j] = <<>> => t.premiums[j] = NoPremium)
    <3>1. CASE j = i
      BY <2>6, <2>8, <3>1
    <3>2. CASE j # i
      BY <1>1, <2>8, <3>2 DEF PremOK
    <3>. QED
      BY <3>1, <3>2
  <2>10. PaysAlong(s, t)
    BY <2>8, <2>9 DEF PaysAlong
  <2>. QED
    BY <2>10 DEF s, t
<1>. QED
  BY <1>1, <1>3, <1>4 DEF CollectsAlong

\* Nothing is paid before the first call.
LEMMA PremInit == Init => PremInv
<1> SUFFICES ASSUME Init PROVE PremInv
  OBVIOUS
<1>. DEFINE s == Storage
<1>1. CoverInv
  BY CoverInit
<1>2. /\ s.covered = [i \in Insureds |-> NoCoverage] /\ s.premiums = [i \in Insureds |-> NoPremium]
      /\ s.batchCount = 0 /\ s.marks = <<>>
  BY DEF Init, Storage
<1>. HIDE DEF s
<1>3. MarksOK(s)
  <2>1. DOMAIN <<>> = 1..0 /\ 0 \in Nat
    OBVIOUS
  <2>. QED
    BY <1>2, <2>1 DEF MarksOK
<1>4. \A i \in Insureds : PaidAs(s, s.demands[i], s.covered[i], s.premiums[i])
  <2>. TAKE i \in Insureds
  <2>1. s.covered[i] = NoCoverage /\ s.premiums[i] = NoPremium
    BY <1>2
  <2>. QED
    BY <2>1, NothingPaid
<1>5. PremOK(s)
  BY <1>2, <1>4 DEF PremOK
<1>. QED
  BY <1>1, <1>3, <1>5 DEF PremInv, s

\* The invariant is inductive under Allocation.
LEMMA PremKept == PremInv /\ [Allocation]_vars => PremInv'
<1> SUFFICES ASSUME PremInv, [Allocation]_vars PROVE PremInv'
  OBVIOUS
<1>. DEFINE s == Storage
            t == Storage'
<1>1. CoverInv'
  BY CoverKept DEF PremInv
<1>2. Frozen(s, t)
  BY AllocationKept DEF PremInv, CoverInv, LogsInv, StepKept
<1>3. TakesNothing(s, t) /\ PaysAlong(s, t)
  BY StepTakesNothing, StepPaysAlong DEF PremInv
<1>4. PICK L : EngineStore(s, L)
  BY DEF PremInv, CoverInv, LogsInv, RoundsInv
<1>5. LogsOK(s) /\ CoverOK(s) /\ MarksOK(s)
  BY DEF PremInv, CoverInv, LogsInv
<1>. HIDE DEF s, t
<1>6. PICK pos : \A i \in Insureds : Readable(s, pos, i)
  BY <1>4, <1>5, LogsAreReadable
<1>7. MarksOK(t) /\ MarksOn(s, t)
  BY <1>3, <1>5 DEF TakesNothing, MarksOn
<1>8. ASSUME NEW i \in Insureds
      PROVE  PaidAs(t, t.demands[i], t.covered[i], t.premiums[i]) /\ (t.demands[i] = <<>> => t.premiums[i] = NoPremium)
  <2>1. Placed(s, pos) /\ LogPlaced(pos, s.demands[i])
    BY <1>6 DEF Readable
  <2>2. LogGrows(s.demands[i], t.demands[i])
    BY <1>3 DEF TakesNothing
  <2>3. PaidAs(s, s.demands[i], t.covered[i], t.premiums[i]) /\ (s.demands[i] = <<>> => t.premiums[i] = NoPremium)
    BY <1>3 DEF PaysAlong
  <2>4. PaidAs(t, t.demands[i], t.covered[i], t.premiums[i])
    BY <1>2, <1>5, <1>7, <2>1, <2>2, <2>3, PaidFrozen DEF PaidAs
  <2>5. t.demands[i] = <<>> => s.demands[i] = <<>>
    <3>1. s.demands[i] \in Seq(Slots) /\ Len(s.demands[i]) <= Len(t.demands[i])
      BY <2>2 DEF LogGrows
    <3>2. \A log \in Seq(Slots) : Len(log) <= 0 => log = <<>>
      OBVIOUS
    <3>3. Len(<<>>) = 0
      OBVIOUS
    <3>. QED
      BY <3>1, <3>2, <3>3
  <2>. QED
    BY <2>3, <2>4, <2>5
<1>9. PremOK(t)
  BY <1>3, <1>8 DEF PremOK, PaysAlong
<1>. QED
  BY <1>1, <1>7, <1>9 DEF PremInv, t

\* While nothing is cancelled, the premium is that of the way through the log.
THEOREM PremiumInvariant == AllocationSpec => []PremInv
  BY PremInit, PremKept, PTL DEF AllocationSpec

\* The way depends on the batches, their time marks and the partial batch.
LEMMA SameWay ==
    ASSUME NEW s, NEW t, t.batches = s.batches, t.marks = s.marks, t.partial = s.partial, NEW log, NEW x
    PROVE  /\ Paid(t, log, x) <=> Paid(s, log, x)
           /\ PremiumStops(t, log, x) <=> PremiumStops(s, log, x)
           /\ StopTotal(t, log, x) = StopTotal(s, log, x)
<1>1. \A n : BatchAt(t, n) = BatchAt(s, n)
  BY DEF BatchAt
<1>2. \A n : (FullAt(t, n) <=> FullAt(s, n)) /\ NextOf(t, n) = NextOf(s, n) /\ RoundsAt(t, n) = RoundsAt(s, n)
  BY <1>1 DEF FullAt, NextOf, RoundsAt
<1>3. \A n, u, p, k, c, q, b : calcPremium(t, n, u, p, k, c, q, b) = calcPremium(s, n, u, p, k, c, q, b)
  BY DEF calcPremium
<1>4. \A y : PremiumStops(t, log, y) <=> PremiumStops(s, log, y)
  BY <1>2 DEF PremiumStops
<1>5. \A y : PremiumMove(t, log, y) = PremiumMove(s, log, y)
  BY <1>1, <1>2, <1>3 DEF PremiumMove, PremiumOfBatch
<1>6. \A way, m : PremiumWay(t, log, way, m) <=> PremiumWay(s, log, way, m)
  BY <1>4, <1>5 DEF PremiumWay
<1>7. Paid(t, log, x) <=> Paid(s, log, x)
  BY <1>6 DEF Paid
<1>8. StopTotal(t, log, x) = StopTotal(s, log, x)
  BY <1>1, <1>3 DEF StopTotal, TotalInPartial, PendingOf
<1>. QED
  BY <1>4, <1>7, <1>8

\* While nothing is cancelled, an insured that collects in many calls, under any loop
\* limits, comes to the same coverage and the same premium as one that collects all at once.
THEOREM ReconcilingIsIncremental == AllocationSpec => []ReconcileIsIncremental
<1>1. PremInv /\ CollectedAsAfresh => ReconcileIsIncremental
  <2> SUFFICES ASSUME PremInv, CollectedAsAfresh, NEW i \in Insureds
               PROVE  LET fresh == internalGetCoveredDemand(
                                      [Storage EXCEPT !.covered[i] = NoCoverage, !.premiums[i] = NoPremium],
                                      i, Len(demands[i]) + 1)
                      IN  /\ Collected(i).covered.coveredUnits = fresh.covered.coveredUnits
                          /\ Collected(i).total = fresh.total
    BY DEF ReconcileIsIncremental
  <2>. DEFINE s == Storage
              t == Afresh(i)
              log == s.demands[i]
              limit == Len(log) + 1
              r == internalGetCoveredDemand(s, i, limit)
              q == internalGetCoveredDemand(t, i, limit)
  <2>1. PICK L : EngineStore(s, L)
    BY DEF PremInv, CoverInv, LogsInv, RoundsInv
  <2>2. LogsOK(s) /\ CoverOK(s) /\ PremOK(s)
    BY DEF PremInv, CoverInv, LogsInv
  <2>3. /\ t.batches = s.batches /\ t.batchCount = s.batchCount /\ t.partial = s.partial /\ t.demands = s.demands
        /\ t.marks = s.marks
        /\ t.covered = [s.covered EXCEPT ![i] = NoCoverage] /\ t.premiums = [s.premiums EXCEPT ![i] = NoPremium]
    BY DEF Afresh, Storage
  <2>4. /\ t = [Storage EXCEPT !.covered[i] = NoCoverage, !.premiums[i] = NoPremium] /\ demands[i] = log
        /\ Collected(i) = r /\ CollectedIn(t, i) = q
    BY <2>3 DEF Afresh, Storage, Collected, CollectedIn
  <2>5. Collected(i).covered.coveredUnits = CollectedIn(t, i).covered.coveredUnits
    BY DEF CollectedAsAfresh
  <2>. HIDE DEF s, t
  <2>6. PICK pos : Readable(s, pos, i)
    BY <2>1, <2>2, LogsAreReadable
  <2>7. /\ Placed(s, pos) /\ IsPart(s.partial) /\ LogPlaced(pos, log) /\ CoveredAs(s, log, s.covered[i])
        /\ log \in Seq(Slots) /\ limit \in Nat
    BY <2>6 DEF Readable, PartInBatch, LogPlaced
  <2>8. t.covered[i] = NoCoverage /\ t.premiums[i] = NoPremium
    BY <2>2, <2>3 DEF CoverOK, PremOK
  <2>9. Placed(t, pos) /\ CoveredAs(t, log, t.covered[i]) /\ PaidAs(t, log, t.covered[i], t.premiums[i])
    BY <2>3, <2>7, <2>8, PlacedAlike, NothingCovered, NothingPaid
  <2>10. PaidAs(s, log, s.covered[i], s.premiums[i]) /\ (log = <<>> => s.premiums[i] = NoPremium)
    BY <2>2 DEF PremOK
  <2>11. log = t.demands[i] /\ IsPart(t.partial)
    BY <2>3, <2>7
  <2>. HIDE DEF log, r, q, limit
  <2>12. limit = Len(log) + 1 /\ r = internalGetCoveredDemand(s, i, limit) /\ q = internalGetCoveredDemand(t, i, limit)
         /\ log = s.demands[i]
    BY DEF r, q, limit, log
  <2>13. PICK x : Paid(s, log, x) /\ PremiumStops(s, log, x) /\ r.total = StopTotal(s, log, x)
    BY <2>7, <2>10, <2>12, CollectingIsPaid
  <2>14. PICK y : Paid(t, log, y) /\ PremiumStops(t, log, y) /\ q.total = StopTotal(t, log, y)
    <3>1. LogPlaced(pos, log) /\ limit \in Nat /\ limit = Len(log) + 1 /\ q = internalGetCoveredDemand(t, i, limit)
      BY <2>7, <2>12
    <3>2. log = <<>> => t.premiums[i] = NoPremium
      BY <2>8
    <3>. HIDE DEF PaidAs, Paid
    <3>3. \E y : Paid(t, log, y) /\ PremiumStops(t, log, y) /\ q.total = StopTotal(t, log, y)
      BY <2>9, <2>11, <3>1, <3>2, CollectingIsPaid
    <3>. QED
      BY <3>3
  <2>15. Paid(s, log, y) /\ PremiumStops(s, log, y) /\ q.total = StopTotal(s, log, y)
    BY <2>3, <2>14, SameWay
  <2>16. x = y
    BY <2>13, <2>15, StopsMeet
  <2>17. r.total = q.total
    BY <2>13, <2>15, <2>16
  <2>. QED
    BY <2>4, <2>5, <2>12, <2>17 DEF limit
<1>. QED
  BY <1>1, PremiumInvariant, CollectingIsIncremental, PTL

-----------------------------------------------------------------------------
(* No call fails.  Every batch gets a place: the rounds in front of it when *)
(* the batches are counted along the list.  Batches that were split off and *)
(* dropped have a place, too, so that the list itself plays no part.  The   *)
(* rounds from the partial batch on are within the open rounds.             *)
InLine(b, n, pos, count, limit) ==
    /\ b.rounds \in Nat /\ b.unitPerRound \in Nat /\ b.nextBatchNo \in 0..count
    /\ pos[n] + b.rounds <= limit
    /\ b.nextBatchNo # 0 => b.rounds > 0 /\ pos[b.nextBatchNo] = pos[n] + b.rounds
    /\ isReady(b) => b.unitPerRound > 0

Lined(s, pos, limit) ==
    /\ pos \in [Nat -> Nat] /\ limit \in Nat /\ s.batchCount \in Nat
    /\ NoOthers(s)
    /\ \A n \in Nat : InLine(BatchAt(s, n), n, pos, s.batchCount, limit)

(* Coverage is in a batch that takes coverage. *)
PartReady(s) == s.partial.roundCoverage > 0 => isReady(BatchAt(s, s.partial.batchNo))

LinedUpTo(s, pos) == Lined(s, pos, pos[s.partial.batchNo] + s.openRounds)
Safe(s) == PartReady(s) /\ \E pos : LinedUpTo(s, pos)

\* The same batches are in line the same way.
LEMMA LineSame ==
    ASSUME NEW s, NEW t, NEW pos, NEW limit, Lined(s, pos, limit),
           t.batches = s.batches, t.batchCount = s.batchCount
    PROVE  Lined(t, pos, limit)
<1>1. \A k : BatchAt(t, k) = BatchAt(s, k)
  BY DEF BatchAt
<1>. QED
  BY <1>1 DEF Lined, NoOthers

\* More open rounds leave the batches in line.
LEMMA LineHasRoom ==
    ASSUME NEW s, NEW pos, NEW limit, Lined(s, pos, limit), NEW more \in Nat, limit <= more
    PROVE  Lined(s, pos, more)
<1>1. ASSUME NEW n \in Nat PROVE InLine(BatchAt(s, n), n, pos, s.batchCount, more)
  <2>1. InLine(BatchAt(s, n), n, pos, s.batchCount, limit) /\ pos[n] \in Nat /\ limit \in Nat
    BY DEF Lined
  <2>. QED
    BY <2>1 DEF InLine
<1>. QED
  BY <1>1 DEF Lined

\* A batch in line is stored.
LEMMA LinePut ==
    ASSUME NEW s, NEW pos, NEW limit, Lined(s, pos, limit),
           NEW n \in 1..s.batchCount, NEW b, InLine(b, n, pos, s.batchCount, limit),
           NEW t, BatchAt(t, n) = b, Elsewhere(s, t, n), t.batchCount = s.batchCount
    PROVE  Lined(t, pos, limit)
<1>1. pos \in [Nat -> Nat] /\ limit \in Nat /\ s.batchCount \in Nat /\ NoOthers(s)
  BY DEF Lined
<1>2. ASSUME NEW k \in Nat PROVE InLine(BatchAt(t, k), k, pos, s.batchCount, limit)
  <2>1. CASE k = n
    BY <2>1
  <2>2. CASE k # n
    BY <2>2 DEF Lined, Elsewhere
  <2>. QED
    BY <2>1, <2>2
<1>3. NoOthers(t)
  BY <1>1 DEF NoOthers, Elsewhere
<1>. QED
  BY <1>1, <1>2, <1>3 DEF Lined

(* The places, with one more. *)
SamePlaces(s, pos, qos) == \A k \in 0..s.batchCount : qos[k] = pos[k]

(* The places of s, and one for the batch m. *)
PlacesGrow(s, pos, qos, m, place, limit, more) ==
    /\ SamePlaces(s, pos, qos) /\ qos[m] = place /\ qos \in [Nat -> Nat]
    /\ \A n \in Nat : \A b : n # m /\ InLine(b, n, pos, s.batchCount, limit) => InLine(b, n, qos, m, more)

\* A new batch gets its place, and those that were in line stay there.
LEMMA LineGrows ==
    ASSUME NEW s, NEW pos, NEW limit, Lined(s, pos, limit),
           NEW m, m = s.batchCount + 1, NEW place \in Nat,
           NEW more \in Nat, limit <= more
    PROVE  \E qos : PlacesGrow(s, pos, qos, m, place, limit, more)
<1>. DEFINE qos == [pos EXCEPT ![m] = place]
<1>1. pos \in [Nat -> Nat] /\ limit \in Nat /\ s.batchCount \in Nat
  BY DEF Lined
<1>2. m \in Nat /\ \A k \in 0..s.batchCount : k \in 0..m /\ k # m /\ k \in Nat
  BY <1>1
<1>3. qos \in [Nat -> Nat] /\ qos[m] = place /\ \A k \in Nat : k # m => qos[k] = pos[k]
  BY <1>1, <1>2
<1>. HIDE DEF qos
<1>4. SamePlaces(s, pos, qos)
  BY <1>2, <1>3 DEF SamePlaces
<1>5. ASSUME NEW n \in Nat, NEW b, n # m, InLine(b, n, pos, s.batchCount, limit)
      PROVE  InLine(b, n, qos, m, more)
  <2>1. InLine(b, n, pos, s.batchCount, limit) /\ qos[n] = pos[n] /\ pos[n] \in Nat
    BY <1>1, <1>3, <1>5
  <2>2. b.nextBatchNo \in 0..s.batchCount
    BY <2>1 DEF InLine
  <2>3. qos[b.nextBatchNo] = pos[b.nextBatchNo] /\ b.nextBatchNo \in 0..m
    BY <1>2, <1>3, <2>2
  <2>4. b.rounds \in Nat /\ pos[n] + b.rounds <= more
    BY <1>1, <2>1 DEF InLine
  <2>. QED
    BY <2>1, <2>3, <2>4 DEF InLine
<1>. QED
  BY <1>3, <1>4, <1>5 DEF PlacesGrow

(* The line of s goes on in t, with the place of the batch m that is new in t, *)
(* and b is the batch n in hand.                                             *)
LineWith(s, t, pos, qos, limit, n, b) ==
    SamePlaces(s, pos, qos) /\ Lined(t, qos, limit) /\ InLine(b, n, qos, t.batchCount, limit)

\* The rounds split off stand behind those that stay.
LEMMA LineSplit ==
    ASSUME NEW s, NEW pos, NEW limit, Lined(s, pos, limit),
           NEW n \in 1..s.batchCount, NEW b, IsBatch(b), InLine(b, n, pos, s.batchCount, limit), b.nextBatchNo # 0,
           NEW remaining \in Nat, remaining # 0, remaining < b.rounds,
           NEW m, m = s.batchCount + 1, NEW t, SplitOff(s, t, m, MovedRounds(b, remaining, m))
    PROVE  \E qos : LineWith(s, t, pos, qos, limit, n, KeptRounds(b, remaining, m))
<1>. DEFINE moved == MovedRounds(b, remaining, m)
            kept == KeptRounds(b, remaining, m)
            place == pos[n] + remaining
<1>1. /\ pos \in [Nat -> Nat] /\ limit \in Nat /\ s.batchCount \in Nat /\ NoOthers(s)
      /\ b.rounds \in Nat /\ b.unitPerRound \in Nat /\ b.nextBatchNo \in 0..s.batchCount
      /\ pos[n] + b.rounds <= limit /\ pos[b.nextBatchNo] = pos[n] + b.rounds
      /\ isReady(b) => b.unitPerRound > 0
  BY DEF Lined, InLine
<1>2. n \in Nat /\ n # m /\ m \in Nat /\ m # 0 /\ pos[n] \in Nat /\ place \in Nat /\ b.nextBatchNo \in 0..m
  BY <1>1
<1>3. /\ moved.rounds = b.rounds - remaining /\ moved.unitPerRound = b.unitPerRound
      /\ moved.nextBatchNo = b.nextBatchNo /\ moved.state = b.state
      /\ kept.rounds = remaining /\ kept.unitPerRound = b.unitPerRound
      /\ kept.nextBatchNo = m /\ kept.state = b.state
  <2>. DEFINE before == b.totalUnitsBeforeBatch + remaining * b.unitPerRound
  <2>1. moved = [b EXCEPT !.totalUnitsBeforeBatch = before, !.rounds = b.rounds - remaining]
    BY DEF MovedRounds, IsBatch, BatchFields
  <2>. HIDE DEF before, moved
  <2>. QED
    BY <2>1 DEF IsBatch, BatchFields, KeptRounds
<1>4. t.batchCount = m /\ BatchAt(t, m) = moved /\ Elsewhere(s, t, m)
  BY DEF SplitOff
<1>. HIDE DEF moved, kept, place
<1>. PICK qos : PlacesGrow(s, pos, qos, m, place, limit, limit)
  BY <1>1, <1>2, LineGrows
<1>5. /\ SamePlaces(s, pos, qos) /\ qos[m] = place /\ qos \in [Nat -> Nat]
      /\ \A k \in Nat : \A c : k # m /\ InLine(c, k, pos, s.batchCount, limit) => InLine(c, k, qos, m, limit)
  BY DEF PlacesGrow
<1>6. qos[n] = pos[n] /\ qos[b.nextBatchNo] = pos[b.nextBatchNo]
  BY <1>1, <1>5 DEF SamePlaces
<1>7. InLine(moved, m, qos, m, limit)
  BY <1>1, <1>2, <1>3, <1>5, <1>6 DEF InLine, isReady, place
<1>8. InLine(kept, n, qos, m, limit)
  BY <1>1, <1>2, <1>3, <1>5, <1>6 DEF InLine, isReady, place
<1>9. ASSUME NEW k \in Nat PROVE InLine(BatchAt(t, k), k, qos, m, limit)
  <2>1. CASE k = m
    BY <1>4, <1>7, <2>1
  <2>2. CASE k # m
    BY <1>4, <1>5, <2>2 DEF Lined, Elsewhere
  <2>. QED
    BY <2>1, <2>2
<1>10. NoOthers(t)
  BY <1>1, <1>4 DEF NoOthers, Elsewhere
<1>11. Lined(t, qos, limit)
  BY <1>1, <1>2, <1>4, <1>5, <1>9, <1>10 DEF Lined
<1>. QED
  BY <1>4, <1>5, <1>8, <1>11 DEF LineWith, kept

\* The last batch gets rounds, and a batch behind it.
LEMMA LineAppended ==
    ASSUME NEW s, NEW pos, NEW limit, Lined(s, pos, limit),
           NEW n \in 1..s.batchCount, NEW b, IsBatch(b), InLine(b, n, pos, s.batchCount, limit), b.rounds = 0,
           NEW r \in Nat, r # 0,
           NEW m, m = s.batchCount + 1, NEW t, t.batches = s.batches, t.batchCount = m
    PROVE  \E qos : LineWith(s, t, pos, qos, limit + r, n, KeptRounds(b, r, m))
<1>. DEFINE kept == KeptRounds(b, r, m)
            place == pos[n] + r
            more == limit + r
<1>1. /\ pos \in [Nat -> Nat] /\ limit \in Nat /\ s.batchCount \in Nat /\ NoOthers(s)
      /\ b.unitPerRound \in Nat /\ pos[n] + 0 <= limit /\ (isReady(b) => b.unitPerRound > 0)
  BY DEF Lined, InLine
<1>2. n \in Nat /\ n # m /\ m \in Nat /\ m # 0 /\ pos[n] \in Nat /\ place \in Nat /\ place <= more /\ more \in Nat /\ limit <= more
      /\ m \in 0..m
  BY <1>1
<1>3. kept.rounds = r /\ kept.unitPerRound = b.unitPerRound /\ kept.nextBatchNo = m /\ kept.state = b.state
  BY DEF IsBatch, BatchFields, KeptRounds
<1>4. \A k : BatchAt(t, k) = BatchAt(s, k)
  BY DEF BatchAt
<1>. HIDE DEF kept, place, more
<1>. PICK qos : PlacesGrow(s, pos, qos, m, place, limit, more)
  BY <1>1, <1>2, LineGrows
<1>5. /\ SamePlaces(s, pos, qos) /\ qos[m] = place /\ qos \in [Nat -> Nat]
      /\ \A k \in Nat : \A c : k # m /\ InLine(c, k, pos, s.batchCount, limit) => InLine(c, k, qos, m, more)
  BY DEF PlacesGrow
<1>6. qos[n] = pos[n]
  BY <1>1, <1>5 DEF SamePlaces
<1>7. InLine(kept, n, qos, m, more)
  BY <1>1, <1>2, <1>3, <1>5, <1>6 DEF InLine, isReady, place
<1>8. NoOthers(t) /\ BatchAt(t, m) = NoBatch
  <2>1. \A k \in Nat : k \notin 1..m => k \notin 1..s.batchCount
    BY <1>1
  <2>2. m \notin 1..s.batchCount
    BY <1>1
  <2>. QED
    BY <1>1, <1>2, <1>4, <2>1, <2>2 DEF NoOthers
<1>9. ASSUME NEW k \in Nat PROVE InLine(BatchAt(t, k), k, qos, m, more)
  <2>1. CASE k = m
    BY <1>2, <1>5, <1>8, <2>1 DEF InLine, NoBatch, isReady
  <2>2. CASE k # m
    BY <1>4, <1>5, <2>2 DEF Lined
  <2>. QED
    BY <2>1, <2>2
<1>10. Lined(t, qos, more)
  BY <1>2, <1>5, <1>8, <1>9 DEF Lined
<1>. QED
  BY <1>5, <1>7, <1>10 DEF LineWith, kept, more

-----------------------------------------------------------------------------
(* Adding demand does not fail.  The batch in hand is in line, with the     *)
(* rounds that were set aside for the partial batch.                        *)
HandLimit(f, pos) == pos[f.s.partial.batchNo] + (f.openRounds + f.partialRounds)
HandLined(f, pos) ==
    /\ Lined(f.s, pos, HandLimit(f, pos))
    /\ InLine(f.b, f.batchNo, pos, f.s.batchCount, HandLimit(f, pos))
HandSafe(f) == ~f.panic /\ PartReady(f.s) /\ \E pos : HandLined(f, pos)

(* The batches, the partial round and the batch in hand are the same. *)
HandStays(f, g) ==
    /\ g.s.batches = f.s.batches /\ g.s.batchCount = f.s.batchCount /\ g.s.partial = f.s.partial
    /\ g.batchNo = f.batchNo /\ g.b = f.b
    /\ g.openRounds = f.openRounds /\ g.partialRounds = f.partialRounds

\* What does not touch the batches fails no more than before.
LEMMA HandCarried ==
    ASSUME NEW f, HandSafe(f), NEW g, HandStays(f, g), ~g.panic
    PROVE  HandSafe(g)
<1>1. PICK pos : HandLined(f, pos)
  BY DEF HandSafe
<1>2. HandLimit(g, pos) = HandLimit(f, pos)
  BY DEF HandLimit, HandStays
<1>3. Lined(g.s, pos, HandLimit(g, pos))
  BY <1>1, <1>2, LineSame DEF HandLined, HandStays
<1>4. InLine(g.b, g.batchNo, pos, g.s.batchCount, HandLimit(g, pos))
  BY <1>1, <1>2 DEF HandLined, HandStays
<1>5. PartReady(g.s)
  BY DEF HandSafe, PartReady, HandStays, BatchAt
<1>. QED
  BY <1>3, <1>4, <1>5 DEF HandSafe, HandLined

\* Appending fails when the strategy does.
LEMMA AppendPanics ==
    ASSUME NEW f, IsDemandFrame(f), NEW g, g = appendRounds(f), g.panic
    PROVE  f.panic \/ internalBatchAppend(f.openRounds, f.unitCount).panic
<1>. DEFINE appended == internalBatchAppend(f.openRounds, f.unitCount)
            n == f.s.batchCount + 1
            isLast == f.b.nextBatchNo = 0
            armA == f.b.rounds # 0
            armB == f.b.rounds = 0 /\ appended.rounds = 0
            rb == [f EXCEPT !.done = TRUE, !.panic = @ \/ appended.panic]
            rc == [f EXCEPT !.b.rounds = appended.rounds,
                            !.b.nextBatchNo = IF isLast THEN n ELSE @,
                            !.openRounds = @ + appended.rounds,
                            !.updateBatch = TRUE,
                            !.s = IF isLast THEN [initTimeMark(@, n) EXCEPT !.batchCount = n, !.latestBatchNo = n]
                                  ELSE @]
<1>1. g = CASE armA -> f [] armB -> rb [] OTHER -> rc
  BY DEF appendRounds
<1>. HIDE DEF appended, n, isLast
<1>2. rb.panic => f.panic \/ appended.panic
  BY DEF IsDemandFrame, DemandFields
<1>3. rc.panic = f.panic
  BY DEF IsDemandFrame, DemandFields
<1>. HIDE DEF armA, armB, rb, rc
<1>4. g = f \/ g = rb \/ g = rc
  BY <1>1
<1>. QED
  BY <1>2, <1>3, <1>4 DEF appended

\* Giving rounds to the last batch leaves the batches in line.
LEMMA AppendIsSafe ==
    ASSUME NEW f, IsDemandFrame(f), NEW L, NEW s0, DemandBetween(f, L, s0), HandSafe(f),
           minRounds <= maxRounds \div 2, NEW g, g = appendRounds(f)
    PROVE  HandSafe(g)
<1>. DEFINE r == internalBatchAppend(f.openRounds, f.unitCount).rounds
            m == f.s.batchCount + 1
<1>1. /\ f.openRounds \in Nat /\ f.unitCount \in Nat /\ IsBatch(f.b) /\ f.partialRounds \in Nat
  BY DEF DemandBetween, DemandNumbers
<1>2. ~g.panic
  <2>1. ~internalBatchAppend(f.openRounds, f.unitCount).panic
    BY <1>1, AppendWithinLimit
  <2>. QED
    BY <2>1, AppendPanics DEF HandSafe
<1>3. r \in Nat
  BY <1>1, AppendedRounds
<1>4. /\ f.b.rounds # 0 => g = f
      /\ f.b.rounds = 0 /\ r = 0 =>
            /\ IsDemandFrame(g) /\ g.done = TRUE /\ SameCounts(f, g) /\ (f.panic => g.panic)
            /\ g.s = f.s /\ g.b = f.b /\ g.updateBatch = f.updateBatch /\ g.openRounds = f.openRounds
      /\ f.b.rounds = 0 /\ r # 0 => RoundsAppended(f, g, r, m)
  BY <1>1, AppendCases
<1>. HIDE DEF r, m
<1>5. CASE f.b.rounds # 0
  BY <1>4, <1>5
<1>6. CASE f.b.rounds = 0 /\ r = 0
  <2>1. HandStays(f, g)
    BY <1>4, <1>6 DEF HandStays, SameCounts
  <2>. QED
    BY <1>2, <2>1, HandCarried
<1>7. CASE f.b.rounds = 0 /\ r # 0
  <2>1. PICK pos : HandLined(f, pos)
    BY DEF HandSafe
  <2>. DEFINE n == f.batchNo
              limit == HandLimit(f, pos)
              p == f.s.partial.batchNo
  <2>2. /\ Lined(f.s, pos, limit) /\ InLine(f.b, n, pos, f.s.batchCount, limit)
        /\ limit \in Nat /\ f.s.batchCount \in Nat /\ pos \in [Nat -> Nat]
    BY <2>1 DEF HandLined, Lined
  <2>3. n \in 1..f.s.batchCount /\ p \in 0..f.s.batchCount /\ p \in Nat /\ IsStore(f.s) /\ Appendable(f.s, L, n)
    <3>1. Appendable(f.s, L, n)
      BY DEF DemandBetween
    <3>2. n \in L /\ p \in L /\ p \in Nat /\ IsStore(f.s) /\ Linked(f.s, L)
      BY <3>1, AppendableFacts DEF Appendable
    <3>3. L \subseteq 1..f.s.batchCount
      BY <3>2 DEF Linked
    <3>4. \A c \in Nat : 1..c \subseteq 0..c
      OBVIOUS
    <3>. QED
      BY <2>2, <3>1, <3>2, <3>3, <3>4
  <2>4. f.b.nextBatchNo = 0
    BY <1>7, <2>2 DEF InLine
  <2>5. RoundsAppended(f, g, r, m)
    BY <1>4, <1>7
  <2>6. g.b = KeptRounds(f.b, r, m) /\ g.s = NewLast(f.s, m)
    BY <2>4, <2>5 DEF RoundsAppended
  <2>7. g.s.batches = f.s.batches /\ g.s.batchCount = m /\ g.s.partial = f.s.partial
    BY <2>3, <2>6, InitMarked DEF NewLast, OnlyMarked, IsStore, StoreFields, SameHeads
  <2>. HIDE DEF limit
  <2>8. PICK qos : LineWith(f.s, g.s, pos, qos, limit + r, n, KeptRounds(f.b, r, m))
    BY <1>1, <1>3, <1>7, <2>2, <2>3, <2>7, LineAppended DEF m
  <2>9. HandLimit(g, qos) = limit + r
    <3>1. g.openRounds = f.openRounds + r /\ g.partialRounds = f.partialRounds
      BY <2>5 DEF RoundsAppended, SameCounts
    <3>2. qos[p] = pos[p] /\ pos[p] \in Nat
      BY <2>2, <2>3, <2>8 DEF LineWith, SamePlaces
    <3>3. limit = pos[p] + (f.openRounds + f.partialRounds)
      BY DEF limit, HandLimit
    <3>4. HandLimit(g, qos) = qos[p] + ((f.openRounds + r) + f.partialRounds)
      BY <2>7, <3>1 DEF HandLimit
    <3>. QED
      BY <1>1, <1>3, <3>2, <3>3, <3>4
  <2>10. HandLined(g, qos)
    BY <2>5, <2>6, <2>7, <2>8, <2>9 DEF HandLined, LineWith, RoundsAppended, SameCounts
  <2>11. PartReady(g.s)
    BY <2>7 DEF HandSafe, PartReady, BatchAt
  <2>. QED
    BY <1>2, <2>10, <2>11 DEF HandSafe
<1>. QED
  BY <1>5, <1>6, <1>7

(* The batch in hand has as many units per round, or more. *)
Raised(f, g) ==
    /\ g.b.unitPerRound >= f.b.unitPerRound
    /\ isReady(g.b) => isReady(f.b) \/ g.b.unitPerRound > 0

\* addUnits makes a batch ready with units only.
LEMMA UnitsRaised ==
    ASSUME NEW f, IsDemandFrame(f), IsBatch(f.b), NEW limits, limits.min \in Nat \ {0}, NEW add \in Nat,
           NEW g, g = addUnits(f, limits, add)
    PROVE  Raised(f, g)
<1>. DEFINE units == f.b.unitPerRound + add
            state == IF units < limits.min THEN f.b.state
                     ELSE IF f.isFirstOfOpen /\ units >= limits.ready THEN "Ready" ELSE "ReadyMin"
            takes == limits.share > 0
<1>1. f.b.unitPerRound \in Nat /\ units \in Nat /\ units >= f.b.unitPerRound
  BY DEF IsBatch
<1>2. state = f.b.state \/ units > 0
  BY <1>1
<1>3. g.b.unitPerRound = units /\ g.b.state = state
  <2>. DEFINE sum == f.b.roundPremiumRateSum + f.rate * add
              c == [f.b EXCEPT !.unitPerRound = units, !.roundPremiumRateSum = sum, !.state = state]
  <2>1. g = [f EXCEPT !.b.unitPerRound = units, !.b.roundPremiumRateSum = sum, !.b.state = state,
                      !.addPerRound = add, !.takeNext = takes]
    <3>1. g = [f EXCEPT !.b.unitPerRound = units, !.b.roundPremiumRateSum = @ + f.rate * add, !.b.state = state,
                        !.addPerRound = add, !.takeNext = takes]
      BY DEF addUnits
    <3>. HIDE DEF units, state, takes
    <3>. QED
      BY <3>1 DEF IsDemandFrame, DemandFields, IsBatch, BatchFields
  <2>. HIDE DEF units, state, sum, takes
  <2>2. g.b = c
    BY <2>1 DEF IsDemandFrame, DemandFields
  <2>. QED
    BY <2>2 DEF IsBatch, BatchFields
<1>. HIDE DEF units, state, takes
<1>. QED
  BY <1>1, <1>2, <1>3 DEF Raised, isReady

\* A batch that gets units stays in line.
LEMMA HandRaised ==
    ASSUME NEW f, HandSafe(f), NEW g, BatchChanged(f, g), Raised(f, g)
    PROVE  HandSafe(g)
<1>1. PICK pos : HandLined(f, pos)
  BY DEF HandSafe
<1>2. g.s = f.s /\ g.batchNo = f.batchNo /\ HandLimit(g, pos) = HandLimit(f, pos)
  BY DEF BatchChanged, SameCounts, HandLimit
<1>3. InLine(f.b, f.batchNo, pos, f.s.batchCount, HandLimit(f, pos))
  BY <1>1 DEF HandLined
<1>4. InLine(g.b, f.batchNo, pos, f.s.batchCount, HandLimit(f, pos))
  <2>1. /\ g.b.rounds = f.b.rounds /\ g.b.nextBatchNo = f.b.nextBatchNo /\ g.b.unitPerRound \in Nat
        /\ g.b.unitPerRound >= f.b.unitPerRound /\ (isReady(g.b) => isReady(f.b) \/ g.b.unitPerRound > 0)
    BY DEF BatchChanged, Raised, IsBatch
  <2>2. f.b.unitPerRound \in Nat /\ (isReady(f.b) => f.b.unitPerRound > 0)
    BY <1>3 DEF InLine
  <2>3. isReady(g.b) => g.b.unitPerRound > 0
    BY <2>1, <2>2
  <2>. QED
    BY <1>3, <2>1, <2>3 DEF InLine
<1>5. HandLined(g, pos)
  BY <1>1, <1>2, <1>4 DEF HandLined
<1>6. ~g.panic /\ PartReady(g.s)
  BY <1>2 DEF HandSafe, BatchChanged
<1>. QED
  BY <1>5, <1>6 DEF HandSafe

\* Splitting the batch in hand does not fail, and leaves both parts in line.
LEMMA HandSplit ==
    ASSUME NEW f, IsDemandFrame(f), NEW L, NEW M, NEW s0, DemandMid(f, L, M, s0), HandSafe(f),
           NEW remaining \in Nat, remaining # 0, remaining < f.b.rounds,
           NEW g, g = withSplit(f, splitBatch(f.s, remaining, f.b))
    PROVE  HandSafe(g)
<1>. DEFINE n == f.batchNo
            p == f.s.partial.batchNo
            m == f.s.batchCount + 1
            split == splitBatch(f.s, remaining, f.b)
            moved == MovedRounds(f.b, remaining, m)
<1>1. PICK pos : HandLined(f, pos)
  BY DEF HandSafe
<1>. DEFINE limit == HandLimit(f, pos)
<1>2. /\ Lined(f.s, pos, limit) /\ InLine(f.b, n, pos, f.s.batchCount, limit)
      /\ limit \in Nat /\ f.s.batchCount \in Nat /\ pos \in [Nat -> Nat]
  BY <1>1 DEF HandLined, Lined
<1>3. n \in 1..f.s.batchCount /\ p \in 0..f.s.batchCount /\ p # m /\ p \in Nat /\ IsStore(f.s)
      /\ IsBatch(f.b) /\ f.b.nextBatchNo # 0
  <2>1. Appendable(f.s, L, n) /\ IsBatch(f.b) /\ f.b.nextBatchNo # 0
    BY DEF DemandMid
  <2>2. n \in L /\ p \in L /\ p \in Nat /\ IsStore(f.s) /\ L \subseteq 1..f.s.batchCount
    BY <2>1, AppendableFacts DEF Appendable, Linked
  <2>3. \A c \in Nat : 1..c \subseteq 0..c /\ c + 1 \notin 1..c
    OBVIOUS
  <2>. QED
    BY <1>2, <2>1, <2>2, <2>3
<1>. HIDE DEF limit, moved, split
<1>4. SplitOff(f.s, split.s, m, moved) /\ split.b = KeptRounds(f.b, remaining, m) /\ ~split.panic
  <2>1. f.b.rounds \in Nat /\ f.b.rounds # remaining /\ ~(f.b.rounds < remaining)
    BY <1>3 DEF IsBatch
  <2>2. /\ SplitOff(f.s, split.s, m, moved) /\ split.b = KeptRounds(f.b, remaining, m)
        /\ split.panic = (f.b.rounds < remaining)
    BY <1>2, <1>3, <2>1, SplitEffects DEF split, moved
  <2>. QED
    BY <2>1, <2>2
<1>5. /\ g.s = split.s /\ g.b = split.b /\ g.batchNo = n /\ g.openRounds = f.openRounds
      /\ g.partialRounds = f.partialRounds /\ ~g.panic
  <2>1. g = [f EXCEPT !.s = split.s, !.b = split.b, !.panic = @ \/ split.panic]
    BY DEF withSplit, split
  <2>2. g.panic = (f.panic \/ split.panic)
    BY <2>1 DEF IsDemandFrame, DemandFields
  <2>3. ~f.panic
    BY DEF HandSafe
  <2>. QED
    BY <1>4, <2>1, <2>2, <2>3 DEF IsDemandFrame, DemandFields
<1>6. PICK qos : LineWith(f.s, g.s, pos, qos, limit, n, g.b)
  BY <1>2, <1>3, <1>4, <1>5, LineSplit DEF moved
<1>7. g.s.partial = f.s.partial /\ g.s.batchCount = m /\ Elsewhere(f.s, g.s, m)
  BY <1>4, <1>5 DEF SplitOff, SameHeads
<1>8. HandLimit(g, qos) = limit
  <2>1. qos[p] = pos[p]
    BY <1>3, <1>6 DEF LineWith, SamePlaces
  <2>. QED
    BY <1>5, <1>7, <2>1 DEF HandLimit, limit
<1>9. HandLined(g, qos)
  BY <1>5, <1>6, <1>8 DEF HandLined, LineWith
<1>10. PartReady(g.s)
  BY <1>3, <1>7 DEF HandSafe, PartReady, Elsewhere
<1>. QED
  BY <1>5, <1>9, <1>10 DEF HandSafe

\* Adding units within the limits does not fail.
LEMMA AddToRoundsIsSafe ==
    ASSUME NEW f, IsDemandFrame(f), NEW L, NEW M, NEW s0, DemandMid(f, L, M, s0), HandSafe(f),
           NEW g, g = addToRounds(f)
    PROVE  HandSafe(g)
<1>. DEFINE total == adjustedTotalUnits(f.s, f.b.totalUnitsBeforeBatch)
            limits == internalRoundLimits(total, f.b.rounds, f.b.unitPerRound, f.entry.demandedUnits, MaxShare[f.insured])
            add == unitsToAdd(f, limits)
<1>1. g = addUnits(f, limits, add)
  BY DEF addToRounds, addWithinLimits
<1>2. BatchChanged(f, g) /\ g.addPerRound \in Nat
  BY AddToRoundsStep
<1>3. IsBatch(f.b) /\ ~isFull(f.b) /\ f.b.unitPerRound \in Nat
  BY DEF DemandMid, IsBatch
<1>4. limits.min \in Nat \ {0}
  <2>1. limits.min \in {f.b.unitPerRound + 1, minUnitsPerRound}
    <3>. HIDE DEF total
    <3>. QED
      BY DEF internalRoundLimits
  <2>. HIDE DEF limits
  <2>. QED
    BY <1>3, <2>1, PoolParamsAssumption
<1>. HIDE DEF limits, add
<1>5. add \in Nat
  <2>1. g.addPerRound = add
    BY <1>1 DEF addUnits, IsDemandFrame, DemandFields
  <2>. QED
    BY <1>2, <2>1
<1>6. Raised(f, g)
  BY <1>1, <1>3, <1>4, <1>5, UnitsRaised
<1>. QED
  BY <1>2, <1>6, HandRaised

\* ... nor does addToBatch as a whole.
LEMMA AddToBatchIsSafe ==
    ASSUME NEW f, IsDemandFrame(f), NEW L, NEW M, NEW s0, DemandMid(f, L, M, s0), HandSafe(f),
           NEW g, g = addToBatch(f)
    PROVE  HandSafe(g)
<1>. DEFINE splitRounds == internalBatchSplit(f.entry.demandedUnits, MinUnits[f.insured], f.b.rounds, f.unitCount)
            armA == f.unitCount >= f.b.rounds
            armB == f.unitCount < f.b.rounds /\ splitRounds = 0
            h == withSplit(f, splitBatch(f.s, splitRounds, f.b))
            ra == addToRounds(f)
            rb == [f EXCEPT !.addPerRound = 0, !.takeNext = FALSE]
            rc == addToRounds(h)
<1>1. g = CASE armA -> ra [] armB -> rb [] OTHER -> rc
  BY DEF addToBatch
<1>2. f.unitCount \in Nat /\ f.b.rounds \in Nat
  BY DEF DemandMid, DemandNumbers, IsBatch
<1>3. splitRounds \in {0, f.unitCount}
  BY SplitSize
<1>. HIDE DEF splitRounds
<1>4. ~armA /\ ~armB => splitRounds \in Nat /\ splitRounds # 0 /\ splitRounds < f.b.rounds
  BY <1>2, <1>3
<1>5. armA => ~armB
  BY <1>2
<1>6. HandSafe(ra)
  <2>. HIDE DEF ra
  <2>1. ra = addToRounds(f)
    BY DEF ra
  <2>. QED
    BY <2>1, AddToRoundsIsSafe
<1>7. HandSafe(rb)
  <2>1. HandStays(f, rb) /\ rb.panic = f.panic
    BY DEF HandStays, IsDemandFrame, DemandFields
  <2>. HIDE DEF rb
  <2>2. ~rb.panic
    BY <2>1 DEF HandSafe
  <2>. QED
    BY <2>1, <2>2, HandCarried
<1>8. ~armA /\ ~armB => HandSafe(rc)
  <2> SUFFICES ASSUME ~armA, ~armB PROVE HandSafe(rc)
    OBVIOUS
  <2>. HIDE DEF armA, armB, h, rc
  <2>1. h = withSplit(f, splitBatch(f.s, splitRounds, f.b)) /\ rc = addToRounds(h)
    BY DEF h, rc
  <2>2. FrameSplit(f, h, splitRounds) /\ \E K : DemandMid(h, L, K, s0)
    BY <1>4, <2>1, SplitStep
  <2>3. PICK K : DemandMid(h, L, K, s0)
    BY <2>2
  <2>4. IsDemandFrame(h)
    BY <2>2 DEF FrameSplit
  <2>5. HandSafe(h)
    BY <1>4, <2>1, HandSplit
  <2>. QED
    BY <2>1, <2>3, <2>4, <2>5, AddToRoundsIsSafe
<1>. HIDE DEF armA, armB, ra, rb, rc
<1>9. g = ra \/ g = rb \/ (~armA /\ ~armB /\ g = rc)
  BY <1>1, <1>5
<1>. QED
  BY <1>6, <1>7, <1>8, <1>9

\* Adding units to the open batch does not fail.
LEMMA AddToOpenBatchIsSafe ==
    ASSUME NEW f, IsDemandFrame(f), NEW L, NEW M, NEW s0, DemandMid(f, L, M, s0), ~f.done, HandSafe(f),
           NEW g, g = addToOpenBatch(f)
    PROVE  HandSafe(g)
<1>. DEFINE a == addToBatch(f)
            b == unitsAdded(a)
            armA == f.done
            armB == ~f.done /\ ~isOpen(f.b)
            rb == [f EXCEPT !.addPerRound = 0]
            rc == keepFirstOpen(b)
<1>1. g = CASE armA -> f [] armB -> rb [] OTHER -> rc
  BY DEF addToOpenBatch
<1>2. HandSafe(rb)
  <2>1. HandStays(f, rb) /\ rb.panic = f.panic
    BY DEF HandStays, IsDemandFrame, DemandFields
  <2>. HIDE DEF rb
  <2>2. ~rb.panic
    BY <2>1 DEF HandSafe
  <2>. QED
    BY <2>1, <2>2, HandCarried
<1>3. HandSafe(a) /\ UnitsPlaced(f, a, L, s0)
  BY AddToBatchIsSafe, AddToBatchStep
<1>. HIDE DEF a
<1>4. IsDemandFrame(a) /\ IsStore(a.s)
  <2>1. IsDemandFrame(a) /\ \E K : DemandMid(a, L, K, s0)
    BY <1>3 DEF UnitsPlaced
  <2>. QED
    BY <2>1, AppendableFacts DEF DemandMid
<1>5. IsDemandFrame(b) /\ HandSafe(b) /\ IsStore(b.s)
  <2>1. HandStays(a, b) /\ b.panic = a.panic /\ IsDemandFrame(b) /\ b.s = a.s
    BY <1>4 DEF unitsAdded, HandStays, IsDemandFrame, DemandFields
  <2>. HIDE DEF b
  <2>2. ~b.panic
    BY <1>3, <2>1 DEF HandSafe
  <2>. QED
    BY <1>3, <1>4, <2>1, <2>2, HandCarried
<1>. HIDE DEF b
<1>6. HandSafe(rc)
  <2>. DEFINE c == [b EXCEPT !.s.firstOpenBatchNo = b.batchNo, !.isFirstOfOpen = FALSE]
  <2>1. rc = b \/ rc = c
    BY DEF keepFirstOpen
  <2>2. HandStays(b, c) /\ c.panic = b.panic
    BY <1>5 DEF HandStays, IsDemandFrame, DemandFields, IsStore, StoreFields
  <2>. HIDE DEF c, rc
  <2>3. ~c.panic
    BY <1>5, <2>2 DEF HandSafe
  <2>. QED
    BY <1>5, <2>1, <2>2, <2>3, HandCarried
<1>. HIDE DEF armA, armB, rb, rc
<1>7. g = f \/ g = rb \/ g = rc
  BY <1>1
<1>. QED
  BY <1>2, <1>6, <1>7

\* Recording the demand does not fail.
LEMMA RecordIsSafe ==
    ASSUME NEW f, IsDemandFrame(f), HandSafe(f), NEW g, g = recordSlot(f)
    PROVE  HandSafe(g)
<1>. DEFINE units == f.addPerRound * f.b.rounds
            armA == f.b.rounds = 0
            armB == f.b.rounds > 0 /\ continuesSlot(f)
            rb == [f EXCEPT !.demand.rounds = @ + f.b.rounds]
            rc == [f EXCEPT !.log = PushDemand(@, f.demand),
                            !.demand = [startBatchNo |-> f.batchNo, premiumRate |-> f.rate,
                                        rounds |-> f.b.rounds, unitPerRound |-> f.addPerRound]]
            slot == CASE armA -> f [] armB -> rb [] OTHER -> rc
            ends == ~f.takeNext
            u == [slot EXCEPT !.unitCount = @ - units, !.entry.demandedUnits = @ + units, !.done = ends]
<1>1. SameButSlot(f, f) /\ SameButSlot(f, rb) /\ SameButSlot(f, rc)
  BY DEF SameButSlot, IsDemandFrame, DemandFields, SameCounts
<1>2. g = f \/ g = u
  BY DEF recordSlot
<1>3. SameButSlot(f, slot)
  <2>. HIDE DEF armA, armB, rb, rc
  <2>1. slot = f \/ slot = rb \/ slot = rc
    OBVIOUS
  <2>. QED
    BY <1>1, <2>1
<1>. HIDE DEF slot, ends, units
<1>4. HandStays(f, u) /\ u.panic = f.panic
  BY <1>3 DEF SameButSlot, SameCounts, HandStays, IsDemandFrame, DemandFields
<1>. HIDE DEF u
<1>5. ~u.panic
  BY <1>4 DEF HandSafe
<1>. QED
  BY <1>2, <1>4, <1>5, HandCarried

\* The batch in hand can be stored.
LEMMA HandStored ==
    ASSUME NEW f, NEW L, NEW n, n = f.batchNo, NEW t, t = FramePut(f),
           Appendable(f.s, L, n) \/ Appendable(t, L, n), HandSafe(f),
           NEW pos, HandLined(f, pos)
    PROVE  PartReady(t) /\ Lined(t, pos, HandLimit(f, pos)) /\ t.partial = f.s.partial /\ t.batchCount = f.s.batchCount
<1>1. PICK u \in {f.s, t} : Appendable(u, L, n)
  OBVIOUS
<1>2. n \in Nat /\ IsStore(u) /\ n \in L /\ L \subseteq 1..u.batchCount /\ Untouched(u, n) /\ u.partial.batchNo \in Nat
  BY <1>1, AppendableFacts DEF Appendable, Linked
<1>3. t = PutBatch(f.s, n, f.b)
  BY DEF FramePut
<1>4. IsStore(f.s)
  BY <1>1, <1>2, <1>3 DEF PutBatch, IsStore
<1>5. SameHeads(f.s, t) /\ t.batchCount = f.s.batchCount /\ BatchAt(t, n) = f.b /\ Elsewhere(f.s, t, n)
  BY <1>2, <1>3, <1>4, PutBatchStores
<1>6. t.partial = f.s.partial
  BY <1>5 DEF SameHeads
<1>7. n \in 1..f.s.batchCount /\ Untouched(f.s, n) /\ f.s.partial.batchNo \in Nat
  BY <1>1, <1>2, <1>5, <1>6 DEF Untouched
<1>8. PartReady(t)
  <2>1. CASE f.s.partial.batchNo = n
    BY <1>6, <1>7, <2>1 DEF PartReady, Untouched
  <2>2. CASE f.s.partial.batchNo # n
    BY <1>5, <1>6, <1>7, <2>2 DEF HandSafe, PartReady, Elsewhere
  <2>. QED
    BY <2>1, <2>2
<1>9. Lined(t, pos, HandLimit(f, pos))
  <2>1. Lined(f.s, pos, HandLimit(f, pos)) /\ InLine(f.b, n, pos, f.s.batchCount, HandLimit(f, pos))
    BY DEF HandLined
  <2>. QED
    BY <1>5, <1>7, <2>1, LinePut
<1>. QED
  BY <1>5, <1>6, <1>8, <1>9

\* A batch stays in line when its count of units before it changes.
LEMMA InLineTotals ==
    ASSUME NEW b, NEW c, IsBatch(c), SameButTotal(c, b), NEW n, NEW pos, NEW count, NEW limit, InLine(b, n, pos, count, limit)
    PROVE  InLine(c, n, pos, count, limit)
  BY DEF SameButTotal, InLine, isReady

\* Taking the next batch does not fail.
LEMMA TakeNextIsSafe ==
    ASSUME NEW f, IsDemandFrame(f), NEW L, NEW M, NEW s0, DemandMid(f, L, M, s0), ~f.done, HandSafe(f),
           NEW g, g = takeNextBatch(f)
    PROVE  HandSafe(g)
<1>. DEFINE n == f.batchNo
            q == f.b.nextBatchNo
            t == FramePut(f)
<1>1. IsDemandFrame(g) /\ g.panic = f.panic /\ DemandBetween(g, M, s0)
  BY TakeNextStep
<1>2. g.s = t /\ g.batchNo = q /\ g.openRounds = f.openRounds /\ g.partialRounds = f.partialRounds
  BY DEF takeNextBatch, FramePut, IsDemandFrame, DemandFields
<1>3. PICK pos : HandLined(f, pos)
  BY DEF HandSafe
<1>4. Appendable(f.s, L, n) /\ t = FramePut(f)
  BY DEF DemandMid
<1>. HIDE DEF t
<1>5. PartReady(t) /\ Lined(t, pos, HandLimit(f, pos)) /\ t.partial = f.s.partial /\ t.batchCount = f.s.batchCount
  BY <1>3, <1>4, HandStored
<1>6. HandLimit(g, pos) = HandLimit(f, pos)
  BY <1>2, <1>5 DEF HandLimit
<1>7. q \in Nat /\ IsBatch(g.b) /\ SameButTotal(g.b, BatchAt(t, q))
  BY <1>1, <1>2, AppendableFacts DEF DemandBetween
<1>8. InLine(BatchAt(t, q), q, pos, t.batchCount, HandLimit(f, pos))
  BY <1>5, <1>7 DEF Lined
<1>9. InLine(g.b, q, pos, t.batchCount, HandLimit(f, pos))
  BY <1>7, <1>8, InLineTotals
<1>10. HandLined(g, pos)
  BY <1>2, <1>5, <1>6, <1>9 DEF HandLined
<1>11. ~g.panic
  BY <1>1 DEF HandSafe
<1>. QED
  BY <1>2, <1>5, <1>10, <1>11 DEF HandSafe

\* A turn of the loop does not fail.
DemandSafe(f, s0) == DemandGood(f, s0) /\ HandSafe(f)

LEMMA DemandStepIsSafe ==
    ASSUME NEW f, NEW s0, DemandSafe(f, s0), minRounds <= maxRounds \div 2
    PROVE  DemandSafe(addDemandStep(f), s0)
<1>. DEFINE h == [f EXCEPT !.loopLimit = @ - 1]
            a == appendRounds(h)
            b == addToOpenBatch(a)
            c == recordSlot(b)
            d == takeNextBatch(c)
            g == addDemandStep(f)
<1>0. DemandGood(f, s0) /\ HandSafe(f) /\ DemandGood(g, s0)
  BY DemandStepKeeps DEF DemandSafe
<1>1. CASE f.done
  BY <1>1 DEF addDemandStep
<1>2. CASE ~f.done
  <2>1. g = d
    BY <1>2 DEF addDemandStep
  <2>2. /\ IsDemandFrame(h) /\ h.panic = f.panic /\ h.done = f.done /\ SameCounts(f, h) /\ h.s = f.s /\ h.b = f.b
        /\ h.openRounds = f.openRounds /\ h.updateBatch = f.updateBatch
    BY <1>0 DEF DemandGood, IsDemandFrame, DemandFields, SameCounts
  <2>. HIDE DEF g, h
  <2>3. PICK L : DemandBetween(f, L, s0)
    BY <1>0, <1>2 DEF DemandGood, HandSafe
  <2>4. DemandBetween(h, L, s0)
    BY <2>2, <2>3 DEF DemandBetween, DemandNumbers, SameCounts
  <2>5. HandSafe(h)
    <3>1. HandStays(f, h)
      BY <2>2 DEF HandStays, SameCounts
    <3>2. ~h.panic
      BY <1>0, <2>2 DEF HandSafe
    <3>. QED
      BY <1>0, <3>1, <3>2, HandCarried
  <2>6. /\ IsDemandFrame(a) /\ HandSafe(a)
        /\ ~a.done => \E M : DemandMid(a, L, M, s0)
    BY <1>2, <2>2, <2>4, <2>5, AppendStep, AppendIsSafe
  <2>. HIDE DEF a
  <2>7. CASE a.done
    <3>1. b = a
      BY <2>7, StagesStop DEF b
    <3>2. c = b
      BY <2>7, <3>1, StagesStop DEF c
    <3>3. d = c
      BY <2>7, <3>1, <3>2, StagesStop DEF d
    <3>. QED
      BY <1>0, <2>1, <2>6, <3>1, <3>2, <3>3 DEF DemandSafe, g
  <2>8. CASE ~a.done
    <3>1. PICK M : DemandMid(a, L, M, s0)
      BY <2>6, <2>8
    <3>2. /\ HandSafe(b) /\ IsDemandFrame(b)
          /\ ~b.done => UnitsPlaced(a, b, L, s0)
      BY <2>6, <2>8, <3>1, AddToOpenBatchStep, AddToOpenBatchIsSafe
    <3>. HIDE DEF b
    <3>3. CASE b.done
      <4>1. c = b
        BY <3>3, StagesStop DEF c
      <4>2. d = c
        BY <3>3, <4>1, StagesStop DEF d
      <4>. QED
        BY <1>0, <2>1, <3>2, <4>1, <4>2 DEF DemandSafe, g
    <3>4. CASE ~b.done
      <4>1. PICK K : DemandMid(b, L, K, s0)
        BY <3>2, <3>4 DEF UnitsPlaced
      <4>2. b.addPerRound \in Nat /\ b.addPerRound * b.b.rounds <= b.unitCount
        BY <3>2, <3>4 DEF UnitsPlaced
      <4>3. IsDemandFrame(c) /\ DemandMid(c, L, K, s0) /\ HandSafe(c)
        BY <3>2, <3>4, <4>1, <4>2, RecordStep, RecordIsSafe
      <4>. HIDE DEF c
      <4>4. CASE c.done
        <5>1. d = c
          BY <4>4, StagesStop DEF d
        <5>. QED
          BY <1>0, <2>1, <4>3, <5>1 DEF DemandSafe, g
      <4>5. CASE ~c.done
        <5>1. HandSafe(d)
          BY <4>3, <4>5, TakeNextIsSafe
        <5>. QED
          BY <1>0, <2>1, <5>1 DEF DemandSafe, g
      <4>. QED
        BY <4>4, <4>5
    <3>. QED
      BY <3>3, <3>4
  <2>. QED
    BY <2>7, <2>8
<1>. QED
  BY <1>0, <1>1, <1>2 DEF DemandSafe

\* No turn of the demand loop fails.
LEMMA DemandLoopIsSafe ==
    ASSUME NEW n \in Nat, NEW frame, NEW s0, DemandSafe(frame, s0), minRounds <= maxRounds \div 2
    PROVE  DemandSafe(Iterate(addDemandStep, frame, n), s0)
<1>1. PICK it : LoopFrames("demand", it, frame, n) /\ Iterate(addDemandStep, frame, n) = it[n]
  BY DemandLoopRuns
<1>. DEFINE G == {k \in 0..n : DemandSafe(it[k], s0)}
<1>2. \A k \in 0..n : it[k] = IF k = 0 THEN frame ELSE addDemandStep(it[k - 1])
  BY <1>1 DEF LoopFrames, LoopStep
<1>3. 0 \in G
  BY <1>2
<1>4. ASSUME NEW k \in 0..(n - 1), k \in G PROVE k + 1 \in G
  <2>1. k + 1 \in 0..n /\ k + 1 # 0 /\ (k + 1) - 1 = k /\ DemandSafe(it[k], s0)
    BY <1>4
  <2>2. it[k + 1] = addDemandStep(it[k])
    BY <1>2, <2>1
  <2>3. DemandSafe(it[k + 1], s0)
    BY <2>1, <2>2, DemandStepIsSafe
  <2>. QED
    BY <2>1, <2>3
<1>5. n \in G
  <2>. HIDE DEF G
  <2>1. 0..n \subseteq G
    BY <1>3, <1>4, UpToInduction
  <2>. QED
    BY <2>1
<1>. QED
  BY <1>1, <1>5

\* The batches, the partial round and the open rounds say whether a store is safe.
LEMMA SafeCarried ==
    ASSUME NEW s, NEW pos, NEW limit, Lined(s, pos, limit),
           NEW t, t.batches = s.batches, t.batchCount = s.batchCount, PartReady(t),
           limit = pos[t.partial.batchNo] + t.openRounds
    PROVE  Safe(t)
<1>1. Lined(t, pos, limit)
  BY LineSame
<1>. QED
  BY <1>1 DEF Safe, LinedUpTo

\* Storing the demand does not fail.
LEMMA DemandIsStored ==
    ASSUME NEW f, NEW L, NEW s0, DemandFinished(f, L, s0), HandSafe(f), NEW more, NEW r, r = demandAdded(f, more)
    PROVE  ~r.panic /\ Safe(r.s)
<1>. DEFINE t == FrameStored(f)
            old == f.s.insureds[f.insured].nextBatchNo
            enough == more \/ internalIsEnoughForMore(f.entry.demandedUnits, MinUnits[f.insured], f.unitCount)
            pull == IF enough THEN f.batchNo ELSE 0
            pulled == setPullBatch(t, f.insured, old, pull)
            rounds == f.openRounds + f.partialRounds
            log == PushDemand(f.log, f.demand)
            isFirst == f.isFirstOfOpen
            u == [pulled EXCEPT !.openRounds = rounds, !.insureds[f.insured] = f.entry, !.demands[f.insured] = log,
                                !.firstOpenBatchNo = IF isFirst THEN f.batchNo ELSE @]
<1>1. r = [s |-> u, remaining |-> f.unitCount, panic |-> f.panic]
  BY DEF demandAdded, FrameStored, FramePut
<1>. HIDE DEF enough
<1>2. r.s = u /\ ~r.panic
  BY <1>1 DEF HandSafe
<1>3. Appendable(t, L, f.batchNo) /\ IsStore(t)
  BY AppendableFacts DEF DemandFinished
<1>4. PICK pos : HandLined(f, pos)
  BY DEF HandSafe
<1>5. PartReady(t) /\ Lined(t, pos, HandLimit(f, pos)) /\ t.partial = f.s.partial
  <2>1. CASE f.updateBatch
    <3>1. t = FramePut(f)
      BY <2>1 DEF FrameStored
    <3>. HIDE DEF t
    <3>. QED
      BY <1>3, <1>4, <3>1, HandStored
  <2>2. CASE ~f.updateBatch
    <3>1. t = f.s
      BY <2>2 DEF FrameStored
    <3>. HIDE DEF t
    <3>. QED
      BY <1>4, <3>1 DEF HandSafe, HandLined
  <2>. QED
    BY <2>1, <2>2
<1>. HIDE DEF t, old, pull, rounds, log, isFirst
<1>6. OnlyPullable(t, pulled)
  BY <1>3, PullBatchSet
<1>. HIDE DEF pulled
<1>7. IsStore(pulled) /\ pulled.batches = t.batches /\ pulled.batchCount = t.batchCount /\ pulled.partial = t.partial
  BY <1>3, <1>6 DEF OnlyPullable, IsStore, StoreFields
<1>8. u.batches = t.batches /\ u.batchCount = t.batchCount /\ u.partial = t.partial /\ u.openRounds = rounds
  BY <1>7 DEF IsStore, StoreFields
<1>. HIDE DEF u
<1>9. HandLimit(f, pos) = pos[u.partial.batchNo] + u.openRounds
  BY <1>5, <1>8 DEF HandLimit, rounds
<1>10. PartReady(u)
  BY <1>5, <1>8 DEF PartReady, BatchAt
<1>11. Safe(u)
  BY <1>5, <1>8, <1>9, <1>10, SafeCarried
<1>. QED
  BY <1>2, <1>11

(* The rounds of the partial batch without coverage are split off, and both *)
(* parts are in line.                                                       *)
RestLined(s, pos, qos, S, B) ==
    /\ IsStore(S) /\ SameHeads(s, S) /\ s.batchCount <= S.batchCount
    /\ LineWith(s, S, pos, qos, pos[s.partial.batchNo] + s.openRounds, s.partial.batchNo, B)
    /\ IsBatch(B) /\ B.state = BatchAt(s, s.partial.batchNo).state

\* Splitting the partial batch does not fail.
LEMMA RestIsLined ==
    ASSUME NEW s, NEW L, EngineStore(s, L), s.partial.batchNo # 0, PartialRounds(s.partial) > 0,
           BatchAt(s, s.partial.batchNo).nextBatchNo # 0, NEW pos, LinedUpTo(s, pos)
    PROVE  ~PartialRest(s).panic /\ \E qos : RestLined(s, pos, qos, PartialRest(s).s, PartialRest(s).b)
<1>. DEFINE p == s.partial.batchNo
            b == BatchAt(s, p)
            R == PartialRounds(s.partial)
            split == PartialRest(s)
            m == s.batchCount + 1
            limit == pos[p] + s.openRounds
<1>1. PartialFacts(s, L, b)
  BY PartialBatch
<1>2. /\ p \in L /\ p \in Nat /\ IsStore(s) /\ IsBatch(b) /\ ~isFull(b) /\ b.nextBatchNo # 0 /\ b.rounds \in Nat
      /\ p \in 1..s.batchCount
  BY <1>1 DEF PartialFacts, EngineStore, Linked
<1>3. R \in Nat /\ R # 0 /\ R <= b.rounds
  <2>1. IsPart(s.partial) /\ PartFits(s.partial, b)
    BY <1>1 DEF PartialFacts
  <2>. QED
    BY <1>2, <2>1 DEF IsPart, PartFits, PartialRounds
<1>4. Lined(s, pos, limit) /\ s.batchCount \in Nat
  BY DEF LinedUpTo, Lined
<1>5. InLine(b, p, pos, s.batchCount, limit)
  BY <1>2, <1>4 DEF Lined
<1>6. split = splitBatch(s, R, b)
  BY DEF PartialRest
<1>. HIDE DEF R, b, split, limit
<1>7. CASE b.rounds = R
  <2>1. split = [s |-> s, b |-> b, panic |-> FALSE]
    BY <1>6, <1>7 DEF splitBatch
  <2>2. RestLined(s, pos, pos, s, b)
    BY <1>2, <1>4, <1>5 DEF RestLined, LineWith, SamePlaces, SameHeads, limit, b
  <2>3. RestLined(s, pos, pos, split.s, split.b) /\ ~split.panic
    BY <2>1, <2>2
  <2>. QED
    BY <2>3 DEF split
<1>8. CASE b.rounds # R
  <2>1. R < b.rounds /\ m \in Nat /\ m # 0 /\ s.batchCount <= m
    BY <1>2, <1>3, <1>4, <1>8
  <2>2. SplitOff(s, split.s, m, MovedRounds(b, R, m)) /\ split.b = KeptRounds(b, R, m)
        /\ split.panic = (b.rounds < R)
    BY <1>2, <1>4, <1>6, <1>8, SplitEffects
  <2>3. ~split.panic
    <3>1. ~(b.rounds < R)
      BY <1>2, <1>3
    <3>. QED
      BY <2>2, <3>1
  <2>4. PICK qos : LineWith(s, split.s, pos, qos, limit, p, split.b)
    BY <1>2, <1>3, <1>4, <1>5, <2>1, <2>2, LineSplit
  <2>5. IsBatch(split.b) /\ split.b.state = b.state
    BY <1>2, <1>3, <2>1, <2>2, SplitBatches
  <2>6. RestLined(s, pos, qos, split.s, split.b)
    BY <2>1, <2>2, <2>4, <2>5 DEF RestLined, SplitOff, limit, b
  <2>. QED
    BY <2>3, <2>6 DEF split
<1>. QED
  BY <1>7, <1>8

\* The partial batch is set apart, and the next call on the store does not fail.
LEMMA PartialLeftIsSafe ==
    ASSUME NEW s, NEW L, EngineStore(s, L), s.partial.batchNo # 0, PartialRounds(s.partial) > 0,
           BatchAt(s, s.partial.batchNo).nextBatchNo # 0, Safe(s)
    PROVE  ~PartialRest(s).panic /\ Safe(PartialLeft(s))
<1>. DEFINE p == s.partial.batchNo
            S == PartialRest(s).s
            B == PartialRest(s).b
            t == RestStored(s)
            c == PartialClosed(s)
            u == PartialLeft(s)
            full == [B EXCEPT !.state = "Full"]
            v == PutBatch(S, p, full)
<1>1. PICK pos : LinedUpTo(s, pos)
  BY DEF Safe
<1>. DEFINE limit == pos[p] + s.openRounds
<1>2. ~PartialRest(s).panic /\ \E qos : RestLined(s, pos, qos, S, B)
  BY <1>1, RestIsLined
<1>3. PICK qos : RestLined(s, pos, qos, S, B)
  BY <1>2
<1>4. p \in Nat /\ p \in 1..s.batchCount /\ p \in 0..s.batchCount /\ s.batchCount \in Nat /\ s.openRounds \in Nat
  <2>1. p \in Nat /\ p \in L
    BY PartialBatch DEF PartialFacts
  <2>2. L \subseteq 1..s.batchCount /\ s.batchCount \in Nat /\ s.openRounds \in Nat
    BY DEF EngineStore, Linked
  <2>3. \A k \in Nat : 1..k \subseteq 0..k
    OBVIOUS
  <2>. QED
    BY <2>1, <2>2, <2>3
<1>5. /\ IsStore(S) /\ SameHeads(s, S) /\ s.batchCount <= S.batchCount /\ IsBatch(B) /\ B.state = BatchAt(s, p).state
      /\ Lined(S, qos, limit) /\ InLine(B, p, qos, S.batchCount, limit) /\ qos[p] = pos[p]
  BY <1>3, <1>4 DEF RestLined, LineWith, SamePlaces
<1>6. qos \in [Nat -> Nat] /\ limit \in Nat /\ S.batchCount \in Nat /\ p \in 1..S.batchCount
  <2>1. qos \in [Nat -> Nat] /\ limit \in Nat /\ S.batchCount \in Nat
    BY <1>5 DEF Lined
  <2>. QED
    BY <1>4, <1>5, <2>1
<1>7. t = PutBatch(S, p, B)
  BY DEF RestStored
<1>8. c = IF s.partial.roundCoverage # 0 THEN t
          ELSE [v EXCEPT !.poolPremium = addPartialToTotalPremium(S, p, @, B),
                         !.partial = [roundCoverage |-> 0, batchNo |-> B.nextBatchNo, roundNo |-> 0]]
  BY DEF PartialClosed
<1>9. u.batches = c.batches /\ u.batchCount = c.batchCount /\ u.partial = c.partial /\ u.openRounds = c.openRounds
  BY DEF PartialLeft
<1>. HIDE DEF S, B, t, c, u, limit, v
<1>10. CASE s.partial.roundCoverage # 0
  <2>1. c = t
    BY <1>8, <1>10
  <2>2. SameHeads(S, t) /\ t.batchCount = S.batchCount /\ BatchAt(t, p) = B /\ Elsewhere(S, t, p)
    BY <1>4, <1>5, <1>7, PutBatchStores
  <2>3. Lined(t, qos, limit)
    BY <1>5, <1>6, <2>2, LinePut
  <2>4. u.partial = s.partial /\ u.openRounds = s.openRounds /\ u.batches = t.batches /\ u.batchCount = t.batchCount
    BY <1>5, <1>9, <2>1, <2>2 DEF SameHeads
  <2>5. PartReady(u)
    <3>1. BatchAt(u, p) = B
      BY <2>2, <2>4 DEF BatchAt
    <3>. QED
      BY <1>5, <2>4, <3>1 DEF Safe, PartReady, isReady
  <2>6. limit = qos[u.partial.batchNo] + u.openRounds
    BY <1>5, <2>4 DEF limit
  <2>. QED
    BY <1>2, <2>3, <2>4, <2>5, <2>6, SafeCarried DEF u
<1>11. CASE s.partial.roundCoverage = 0
  <2>. DEFINE q == B.nextBatchNo
              part == [roundCoverage |-> 0, batchNo |-> q, roundNo |-> 0]
              more == qos[q] + s.openRounds
              premium == addPartialToTotalPremium(S, p, v.poolPremium, B)
  <2>1. c = [v EXCEPT !.poolPremium = premium, !.partial = part]
    BY <1>8, <1>11
  <2>2. IsStore(v) /\ SameHeads(S, v) /\ v.batchCount = S.batchCount /\ BatchAt(v, p) = full /\ Elsewhere(S, v, p)
    <3>1. v = PutBatch(S, p, full)
      BY DEF v
    <3>. HIDE DEF full
    <3>. QED
      BY <1>4, <1>5, <3>1, PutBatchStores
  <2>. HIDE DEF premium
  <2>3. u.partial = part /\ u.openRounds = s.openRounds /\ u.batches = v.batches /\ u.batchCount = v.batchCount
    <3>. HIDE DEF part
    <3>1. c.partial = part /\ c.openRounds = v.openRounds /\ c.batches = v.batches /\ c.batchCount = v.batchCount
      BY <2>1, <2>2 DEF IsStore, StoreFields
    <3>. QED
      BY <1>5, <1>9, <2>2, <3>1 DEF SameHeads
  <2>4. InLine(full, p, qos, S.batchCount, limit)
    <3>1. /\ full.rounds = B.rounds /\ full.unitPerRound = B.unitPerRound /\ full.nextBatchNo = B.nextBatchNo
          /\ full.state = "Full"
      BY <1>5 DEF IsBatch, BatchFields
    <3>. HIDE DEF full
    <3>. QED
      BY <1>5, <3>1 DEF InLine, isReady
  <2>. HIDE DEF full
  <2>5. Lined(v, qos, limit)
    BY <1>5, <1>6, <2>2, <2>4, LinePut
  <2>6. limit <= more /\ more \in Nat
    <3>1. q \in 0..S.batchCount /\ B.rounds \in Nat /\ q # 0 => qos[q] = qos[p] + B.rounds
      BY <1>5 DEF InLine
    <3>2. q # 0
      <4>1. \E M : Divided(s, t, L, M, B, q)
        BY PartialDivided DEF B, t
      <4>. QED
        BY <4>1 DEF Divided
    <3>3. qos[p] \in Nat /\ B.rounds \in Nat /\ qos[q] = qos[p] + B.rounds
      BY <1>4, <1>5, <1>6, <3>2 DEF InLine
    <3>. QED
      BY <1>4, <1>5, <3>3 DEF limit
  <2>7. Lined(v, qos, more)
    BY <2>5, <2>6, LineHasRoom
  <2>8. more = qos[u.partial.batchNo] + u.openRounds
    BY <2>3
  <2>9. PartReady(u)
    BY <2>3 DEF PartReady
  <2>. QED
    BY <1>2, <2>3, <2>7, <2>8, <2>9, SafeCarried DEF u
<1>. QED
  BY <1>10, <1>11

\* The first batch is in line.
LEMMA FirstIsSafe ==
    ASSUME NEW s, NEW L, EngineStore(s, L), s.firstOpenBatchNo = 0
    PROVE  s.batchCount = 0 /\ L = {} /\ Safe(FirstBatch(s))
<1>. DEFINE t == FirstBatch(s)
            pos == [k \in Nat |-> 0]
            limit == s.openRounds
<1>1. IsStore(s) /\ s.batchCount \in Nat /\ L \subseteq 1..s.batchCount /\ NoOthers(s) /\ limit \in Nat
  BY DEF EngineStore, Linked
<1>2. s.batchCount = 0
  BY <1>1 DEF EngineStore, FirstOpenPlaced
<1>3. L = {} /\ \A k \in Nat : k \notin 1..s.batchCount
  BY <1>1, <1>2
<1>4. \A k \in Nat : BatchAt(s, k) = NoBatch
  BY <1>1, <1>3 DEF NoOthers
<1>5. s.partial.roundCoverage = 0 /\ IsPart(s.partial)
  <2>1. IsPart(s.partial) /\ s.partial.batchNo = 0 /\ PartFits(s.partial, BatchAt(s, s.partial.batchNo))
    BY <1>3 DEF EngineStore, PartialPlaced
  <2>2. PartFits(s.partial, NoBatch)
    BY <1>4, <2>1
  <2>. QED
    BY <2>1, <2>2 DEF IsPart, PartFits, NoBatch
<1>6. /\ t.batches = s.batches /\ t.batchCount = 1 /\ t.partial = [s.partial EXCEPT !.batchNo = 1]
      /\ t.openRounds = s.openRounds
  <2>. DEFINE m == initTimeMark(s, 1)
  <2>1. IsStore(m) /\ SameHeads(s, m) /\ m.batches = s.batches
    BY <1>1, InitMarked DEF OnlyMarked
  <2>2. t = [m EXCEPT !.latestBatchNo = 1, !.batchCount = 1, !.partial.batchNo = 1, !.firstOpenBatchNo = 1]
    BY DEF FirstBatch
  <2>. HIDE DEF m, t
  <2>. QED
    BY <2>1, <2>2 DEF IsStore, StoreFields, SameHeads
<1>. HIDE DEF t, limit
<1>7. \A k \in Nat : BatchAt(t, k) = NoBatch
  BY <1>4, <1>6 DEF BatchAt
<1>8. pos \in [Nat -> Nat] /\ \A k \in Nat : pos[k] = 0
  OBVIOUS
<1>. HIDE DEF pos
<1>9. ASSUME NEW k \in Nat PROVE InLine(NoBatch, k, pos, 1, limit)
  BY <1>1, <1>8 DEF InLine, NoBatch, isReady
<1>10. Lined(t, pos, limit)
  BY <1>1, <1>6, <1>7, <1>8, <1>9 DEF Lined, NoOthers
<1>11. t.partial.batchNo = 1 /\ t.partial.roundCoverage = 0
  BY <1>5, <1>6 DEF IsPart, PartFields
<1>12. limit = pos[t.partial.batchNo] + t.openRounds
  BY <1>1, <1>6, <1>8, <1>11 DEF limit
<1>13. PartReady(t)
  BY <1>11 DEF PartReady
<1>14. Safe(t)
  BY <1>10, <1>12, <1>13 DEF Safe, LinedUpTo
<1>. QED
  BY <1>2, <1>3, <1>14 DEF t

\* The search for the batch where demand starts does not fail.
LEMMA FindIsSafe ==
    ASSUME NEW s, NEW L, EngineStore(s, L), Safe(s), NEW nextBatchNo \in L \cup {0},
           NEW r, r = findBatchToAppend(s, nextBatchNo)
    PROVE  ~r.panic /\ Safe(r.s)
<1>. DEFINE this == AppendAt(s, nextBatchNo)
<1>1. /\ s.firstOpenBatchNo = 0 => FoundAt(r, FirstBatch(s), 1)
      /\ s.firstOpenBatchNo # 0 /\ ~SplitsPartial(s, this) => FoundAt(r, s, this)
      /\ s.firstOpenBatchNo # 0 /\ SplitsPartial(s, this) => FoundAt(r, PartialLeft(s), PartialRest(s).b.nextBatchNo)
      /\ r.panic => FindFails(s, nextBatchNo, this)
  BY FindCases
<1>2. s.firstOpenBatchNo # 0 => this \in L /\ this # 0
  <2>1. s.firstOpenBatchNo # 0 => s.firstOpenBatchNo \in L
    BY DEF EngineStore, FirstOpenPlaced
  <2>. QED
    BY <2>1 DEF AppendAt
<1>. HIDE DEF this
<1>3. CASE s.firstOpenBatchNo = 0
  <2>1. s.batchCount = 0 /\ nextBatchNo = 0 /\ Safe(FirstBatch(s))
    BY <1>3, FirstIsSafe
  <2>2. r.s = FirstBatch(s)
    BY <1>1, <1>3 DEF FoundAt
  <2>. QED
    BY <1>1, <1>3, <2>1, <2>2 DEF FindFails
<1>4. CASE s.firstOpenBatchNo # 0 /\ ~SplitsPartial(s, this)
  <2>1. r.s = s
    BY <1>1, <1>4 DEF FoundAt
  <2>2. LastIsEmpty(BatchAt(s, this))
    BY <1>2, <1>4 DEF EngineStore, Linked
  <2>. QED
    BY <1>1, <1>4, <2>1, <2>2 DEF FindFails, LastIsEmpty
<1>5. CASE s.firstOpenBatchNo # 0 /\ SplitsPartial(s, this)
  <2>1. r.s = PartialLeft(s)
    BY <1>1, <1>5 DEF FoundAt
  <2>2. s.partial.batchNo # 0 /\ PartialRounds(s.partial) > 0 /\ BatchAt(s, s.partial.batchNo).nextBatchNo # 0
    BY <1>2, <1>5 DEF SplitsPartial
  <2>3. ~PartialRest(s).panic /\ Safe(PartialLeft(s))
    BY <2>2, PartialLeftIsSafe
  <2>. QED
    BY <1>1, <1>5, <2>1, <2>3 DEF FindFails
<1>. QED
  BY <1>3, <1>4, <1>5

\* The rounds with coverage are within the open rounds.
LEMMA PartialWithinOpen ==
    ASSUME NEW s, NEW L, EngineStore(s, L), s.partial.batchNo # 0, NEW pos, LinedUpTo(s, pos)
    PROVE  PartialRounds(s.partial) \in Nat /\ PartialRounds(s.partial) <= s.openRounds
<1>. DEFINE p == s.partial.batchNo
            b == BatchAt(s, p)
<1>1. p \in Nat /\ IsPart(s.partial) /\ PartFits(s.partial, b) /\ b.rounds \in Nat /\ s.openRounds \in Nat
  BY PartialBatch DEF PartialFacts, EngineStore
<1>2. pos[p] \in Nat /\ InLine(b, p, pos, s.batchCount, pos[p] + s.openRounds)
  BY <1>1 DEF LinedUpTo, Lined
<1>. HIDE DEF b, p
<1>3. b.rounds <= s.openRounds
  BY <1>1, <1>2 DEF InLine
<1>. QED
  BY <1>1, <1>3 DEF IsPart, PartFits, PartialRounds

\* The demand loop begins with a frame that has not failed.
LEMMA DemandEnteredSafe ==
    ASSUME NEW s, NEW L, EngineStore(s, L), Safe(s), NEW insured \in Insureds, NEW unitCount \in Nat, NEW rate, NEW limit,
           NEW found, found = findBatchToAppend(s, s.insureds[insured].nextBatchNo)
    PROVE  DemandSafe(demandFrame(found, insured, unitCount, rate, limit), s)
<1>. DEFINE f == demandFrame(found, insured, unitCount, rate, limit)
            p == PartialRounds(found.s.partial)
            short == found.s.openRounds < p
<1>1. DemandGood(f, s)
  BY DemandEntered
<1>2. s.insureds[insured].nextBatchNo \in L \cup {0}
  BY DEF EngineStore, InsuredsIn
<1>3. PICK M : Appendable(found.s, M, found.batchNo) /\ FoundAt(found, found.s, found.batchNo)
  <2>. DEFINE n == s.insureds[insured].nextBatchNo
  <2>1. n \in L \cup {0} /\ found = findBatchToAppend(s, n)
    BY <1>2
  <2>. HIDE DEF n
  <2>. QED
    BY <2>1, FindKeeps
<1>4. ~found.panic /\ Safe(found.s)
  <2>. DEFINE n == s.insureds[insured].nextBatchNo
  <2>1. n \in L \cup {0} /\ found = findBatchToAppend(s, n)
    BY <1>2
  <2>. HIDE DEF n
  <2>. QED
    BY <2>1, FindIsSafe
<1>5. PICK pos : LinedUpTo(found.s, pos)
  BY <1>4 DEF Safe
<1>6. /\ found.batchNo \in Nat /\ found.s.partial.batchNo \in Nat /\ found.s.partial.batchNo # 0
      /\ EngineStore(found.s, M) /\ found.b = BatchAt(found.s, found.batchNo) /\ found.s.openRounds \in Nat
  <2>1. found.batchNo \in Nat /\ found.s.partial.batchNo \in M /\ Linked(found.s, M) /\ EngineStore(found.s, M)
    BY <1>3, AppendableFacts DEF Appendable
  <2>2. 0 \notin M /\ M \subseteq Nat
    BY <2>1, LinksAreNumbers
  <2>. QED
    BY <1>3, <2>1, <2>2 DEF FoundAt, EngineStore
<1>7. p \in Nat /\ p <= found.s.openRounds
  BY <1>5, <1>6, PartialWithinOpen
<1>8. f = [s |-> found.s, b |-> found.b, batchNo |-> found.batchNo,
           isFirstOfOpen |-> found.isFirstOfOpen, insured |-> insured, rate |-> rate,
           entry |-> found.s.insureds[insured], demand |-> NoDemand, log |-> found.s.demands[insured],
           openRounds |-> found.s.openRounds - p, partialRounds |-> p,
           unitCount |-> unitCount, loopLimit |-> limit, addPerRound |-> 0,
           updateBatch |-> FALSE, takeNext |-> FALSE, done |-> FALSE,
           panic |-> found.panic \/ short]
  BY DEF demandFrame
<1>9. ~short
  BY <1>6, <1>7
<1>. HIDE DEF p, short, f
<1>10. /\ ~f.panic /\ f.s = found.s /\ f.b = found.b /\ f.batchNo = found.batchNo
       /\ f.openRounds = found.s.openRounds - p /\ f.partialRounds = p
  BY <1>4, <1>8, <1>9
<1>11. HandLimit(f, pos) = pos[found.s.partial.batchNo] + found.s.openRounds
  <2>1. (found.s.openRounds - p) + p = found.s.openRounds
    BY <1>6, <1>7
  <2>. QED
    BY <1>10, <2>1 DEF HandLimit
<1>12. HandLined(f, pos)
  BY <1>5, <1>6, <1>10, <1>11 DEF HandLined, LinedUpTo, Lined
<1>13. HandSafe(f)
  BY <1>4, <1>10, <1>12 DEF HandSafe, Safe
<1>. QED
  BY <1>1, <1>13 DEF DemandSafe, f

\* Adding demand does not fail, and the next call does not.
LEMMA AddDemandIsSafe ==
    ASSUME NEW s, NEW L, EngineStore(s, L), Safe(s), NEW insured \in Insureds, NEW unitCount \in Nat, NEW rate, NEW more,
           NEW limit \in Nat, minRounds <= maxRounds \div 2,
           NEW r, r = internalAddCoverageDemand(s, insured, unitCount, rate, more, limit)
    PROVE  ~r.panic /\ Safe(r.s)
<1>. DEFINE found == findBatchToAppend(s, s.insureds[insured].nextBatchNo)
            frame == demandFrame(found, insured, unitCount, rate, limit)
            f == Iterate(addDemandStep, frame, limit)
<1>1. r = demandAdded(f, more)
  BY DEF internalAddCoverageDemand
<1>2. DemandSafe(frame, s)
  <2>. HIDE DEF found
  <2>1. found = findBatchToAppend(s, s.insureds[insured].nextBatchNo)
    BY DEF found
  <2>. QED
    BY <2>1, DemandEnteredSafe
<1>. HIDE DEF frame
<1>3. DemandSafe(f, s)
  BY <1>2, DemandLoopIsSafe
<1>. HIDE DEF f
<1>4. HandSafe(f)
  BY <1>3 DEF DemandSafe
<1>5. PICK K : IF f.done THEN DemandFinished(f, K, s) ELSE DemandBetween(f, K, s)
  BY <1>3, <1>4 DEF DemandSafe, DemandGood, HandSafe
<1>6. DemandFinished(f, K, s)
  <2>1. ~f.done => DemandBetween(f, K, s)
    BY <1>5
  <2>. QED
    BY <1>5, <2>1, BetweenIsFinished
<1>. QED
  BY <1>1, <1>4, <1>6, DemandIsStored
-----------------------------------------------------------------------------
(* The frame of the coverage loop, from its partial batch on. *)
CoverageLimit(f, pos) == pos[f.part.batchNo] + f.s.openRounds
CoverageSafe(f) ==
    /\ ~f.panic
    /\ ~f.done \/ f.part.roundCoverage > 0 => isReady(f.b)
    /\ \E pos : Lined(f.s, pos, CoverageLimit(f, pos))

\* Closing a full batch fails for these reasons only.
LEMMA ClosePanics ==
    ASSUME NEW f, IsCoverageFrame(f), NEW g, g = closeFullBatch(f), g.panic
    PROVE  \/ f.panic \/ f.part.roundNo # f.b.rounds \/ f.part.roundCoverage # 0
           \/ f.b.unitPerRound = 0 /\ f.b.rounds # 0
           \/ f.b.nextBatchNo # 0 /\ f.s.openRounds < f.b.rounds
<1>. DEFINE premium == addPartialToTotalPremium(f.s, f.part.batchNo, f.premium, f.b)
<1>1. premium = addPartialToTotalPremium(f.s, f.part.batchNo, f.premium, f.b)
  OBVIOUS
<1>. HIDE DEF premium
<1>. QED
  BY <1>1 DEF closeFullBatch, IsCoverageFrame, CoverageFields

\* Closing a full batch does not fail, and the next one is in line.
LEMMA CloseIsSafe ==
    ASSUME NEW f, IsCoverageFrame(f), NEW L, NEW s0, NEW sum, CoverageKept(f, L, s0, sum), ~f.done,
           f.part.roundNo >= f.b.rounds, CoverageSafe(f),
           NEW g, g = closeFullBatch(f)
    PROVE  CoverageSafe(g)
<1>. DEFINE this == f.part.batchNo
            n    == f.b.nextBatchNo
            full == [f.b EXCEPT !.state = "Full"]
            s1   == PutBatch(f.s, this, full)
            next == BatchAt(s1, n)
            total == f.b.totalUnitsBeforeBatch + UnitsOf(f.b)
<1>1. /\ IsStore(f.s) /\ Linked(f.s, L) /\ this \in L /\ IsBatch(f.b) /\ ~isFull(f.b)
      /\ n # 0 /\ f.part.roundCoverage = 0 /\ IsPart(f.part) /\ f.part.roundNo <= f.b.rounds
      /\ f.s.openRounds \in Nat /\ SameButTotal(f.b, BatchAt(f.s, this))
  BY DEF CoverageKept, CoverageStore, CoverageBatch, PartFits
<1>2. this \in Nat /\ this # 0 /\ f.b.rounds \in Nat /\ f.part.roundNo \in Nat
  BY <1>1, LinksAreNumbers DEF IsBatch, IsPart
<1>3. f.part.roundNo = f.b.rounds
  BY <1>1, <1>2
<1>4. isReady(f.b) /\ ~f.panic
  BY DEF CoverageSafe
<1>5. PICK pos : Lined(f.s, pos, CoverageLimit(f, pos))
  BY DEF CoverageSafe
<1>. DEFINE limit == CoverageLimit(f, pos)
<1>6. InLine(f.b, this, pos, f.s.batchCount, limit)
  <2>1. InLine(BatchAt(f.s, this), this, pos, f.s.batchCount, limit)
    BY <1>2, <1>5 DEF Lined
  <2>. QED
    BY <1>1, <2>1, InLineTotals
<1>7. /\ pos \in [Nat -> Nat] /\ limit \in Nat /\ pos[this] \in Nat /\ limit = pos[this] + f.s.openRounds
      /\ pos[n] = pos[this] + f.b.rounds /\ pos[n] + 0 <= limit /\ f.b.unitPerRound > 0
      /\ f.b.unitPerRound \in Nat
  BY <1>1, <1>2, <1>4, <1>5, <1>6 DEF Lined, InLine, CoverageLimit
<1>. HIDE DEF limit
<1>8. ~(f.s.openRounds < f.b.rounds) /\ f.s.openRounds \in Nat
  BY <1>1, <1>2, <1>7
<1>9. ~g.panic
  <2>1. f.b.unitPerRound # 0
    BY <1>7
  <2>. QED
    BY <1>1, <1>3, <1>4, <1>8, <2>1, ClosePanics
<1>10. /\ IsStore(s1) /\ SameHeads(f.s, s1) /\ s1.batchCount = f.s.batchCount
       /\ BatchAt(s1, this) = full /\ Elsewhere(f.s, s1, this)
  <2>. HIDE DEF full
  <2>. QED
    BY <1>1, <1>2, PutBatchStores
<1>11. this \in 1..f.s.batchCount /\ f.s.batchCount \in Nat
  BY <1>1, NextNumber DEF Linked
<1>12. InLine(full, this, pos, f.s.batchCount, limit)
  <2>1. /\ full.rounds = f.b.rounds /\ full.unitPerRound = f.b.unitPerRound
        /\ full.nextBatchNo = f.b.nextBatchNo /\ full.state = "Full"
    BY <1>1 DEF IsBatch, BatchFields
  <2>. HIDE DEF full
  <2>. QED
    BY <1>6, <2>1 DEF InLine, isReady
<1>13. /\ g.s = [s1 EXCEPT !.openRounds = s1.openRounds - f.b.rounds]
       /\ g.part = [batchNo |-> n, roundNo |-> 0, roundCoverage |-> 0]
       /\ g.b = [next EXCEPT !.totalUnitsBeforeBatch = total]
       /\ g.done = (f.amount = 0 \/ ~isReady(next))
  <2>1. full = [f.b EXCEPT !.state = "Full"] /\ s1 = PutBatch(f.s, f.part.batchNo, full) /\ next = BatchAt(s1, f.b.nextBatchNo)
    OBVIOUS
  <2>. HIDE DEF next, total, full, s1
  <2>. QED
    BY <1>1, <1>10, <2>1, CloseEffects DEF total
<1>. HIDE DEF s1, full, total
<1>14. Lined(s1, pos, limit)
  BY <1>5, <1>10, <1>11, <1>12, LinePut DEF limit
<1>15. g.s.batches = s1.batches /\ g.s.batchCount = s1.batchCount /\ g.s.openRounds = f.s.openRounds - f.b.rounds
  BY <1>10, <1>13 DEF IsStore, StoreFields, SameHeads
<1>16. Lined(g.s, pos, limit)
  BY <1>14, <1>15, LineSame
<1>17. limit = CoverageLimit(g, pos)
  <2>1. g.part.batchNo = n
    BY <1>13
  <2>. QED
    BY <1>2, <1>7, <1>8, <1>15, <2>1 DEF CoverageLimit
<1>18. g.part.roundCoverage = 0
  BY <1>13
<1>19. ~g.done => isReady(g.b)
  <2>1. ~g.done => isReady(next)
    BY <1>13
  <2>2. g.b.state = next.state
    <3>. HIDE DEF next
    <3>. QED
      BY <1>13
  <2>. HIDE DEF next
  <2>. QED
    BY <2>1, <2>2 DEF isReady
<1>. QED
  BY <1>9, <1>16, <1>17, <1>18, <1>19 DEF CoverageSafe

\* Filling rounds does not fail.
LEMMA FillIsSafe ==
    ASSUME NEW f, IsCoverageFrame(f), NEW L, NEW s0, NEW sum, CoverageKept(f, L, s0, sum), ~f.done,
           CoverageSafe(f), NEW g, g = fillRounds(f)
    PROVE  CoverageSafe(g) /\ UnitSize * f.b.unitPerRound # 0
<1>. DEFINE u == f.b.unitPerRound
            marked == updateTimeMark(f.s, f.part, u)
            perRound == UnitSize * u
            rounds == f.amount \div perRound
<1>1. IsStore(f.s) /\ Linked(f.s, L) /\ f.part.batchNo \in L /\ IsPart(f.part) /\ SameButTotal(f.b, BatchAt(f.s, f.part.batchNo))
  BY DEF CoverageKept, CoverageStore, CoverageBatch
<1>2. f.part.batchNo \in Nat /\ UnitSize \in Nat \ {0}
  BY <1>1, LinksAreNumbers, RoundsAssumption
<1>3. isReady(f.b) /\ ~f.panic
  BY DEF CoverageSafe
<1>4. PICK pos : Lined(f.s, pos, CoverageLimit(f, pos))
  BY DEF CoverageSafe
<1>5. u \in Nat /\ u > 0
  <2>1. InLine(BatchAt(f.s, f.part.batchNo), f.part.batchNo, pos, f.s.batchCount, CoverageLimit(f, pos))
    BY <1>2, <1>4 DEF Lined
  <2>. QED
    BY <1>1, <1>3, <2>1 DEF SameButTotal, InLine, isReady
<1>6. perRound # 0
  BY <1>2, <1>5
<1>7. FillResult(f, g, perRound, rounds)
  <2>. HIDE DEF perRound, rounds
  <2>. QED
    BY <1>1, <1>6, FillEffects DEF perRound, rounds
<1>8. IsStore(marked) /\ SameHeads(f.s, marked) /\ marked.batchCount = f.s.batchCount /\ marked.batches = f.s.batches
  BY <1>1, TimeMarked DEF OnlyMarked
<1>9. g.s = marked /\ g.b = f.b /\ g.part.batchNo = f.part.batchNo /\ g.panic = f.panic
  BY <1>7 DEF FillResult
<1>. HIDE DEF marked
<1>10. Lined(g.s, pos, CoverageLimit(g, pos))
  <2>1. CoverageLimit(g, pos) = CoverageLimit(f, pos)
    BY <1>8, <1>9 DEF CoverageLimit, SameHeads
  <2>. QED
    BY <1>4, <1>8, <1>9, <2>1, LineSame
<1>. QED
  BY <1>3, <1>6, <1>9, <1>10 DEF CoverageSafe
\* Ending the loop is safe.
LEMMA DoneIsSafe ==
    ASSUME NEW f, CoverageSafe(f), NEW g, SameButDone(f, g), g.panic = f.panic, f.done => g.done
    PROVE  CoverageSafe(g)
<1>1. PICK pos : Lined(f.s, pos, CoverageLimit(f, pos))
  BY DEF CoverageSafe
<1>2. Lined(g.s, pos, CoverageLimit(g, pos))
  BY <1>1 DEF SameButDone, CoverageLimit
<1>. QED
  BY <1>2 DEF SameButDone, CoverageSafe

(* What the turns of the coverage loop keep. *)
CoverageOn(f, L, s0, sum) == CoverageGood(f, L, s0, sum) /\ CoverageSafe(f)

\* One turn of the coverage loop does not fail.
LEMMA CoverageStepIsSafe ==
    ASSUME NEW f, NEW L, NEW s0, NEW sum, CoverageOn(f, L, s0, sum)
    PROVE  CoverageOn(addCoverageStep(f), L, s0, sum)
<1>. DEFINE h == [f EXCEPT !.loopLimit = @ - 1]
            c == closeFullBatch(h)
            r == fillRounds(h)
            g == addCoverageStep(f)
<1>1. IsCoverageFrame(f) /\ CoverageKept(f, L, s0, sum) /\ CoverageSafe(f)
  BY DEF CoverageOn, CoverageGood, CoverageSafe
<1>2. /\ IsCoverageFrame(h) /\ h.s = f.s /\ h.b = f.b /\ h.amount = f.amount /\ h.part = f.part
      /\ h.openBatchNo = f.openBatchNo /\ h.batchUpdated = f.batchUpdated /\ h.done = f.done /\ h.panic = f.panic
  BY <1>1 DEF IsCoverageFrame, CoverageFields
<1>3. CoverageKept(h, L, s0, sum)
  BY <1>1, <1>2 DEF CoverageKept, CoverageStore, CoverageBatch, CoverageSum
<1>4. CoverageSafe(h)
  <2>1. SameButDone(f, h)
    BY <1>2 DEF SameButDone
  <2>. QED
    BY <1>1, <1>2, <2>1, DoneIsSafe
<1>5. CoverageGood(g, L, s0, sum)
  BY CoverageStepKeeps DEF CoverageOn
<1>6. IsCoverageFrame(c) /\ IsCoverageFrame(r)
  BY <1>2, CoverageStepsKeepPanic
<1>7. CASE f.done
  <2>1. g = f
    BY <1>7 DEF addCoverageStep
  <2>. HIDE DEF g
  <2>. QED
    BY <1>1, <1>5, <2>1 DEF CoverageOn, g
<1>. HIDE DEF h, c, r
<1>8. CASE ~f.done /\ f.part.roundNo >= f.b.rounds
  <2>. DEFINE e == c.done \/ c.loopLimit = 0
  <2>1. g = [c EXCEPT !.done = e]
    BY <1>8 DEF addCoverageStep, c, h
  <2>. HIDE DEF g
  <2>2. g.panic = c.panic /\ SameButDone(c, g) /\ g.done = e
    BY <1>6, <2>1 DEF IsCoverageFrame, CoverageFields, SameButDone
  <2>3. CoverageSafe(c)
    BY <1>2, <1>3, <1>4, <1>8, CloseIsSafe DEF c
  <2>4. CoverageSafe(g)
    BY <2>2, <2>3, DoneIsSafe
  <2>. QED
    BY <1>5, <2>4 DEF CoverageOn, g
<1>9. CASE ~f.done /\ ~(f.part.roundNo >= f.b.rounds)
  <2>. DEFINE e == r.done \/ r.loopLimit = 0
  <2>1. g = [r EXCEPT !.done = e]
    BY <1>9 DEF addCoverageStep, r, h
  <2>. HIDE DEF g
  <2>2. g.panic = r.panic /\ SameButDone(r, g) /\ g.done = e
    BY <1>6, <2>1 DEF IsCoverageFrame, CoverageFields, SameButDone
  <2>3. CoverageSafe(r)
    BY <1>2, <1>3, <1>4, <1>9, FillIsSafe DEF r
  <2>4. CoverageSafe(g)
    BY <2>2, <2>3, DoneIsSafe
  <2>. QED
    BY <1>5, <2>4 DEF CoverageOn, g
<1>. QED
  BY <1>7, <1>8, <1>9

\* The turns of the coverage loop do not fail.
LEMMA CoverageLoopIsSafe ==
    ASSUME NEW n \in Nat, NEW frame, NEW L, NEW s0, NEW sum, CoverageOn(frame, L, s0, sum)
    PROVE  CoverageOn(Iterate(addCoverageStep, frame, n), L, s0, sum)
<1>1. PICK it : LoopFrames("coverage", it, frame, n) /\ Iterate(addCoverageStep, frame, n) = it[n]
  BY CoverageLoopRuns
<1>. DEFINE G == {k \in 0..n : CoverageOn(it[k], L, s0, sum)}
<1>2. \A k \in 0..n : it[k] = IF k = 0 THEN frame ELSE addCoverageStep(it[k - 1])
  BY <1>1 DEF LoopFrames, LoopStep
<1>3. 0 \in G
  BY <1>2
<1>4. ASSUME NEW k \in 0..(n - 1), k \in G PROVE k + 1 \in G
  <2>1. k + 1 \in 0..n /\ k + 1 # 0 /\ (k + 1) - 1 = k /\ CoverageOn(it[k], L, s0, sum)
    BY <1>4
  <2>2. it[k + 1] = addCoverageStep(it[k])
    BY <1>2, <2>1
  <2>3. CoverageOn(it[k + 1], L, s0, sum)
    BY <2>1, <2>2, CoverageStepIsSafe
  <2>. QED
    BY <2>1, <2>3
<1>5. n \in G
  <2>. HIDE DEF G
  <2>1. 0..n \subseteq G
    BY <1>3, <1>4, UpToInduction
  <2>. QED
    BY <2>1
<1>. QED
  BY <1>1, <1>5

\* The loop begins with a frame that is safe.
LEMMA CoverageEnteredSafe ==
    ASSUME NEW s, NEW L, EngineStore(s, L), Safe(s), NEW amount \in Nat, NEW limit,
           ~CoverageBlocked(s, amount), ~CoverageFits(s, amount)
    PROVE  CoverageSafe(coverageFrame(s, amount, limit))
<1>. DEFINE f == coverageFrame(s, amount, limit)
            b == BatchAt(s, s.partial.batchNo)
            full == s.partial.roundCoverage > 0
            marked == updateTimeMark(s, s.partial, b.unitPerRound)
<1>1. s.partial.batchNo # 0
  BY DEF CoverageBlocked
<1>2. /\ s.partial.batchNo \in Nat /\ IsBatch(b) /\ LastIsEmpty(b) /\ IsPart(s.partial) /\ b.rounds \in Nat /\ IsStore(s)
  <2>1. PartialFacts(s, L, b)
    BY <1>1, PartialBatch
  <2>. QED
    BY <2>1 DEF PartialFacts
<1>3. IsStore(marked) /\ SameHeads(s, marked) /\ marked.batchCount = s.batchCount /\ marked.batches = s.batches
  BY <1>2, TimeMarked DEF OnlyMarked
<1>4. /\ f.b = b /\ f.done = FALSE
      /\ f.s = (IF s.partial.roundCoverage = 0 THEN s ELSE marked)
      /\ f.part = (IF full THEN [s.partial EXCEPT !.roundCoverage = 0, !.roundNo = @ + 1] ELSE s.partial)
      /\ f.panic = (full /\ ~isReady(b))
  BY DEF coverageFrame
<1>5. PICK pos : LinedUpTo(s, pos)
  BY DEF Safe
<1>6. isReady(b)
  <2>1. CASE full
    BY <2>1 DEF Safe, PartReady
  <2>2. CASE ~full
    <3>1. s.partial.roundCoverage = 0
      BY <1>2, <2>2 DEF IsPart
    <3>2. isReady(b) \/ ~(b.rounds > 0 \/ b.nextBatchNo = 0)
      BY <3>1 DEF CoverageBlocked
    <3>3. InLine(b, s.partial.batchNo, pos, s.batchCount, pos[s.partial.batchNo] + s.openRounds)
      BY <1>2, <1>5 DEF LinedUpTo, Lined
    <3>. HIDE DEF b
    <3>. QED
      BY <3>2, <3>3 DEF InLine
  <2>. QED
    BY <2>1, <2>2
<1>7. f.part.batchNo = s.partial.batchNo
  BY <1>2, <1>4 DEF IsPart, PartFields
<1>. HIDE DEF f, marked
<1>8. f.s.batches = s.batches /\ f.s.batchCount = s.batchCount /\ f.s.openRounds = s.openRounds
  BY <1>3, <1>4 DEF SameHeads
<1>9. Lined(f.s, pos, CoverageLimit(f, pos))
  <2>1. CoverageLimit(f, pos) = pos[s.partial.batchNo] + s.openRounds
    BY <1>7, <1>8 DEF CoverageLimit
  <2>. QED
    BY <1>5, <1>8, <2>1, LineSame DEF LinedUpTo
<1>. HIDE DEF b
<1>10. CoverageSafe(f)
  BY <1>4, <1>6, <1>9 DEF CoverageSafe
<1>. QED
  BY <1>10 DEF f

\* What is stored after the loop is safe.
LEMMA CoverageIsStored ==
    ASSUME NEW s, NEW L, NEW f, NEW sum, CoverageKept(f, L, s, sum), CoverageSafe(f),
           NEW t, t = coverageStored(f)
    PROVE  Safe(t)
<1>. DEFINE n == f.part.batchNo
            stored == IF f.batchUpdated THEN PutBatch(f.s, n, f.b) ELSE f.s
<1>1. /\ IsStore(f.s) /\ Linked(f.s, L) /\ n \in L
      /\ IsBatch(f.b) /\ SameButTotal(f.b, BatchAt(f.s, n))
      /\ ~f.batchUpdated => f.b = BatchAt(f.s, n)
  BY DEF CoverageKept, CoverageStore, CoverageBatch
<1>2. n \in Nat /\ n \in 1..f.s.batchCount /\ f.s.batchCount \in Nat
  BY <1>1, LinksAreNumbers, NextNumber DEF Linked
<1>3. PICK pos : Lined(f.s, pos, CoverageLimit(f, pos))
  BY DEF CoverageSafe
<1>4. InLine(f.b, n, pos, f.s.batchCount, CoverageLimit(f, pos))
  <2>1. InLine(BatchAt(f.s, n), n, pos, f.s.batchCount, CoverageLimit(f, pos))
    BY <1>2, <1>3 DEF Lined
  <2>. QED
    BY <1>1, <2>1, InLineTotals
<1>5. /\ IsStore(stored) /\ SameHeads(f.s, stored) /\ stored.batchCount = f.s.batchCount
      /\ BatchAt(stored, n) = f.b /\ Elsewhere(f.s, stored, n)
  <2>1. CASE f.batchUpdated
    <3>1. stored = PutBatch(f.s, n, f.b)
      BY <2>1
    <3>. HIDE DEF stored
    <3>. QED
      BY <1>1, <1>2, <3>1, PutBatchStores
  <2>2. CASE ~f.batchUpdated
    <3>1. stored = f.s
      BY <2>2
    <3>. QED
      BY <1>1, <2>2, <3>1 DEF SameHeads, Elsewhere
  <2>. QED
    BY <2>1, <2>2
<1>6. t = [stored EXCEPT !.partial = f.part, !.poolPremium = f.premium, !.firstOpenBatchNo = f.openBatchNo]
  BY DEF coverageStored
<1>. HIDE DEF stored
<1>7. t.batches = stored.batches /\ t.batchCount = stored.batchCount /\ t.partial = f.part /\ t.openRounds = f.s.openRounds
  BY <1>5, <1>6 DEF IsStore, StoreFields, SameHeads
<1>8. Lined(stored, pos, CoverageLimit(f, pos))
  BY <1>2, <1>3, <1>4, <1>5, LinePut
<1>9. PartReady(t)
  <2>1. BatchAt(t, n) = f.b
    BY <1>5, <1>7 DEF BatchAt
  <2>. QED
    BY <1>7, <2>1 DEF PartReady, CoverageSafe
<1>10. CoverageLimit(f, pos) = pos[t.partial.batchNo] + t.openRounds
  BY <1>7 DEF CoverageLimit
<1>. QED
  BY <1>7, <1>8, <1>9, <1>10, SafeCarried

\* Adding coverage does not fail.
LEMMA AddCoverageIsSafe ==
    ASSUME NEW s, NEW L, EngineStore(s, L), Safe(s), NEW amount \in Nat, NEW limit \in Nat,
           NEW r, r = internalAddCoverage(s, amount, limit)
    PROVE  ~r.panic /\ Safe(r.s)
<1>1. IsPart(s.partial) /\ s.partial.roundCoverage \in Nat /\ IsStore(s)
  BY DEF EngineStore, PartialPlaced, IsPart
<1>2. CASE CoverageBlocked(s, amount)
  BY <1>1, <1>2, AddCoverageCases
<1>3. CASE ~CoverageBlocked(s, amount) /\ CoverageFits(s, amount)
  <2>. DEFINE u == BatchAt(s, s.partial.batchNo).unitPerRound
              marked == updateTimeMark(s, s.partial, u)
  <2>1. r.s = roundFilled(s, amount) /\ (r.panic => ~isReady(BatchAt(s, s.partial.batchNo)))
    BY <1>1, <1>3, AddCoverageCases
  <2>2. isReady(BatchAt(s, s.partial.batchNo))
    BY <1>3 DEF CoverageFits, Safe, PartReady
  <2>3. IsStore(marked) /\ SameHeads(s, marked) /\ marked.batchCount = s.batchCount /\ marked.batches = s.batches
    BY <1>1, TimeMarked DEF OnlyMarked
  <2>4. r.s = [marked EXCEPT !.partial.roundCoverage = @ + amount]
    BY <2>1 DEF roundFilled
  <2>. HIDE DEF marked
  <2>5. /\ r.s.batches = s.batches /\ r.s.batchCount = s.batchCount /\ r.s.openRounds = s.openRounds
        /\ r.s.partial.batchNo = s.partial.batchNo
    BY <1>1, <2>3, <2>4 DEF IsStore, StoreFields, SameHeads, IsPart, PartFields
  <2>6. PartReady(r.s)
    BY <2>2, <2>5 DEF PartReady, BatchAt
  <2>7. PICK pos : LinedUpTo(s, pos)
    BY DEF Safe
  <2>8. Lined(s, pos, pos[s.partial.batchNo] + s.openRounds)
    BY <2>7 DEF LinedUpTo
  <2>9. Safe(r.s)
    BY <2>5, <2>6, <2>8, SafeCarried
  <2>. QED
    BY <2>1, <2>2, <2>9
<1>4. CASE ~CoverageBlocked(s, amount) /\ ~CoverageFits(s, amount)
  <2>. DEFINE frame == coverageFrame(s, amount, limit)
              sum == StoreSum(s) + amount
  <2>1. PICK f : /\ f = coverageLoop(s, amount, limit)
                 /\ r.s = coverageStored(f) /\ (r.panic => f.panic \/ f.openBatchNo = 0)
    BY <1>1, <1>4, AddCoverageCases
  <2>2. CoverageOn(frame, L, s, sum)
    BY <1>4, LoopEntered, CoverageEnteredSafe DEF CoverageOn
  <2>3. f = Iterate(addCoverageStep, frame, limit)
    BY <2>1 DEF coverageLoop
  <2>. HIDE DEF frame, sum
  <2>4. CoverageOn(f, L, s, sum)
    BY <2>2, <2>3, CoverageLoopIsSafe
  <2>5. CoverageKept(f, L, s, sum) /\ CoverageSafe(f) /\ ~f.panic
    BY <2>4 DEF CoverageOn, CoverageGood, CoverageSafe
  <2>6. f.openBatchNo # 0
    <3>1. f.openBatchNo \in L /\ Linked(f.s, L)
      BY <2>5 DEF CoverageKept, CoverageStore
    <3>. QED
      BY <3>1, LinksAreNumbers
  <2>7. Safe(r.s)
    BY <2>1, <2>5, CoverageIsStored
  <2>. QED
    BY <2>1, <2>5, <2>6, <2>7
<1>. QED
  BY <1>2, <1>3, <1>4

-----------------------------------------------------------------------------
(* The steps while nothing is cancelled.                                   *)

(* The inductive invariant: the one of the collection, and no call fails. *)
SafeInv == CoverInv /\ Safe(Storage)

\* Safety is about the batches, the partial round and the open rounds only.
LEMMA SafeMoves ==
    ASSUME NEW s, Safe(s),
           NEW t, t.batches = s.batches, t.batchCount = s.batchCount, t.partial = s.partial, t.openRounds = s.openRounds
    PROVE  Safe(t)
<1>1. PICK pos : LinedUpTo(s, pos)
  BY DEF Safe
<1>2. PartReady(t)
  BY DEF Safe, PartReady, BatchAt
<1>. QED
  BY <1>1, <1>2, SafeCarried DEF LinedUpTo

\* Nothing is wrong before the first call.
LEMMA SafeInit == Init => SafeInv
<1> SUFFICES ASSUME Init PROVE Safe(Storage)
  BY CoverInit DEF SafeInv
<1>. DEFINE s == Storage
            pos == [n \in Nat |-> 0]
<1>1. /\ s.batches = <<>> /\ s.batchCount = 0 /\ s.openRounds = 0
      /\ s.partial = [roundCoverage |-> 0, batchNo |-> 0, roundNo |-> 0]
  BY DEF Init, Storage
<1>. HIDE DEF s
<1>2. \A k : BatchAt(s, k) = NoBatch
  BY <1>1 DEF BatchAt
<1>3. pos \in [Nat -> Nat] /\ \A n \in Nat : pos[n] = 0
  OBVIOUS
<1>. HIDE DEF pos
<1>4. \A n \in Nat : InLine(NoBatch, n, pos, 0, 0)
  BY <1>3 DEF InLine, NoBatch, isReady
<1>5. Lined(s, pos, 0)
  BY <1>1, <1>2, <1>3, <1>4 DEF Lined, NoOthers
<1>6. 0 = pos[s.partial.batchNo] + s.openRounds /\ PartReady(s)
  BY <1>1, <1>3 DEF PartReady
<1>7. Safe(s)
  BY <1>5, <1>6, SafeCarried
<1>. QED
  BY <1>7 DEF s

\* No step leads to a storage in which a call fails.
LEMMA SafeKept ==
    ASSUME minRounds <= maxRounds \div 2
    PROVE  SafeInv /\ [Allocation]_vars => SafeInv'
<1> SUFFICES ASSUME SafeInv, [Allocation]_vars PROVE Safe(Storage')
  BY CoverKept DEF SafeInv
<1>1. PICK L : EngineStore(Storage, L)
  BY DEF SafeInv, CoverInv, LogsInv, RoundsInv
<1>2. ASSUME NEW t, Commit(t), Safe(t) PROVE Safe(Storage')
  <2>1. SameEngine(t, Storage')
    BY <1>2, Committed
  <2>. QED
    BY <1>2, <2>1, SafeMoves DEF SameEngine
<1>3. ASSUME NEW insured \in Insureds, addCoverageDemand(insured) PROVE Safe(Storage')
  <2>1. PICK units \in UnitCounts, rate \in Rates, more \in HasMore, limit \in LoopLimits :
           \E r \in {internalAddCoverageDemand(Storage, insured, units, rate, more, limit)} : Commit(r.s)
    BY <1>3 DEF addCoverageDemand
  <2>. DEFINE s == Storage
              r == internalAddCoverageDemand(s, insured, units, rate, more, limit)
  <2>2. Commit(r.s) /\ units \in Nat /\ limit \in Nat
    BY <2>1, RoundsAssumption
  <2>3. EngineStore(s, L) /\ Safe(s)
    BY <1>1 DEF SafeInv
  <2>. HIDE DEF s
  <2>4. Safe(r.s)
    <3>. HIDE DEF r
    <3>1. r = internalAddCoverageDemand(s, insured, units, rate, more, limit)
      BY DEF r
    <3>. QED
      BY <2>2, <2>3, <3>1, AddDemandIsSafe
  <2>. HIDE DEF r
  <2>. QED
    BY <1>2, <2>2, <2>4
<1>4. ASSUME addCoverage PROVE Safe(Storage')
  <2>1. PICK amount \in Amounts, limit \in CoverageLoopLimits :
           \E r \in {internalAddCoverage(Storage, amount, limit)} : Commit(r.s)
    BY <1>4 DEF addCoverage
  <2>. DEFINE s == Storage
              r == internalAddCoverage(s, amount, limit)
  <2>2. Commit(r.s) /\ amount \in Nat /\ limit \in Nat
    BY <2>1, RoundsAssumption
  <2>3. EngineStore(s, L) /\ Safe(s)
    BY <1>1 DEF SafeInv
  <2>. HIDE DEF s
  <2>4. Safe(r.s)
    <3>. HIDE DEF r
    <3>1. r = internalAddCoverage(s, amount, limit)
      BY DEF r
    <3>. QED
      BY <2>2, <2>3, <3>1, AddCoverageIsSafe
  <2>. HIDE DEF r
  <2>. QED
    BY <1>2, <2>2, <2>4
<1>5. ASSUME pullDemandCandidate PROVE Safe(Storage')
  <2>1. PICK limit \in LoopLimits, peek \in BOOLEAN :
           Commit(internalPullDemandCandidate(Storage, limit, peek).s)
    BY <1>5 DEF pullDemandCandidate
  <2>. DEFINE t == internalPullDemandCandidate(Storage, limit, peek).s
  <2>2. OnlyPullable(Storage, t)
    BY RoundsAssumption, StorageIsStore, PullKeeps
  <2>3. Commit(t)
    BY <2>1
  <2>. HIDE DEF t
  <2>4. Safe(t)
    BY <2>2, SafeMoves DEF OnlyPullable, StoreFields, SafeInv
  <2>. QED
    BY <1>2, <2>3, <2>4
<1>6. ASSUME (\E i \in Insureds : receiveDemandedCoverage(i)) \/ Tick \/ UNCHANGED vars PROVE Safe(Storage')
  <2>1. UNCHANGED <<batches, batchCount, partial, openRounds>>
    BY <1>6 DEF receiveDemandedCoverage, Tick, vars, storageVars
  <2>2. /\ (Storage').batches = Storage.batches /\ (Storage').batchCount = Storage.batchCount
        /\ (Storage').partial = Storage.partial /\ (Storage').openRounds = Storage.openRounds
    BY <2>1 DEF Storage
  <2>. QED
    BY <2>2, SafeMoves DEF SafeInv
<1>. QED
  BY <1>3, <1>4, <1>5, <1>6 DEF Allocation

\* While nothing is cancelled, no call of an insured or of an investor can fail by an
\* assertion of the engine, when a batch that is filled up to maxRounds leaves room for
\* the least number of rounds.
THEOREM NothingFails ==
    ASSUME minRounds <= maxRounds \div 2
    PROVE  AllocationSpec => []SanityHolds
<1>1. SafeInv => SanityHolds
  <2> SUFFICES ASSUME SafeInv PROVE SanityHolds
    OBVIOUS
  <2>. DEFINE s == Storage
  <2>1. PICK L : EngineStore(s, L)
    BY DEF SafeInv, CoverInv, LogsInv, RoundsInv
  <2>2. Safe(s) /\ LogsOK(s) /\ CoverOK(s)
    BY DEF SafeInv, CoverInv, LogsInv
  <2>3. s = Storage
    OBVIOUS
  <2>. HIDE DEF s
  <2>4. ASSUME NEW i \in Insureds, NEW units \in UnitCounts, NEW rate \in Rates, NEW limit \in LoopLimits
        PROVE  ~internalAddCoverageDemand(s, i, units, rate, FALSE, limit).panic
    <3>1. units \in Nat /\ limit \in Nat
      BY RoundsAssumption
    <3>. DEFINE r == internalAddCoverageDemand(s, i, units, rate, FALSE, limit)
    <3>2. r = internalAddCoverageDemand(s, i, units, rate, FALSE, limit)
      OBVIOUS
    <3>. HIDE DEF r
    <3>3. ~r.panic
      BY <2>1, <2>2, <3>1, <3>2, AddDemandIsSafe
    <3>. QED
      BY <3>2, <3>3
  <2>5. ASSUME NEW amount \in Amounts, NEW limit \in CoverageLoopLimits
        PROVE  ~internalAddCoverage(s, amount, limit).panic
    <3>1. amount \in Nat /\ limit \in Nat
      BY RoundsAssumption
    <3>. DEFINE r == internalAddCoverage(s, amount, limit)
    <3>2. r = internalAddCoverage(s, amount, limit)
      OBVIOUS
    <3>. HIDE DEF r
    <3>3. ~r.panic
      BY <2>1, <2>2, <3>1, <3>2, AddCoverageIsSafe
    <3>. QED
      BY <3>2, <3>3
  <2>6. ASSUME NEW i \in Insureds PROVE ~Collected(i).panic
    <3>1. PICK pos : Readable(s, pos, i)
      BY <2>1, <2>2, LogsAreReadable
    <3>2. ~CollectedIn(s, i).panic
      BY <3>1, CollectedIsCovered
    <3>. QED
      BY <2>3, <3>2 DEF Collected
  <2>. QED
    BY <2>3, <2>4, <2>5, <2>6 DEF SanityHolds
<1>. QED
  BY <1>1, SafeInit, SafeKept, PTL DEF AllocationSpec

-----------------------------------------------------------------------------
(* Coverage is conserved.  Adding demand does not change what the rounds up *)
(* to the partial one count: the units before the partial batch stay, and   *)
(* so do its units per round when it has full rounds.                       *)

(* The batch b counts what the partial batch of u does. *)
CountsAs(u, b) ==
    /\ b.totalUnitsBeforeBatch = BatchAt(u, u.partial.batchNo).totalUnitsBeforeBatch
    /\ u.partial.roundNo = 0 \/ b.unitPerRound = BatchAt(u, u.partial.batchNo).unitPerRound

(* In the store t, which a call that began with u has come to. *)
CountKept(u, t) ==
    /\ IsStore(t) /\ t.partial = u.partial /\ t.batchCount \in Nat /\ u.partial.batchNo \in 1..t.batchCount
    /\ CountsAs(u, BatchAt(t, u.partial.batchNo))

(* In the batch in hand, which is the partial one only without full rounds. *)
HandCounts(u, n, b) ==
    /\ "totalUnitsBeforeBatch" \in DOMAIN b
    /\ n = u.partial.batchNo =>
          u.partial.roundNo = 0 /\ b.totalUnitsBeforeBatch = BatchAt(u, n).totalUnitsBeforeBatch

FrameCounts(u, f) == IsDemandFrame(f) /\ CountKept(u, f.s) /\ HandCounts(u, f.batchNo, f.b)

\* Batches that are added or moved behind leave the count.
LEMMA CountMoves ==
    ASSUME NEW u, NEW t, CountKept(u, t),
           NEW v, IsStore(v), v.partial = t.partial, v.batchCount \in Nat, t.batchCount <= v.batchCount,
           \A k \in 1..t.batchCount : BatchAt(v, k) = BatchAt(t, k)
    PROVE  CountKept(u, v)
  BY DEF CountKept

\* So does a new batch number with its time mark ...
LEMMA CountMarked ==
    ASSUME NEW u, NEW t, CountKept(u, t), NEW n, n = t.batchCount + 1, NEW last
    PROVE  CountKept(u, [initTimeMark(t, n) EXCEPT !.batchCount = n, !.latestBatchNo = last])
<1>. DEFINE v == [initTimeMark(t, n) EXCEPT !.batchCount = n, !.latestBatchNo = last]
<1>1. IsStore(t) /\ t.batchCount \in Nat /\ n \in Nat /\ t.batchCount <= n
  BY DEF CountKept
<1>2. OnlyMarked(t, initTimeMark(t, n))
  BY <1>1, InitMarked
<1>3. IsStore(v) /\ v.partial = t.partial /\ v.batchCount = n /\ v.batches = t.batches
  BY <1>2 DEF OnlyMarked, SameHeads, IsStore, StoreFields
<1>. HIDE DEF v
<1>4. \A k : BatchAt(v, k) = BatchAt(t, k)
  BY <1>3 DEF BatchAt
<1>5. CountKept(u, v)
  BY <1>1, <1>3, <1>4, CountMoves
<1>. QED
  BY <1>5 DEF v

\* ... and a split, which leaves the units before the batch that is split.
LEMMA CountSplit ==
    ASSUME NEW u, NEW t, CountKept(u, t), NEW remaining, NEW n, NEW b, HandCounts(u, n, b),
           NEW split, split = splitBatch(t, remaining, b)
    PROVE  CountKept(u, split.s) /\ HandCounts(u, n, split.b)
<1>. DEFINE k == t.batchCount + 1
<1>1. IsStore(t) /\ t.batchCount \in Nat
  BY DEF CountKept
<1>2. CASE b.rounds = remaining
  <2>1. split.s = t /\ split.b = b
    BY <1>2 DEF splitBatch
  <2>. QED
    BY <2>1
<1>3. CASE b.rounds # remaining
  <2>1. SplitOff(t, split.s, k, MovedRounds(b, remaining, k)) /\ split.b = KeptRounds(b, remaining, k)
    BY <1>1, <1>3, SplitEffects
  <2>2. IsStore(split.s) /\ split.s.partial = t.partial /\ split.s.batchCount = k
    BY <2>1 DEF SplitOff, SameHeads
  <2>3. \A j \in 1..t.batchCount : BatchAt(split.s, j) = BatchAt(t, j)
    <3>1. \A j \in 1..t.batchCount : j \in Nat /\ j # k
      BY <1>1
    <3>. QED
      BY <2>1, <3>1 DEF SplitOff, Elsewhere
  <2>4. k \in Nat /\ t.batchCount <= k
    BY <1>1
  <2>. HIDE DEF k
  <2>5. CountKept(u, split.s)
    BY <2>2, <2>3, <2>4, CountMoves
  <2>6. HandCounts(u, n, split.b)
    BY <2>1 DEF HandCounts, KeptRounds
  <2>. QED
    BY <2>5, <2>6
<1>. QED
  BY <1>2, <1>3

\* addToBatch leaves the count.
LEMMA BatchKeepsCount ==
    ASSUME NEW u, NEW f, FrameCounts(u, f)
    PROVE  FrameCounts(u, addToBatch(f))
<1>1. ASSUME NEW h, FrameCounts(u, h), NEW limits, NEW add
      PROVE  FrameCounts(u, addUnits(h, limits, add))
  <2>. DEFINE units == h.b.unitPerRound + add
              state == IF units < limits.min THEN h.b.state
                       ELSE IF h.isFirstOfOpen /\ units >= limits.ready THEN "Ready" ELSE "ReadyMin"
              takes == limits.share > 0
              sum == h.b.roundPremiumRateSum + h.rate * add
              c == [h.b EXCEPT !.unitPerRound = units, !.roundPremiumRateSum = sum, !.state = state]
              g == addUnits(h, limits, add)
  <2>1. g = [h EXCEPT !.b.unitPerRound = units, !.b.roundPremiumRateSum = @ + h.rate * add, !.b.state = state,
                      !.addPerRound = add, !.takeNext = takes]
    BY DEF addUnits
  <2>2. IsDemandFrame(h)
    BY <1>1 DEF FrameCounts
  <2>. HIDE DEF units, state, takes, g
  <2>3. IsDemandFrame(g) /\ g.s = h.s /\ g.batchNo = h.batchNo
    BY <2>1, <2>2 DEF IsDemandFrame, DemandFields
  <2>4. DOMAIN g.b = DOMAIN h.b /\ ("totalUnitsBeforeBatch" \in DOMAIN h.b => g.b.totalUnitsBeforeBatch = h.b.totalUnitsBeforeBatch)
    BY <2>1, <2>2 DEF IsDemandFrame, DemandFields
  <2>5. FrameCounts(u, g)
    BY <1>1, <2>3, <2>4 DEF FrameCounts, HandCounts
  <2>. QED
    BY <2>5 DEF g
<1>2. \A h : FrameCounts(u, h) => FrameCounts(u, addToRounds(h))
  BY <1>1 DEF addToRounds, addWithinLimits
<1>. DEFINE splitRounds == internalBatchSplit(f.entry.demandedUnits, MinUnits[f.insured], f.b.rounds, f.unitCount)
            split == splitBatch(f.s, splitRounds, f.b)
            h == withSplit(f, split)
            armA == f.unitCount >= f.b.rounds
            armB == f.unitCount < f.b.rounds /\ splitRounds = 0
            ra == addToRounds(f)
            rb == [f EXCEPT !.addPerRound = 0, !.takeNext = FALSE]
            rc == addToRounds(h)
            g == addToBatch(f)
<1>3. g = CASE armA -> ra [] armB -> rb [] OTHER -> rc
  BY DEF addToBatch
<1>4. FrameCounts(u, rb)
  BY DEF FrameCounts, IsDemandFrame, DemandFields
<1>5. CountKept(u, split.s) /\ HandCounts(u, f.batchNo, split.b)
  BY CountSplit DEF FrameCounts
<1>. HIDE DEF split
<1>6. IsDemandFrame(h) /\ h.s = split.s /\ h.b = split.b /\ h.batchNo = f.batchNo
  BY DEF withSplit, FrameCounts, IsDemandFrame, DemandFields
<1>. HIDE DEF h
<1>7. FrameCounts(u, ra) /\ FrameCounts(u, rc)
  BY <1>2, <1>5, <1>6 DEF FrameCounts
<1>. HIDE DEF armA, armB, ra, rb, rc, g
<1>8. g = ra \/ g = rb \/ g = rc
  BY <1>3
<1>. QED
  BY <1>4, <1>7, <1>8 DEF g

\* So do the stages of a turn that work on the batch in hand.
LEMMA StagesKeepCount ==
    ASSUME NEW u, NEW f, FrameCounts(u, f)
    PROVE  FrameCounts(u, appendRounds(f)) /\ FrameCounts(u, addToOpenBatch(f)) /\ FrameCounts(u, recordSlot(f))
<1>1. IsDemandFrame(f) /\ CountKept(u, f.s) /\ HandCounts(u, f.batchNo, f.b)
  BY DEF FrameCounts
<1>2. FrameCounts(u, appendRounds(f))
  <2>. DEFINE appended == internalBatchAppend(f.openRounds, f.unitCount)
              n == f.s.batchCount + 1
              isLast == f.b.nextBatchNo = 0
              t == [initTimeMark(f.s, n) EXCEPT !.batchCount = n, !.latestBatchNo = n]
              next == IF isLast THEN n ELSE f.b.nextBatchNo
              c == [f.b EXCEPT !.rounds = appended.rounds, !.nextBatchNo = next]
              armA == f.b.rounds # 0
              armB == f.b.rounds = 0 /\ appended.rounds = 0
              rb == [f EXCEPT !.done = TRUE, !.panic = @ \/ appended.panic]
              rc == [f EXCEPT !.b.rounds = appended.rounds,
                              !.b.nextBatchNo = IF isLast THEN n ELSE @,
                              !.openRounds = @ + appended.rounds,
                              !.updateBatch = TRUE,
                              !.s = IF isLast THEN t ELSE @]
              g == appendRounds(f)
  <2>1. g = CASE armA -> f [] armB -> rb [] OTHER -> rc
    BY DEF appendRounds
  <2>2. CountKept(u, t)
    <3>. HIDE DEF n
    <3>. QED
      BY <1>1, CountMarked DEF n
  <2>. HIDE DEF appended, n, isLast, t
  <2>3. /\ IsDemandFrame(rb) /\ rb.s = f.s /\ rb.b = f.b /\ rb.batchNo = f.batchNo
        /\ IsDemandFrame(rc) /\ (rc.s = f.s \/ rc.s = t) /\ rc.batchNo = f.batchNo
        /\ DOMAIN rc.b = DOMAIN f.b
        /\ "totalUnitsBeforeBatch" \in DOMAIN f.b => rc.b.totalUnitsBeforeBatch = f.b.totalUnitsBeforeBatch
    BY <1>1 DEF IsDemandFrame, DemandFields
  <2>. HIDE DEF armA, armB, rb, rc, g
  <2>4. g = f \/ g = rb \/ g = rc
    BY <2>1
  <2>5. HandCounts(u, f.batchNo, rc.b)
    BY <1>1, <2>3 DEF HandCounts
  <2>6. FrameCounts(u, rb) /\ FrameCounts(u, rc)
    BY <1>1, <2>2, <2>3, <2>5 DEF FrameCounts
  <2>. QED
    BY <2>4, <2>6 DEF g
<1>3. FrameCounts(u, addToOpenBatch(f))
  <2>. DEFINE a == addToBatch(f)
              armA == f.done
              armB == ~f.done /\ ~isOpen(f.b)
              rb == [f EXCEPT !.addPerRound = 0]
              rc == keepFirstOpen(unitsAdded(a))
              g == addToOpenBatch(f)
  <2>1. g = CASE armA -> f [] armB -> rb [] OTHER -> rc
    BY DEF addToOpenBatch
  <2>2. FrameCounts(u, rb)
    BY <1>1 DEF FrameCounts, IsDemandFrame, DemandFields
  <2>3. FrameCounts(u, a)
    BY BatchKeepsCount
  <2>. HIDE DEF a
  <2>4. FrameCounts(u, unitsAdded(a))
    BY <2>3 DEF FrameCounts, unitsAdded, IsDemandFrame, DemandFields
  <2>. DEFINE h == unitsAdded(a)
  <2>. HIDE DEF h
  <2>5. FrameCounts(u, keepFirstOpen(h))
    <3>. DEFINE t == [h.s EXCEPT !.firstOpenBatchNo = h.batchNo]
                k == [h EXCEPT !.s = t, !.isFirstOfOpen = FALSE]
    <3>1. keepFirstOpen(h) = h \/ keepFirstOpen(h) = k
      BY DEF keepFirstOpen
    <3>2. FrameCounts(u, h) /\ CountKept(u, h.s) /\ IsStore(h.s)
      BY <2>4 DEF h, FrameCounts, CountKept
    <3>3. IsStore(t) /\ t.partial = h.s.partial /\ t.batchCount = h.s.batchCount /\ t.batches = h.s.batches
      BY <3>2 DEF IsStore, StoreFields
    <3>. HIDE DEF t
    <3>4. CountKept(u, t)
      BY <3>2, <3>3 DEF CountKept, BatchAt
    <3>5. IsDemandFrame(k) /\ k.s = t /\ k.b = h.b /\ k.batchNo = h.batchNo
      BY <3>2 DEF FrameCounts, IsDemandFrame, DemandFields
    <3>. HIDE DEF k
    <3>. QED
      BY <3>1, <3>2, <3>4, <3>5 DEF FrameCounts
  <2>6. FrameCounts(u, rc)
    BY <2>5 DEF h
  <2>. HIDE DEF armA, armB, rb, rc, g
  <2>7. g = f \/ g = rb \/ g = rc
    BY <2>1
  <2>. QED
    BY <2>2, <2>6, <2>7 DEF g
<1>4. FrameCounts(u, recordSlot(f))
  <2>. DEFINE units == f.addPerRound * f.b.rounds
              more == PushDemand(f.log, f.demand)
              armA == f.b.rounds = 0
              armB == f.b.rounds > 0 /\ continuesSlot(f)
              rb == [f EXCEPT !.demand.rounds = @ + f.b.rounds]
              rc == [f EXCEPT !.log = more,
                              !.demand = [startBatchNo |-> f.batchNo, premiumRate |-> f.rate,
                                          rounds |-> f.b.rounds, unitPerRound |-> f.addPerRound]]
              slot == CASE armA -> f [] armB -> rb [] OTHER -> rc
              ends == ~f.takeNext
  <2>1. recordSlot(f) = IF f.done THEN f
                        ELSE [slot EXCEPT !.unitCount = @ - units, !.entry.demandedUnits = @ + units, !.done = ends]
    BY DEF recordSlot
  <2>. HIDE DEF more
  <2>2. FrameCounts(u, rb) /\ FrameCounts(u, rc)
    BY <1>1 DEF FrameCounts, IsDemandFrame, DemandFields
  <2>3. FrameCounts(u, slot)
    <3>. HIDE DEF armA, armB, rb, rc
    <3>1. slot = f \/ slot = rb \/ slot = rc
      OBVIOUS
    <3>. QED
      BY <2>2, <3>1
  <2>. HIDE DEF slot, units, ends
  <2>. QED
    BY <2>1, <2>3 DEF FrameCounts, IsDemandFrame, DemandFields
<1>. QED
  BY <1>2, <1>3, <1>4

\* The batch in hand can be stored.
LEMMA CountPut ==
    ASSUME NEW u, NEW f, FrameCounts(u, f), f.batchNo \in Nat
    PROVE  CountKept(u, FramePut(f))
<1>. DEFINE n == f.batchNo
            p == u.partial.batchNo
            t == FramePut(f)
<1>1. CountKept(u, f.s) /\ HandCounts(u, n, f.b) /\ IsStore(f.s)
  BY DEF FrameCounts, CountKept
<1>2. t = PutBatch(f.s, n, f.b)
  BY DEF FramePut
<1>. HIDE DEF t
<1>3. IsStore(t) /\ SameHeads(f.s, t) /\ t.batchCount = f.s.batchCount /\ BatchAt(t, n) = f.b /\ Elsewhere(f.s, t, n)
  BY <1>1, <1>2, PutBatchStores
<1>4. CountsAs(u, BatchAt(t, p))
  <2>1. CASE n = p
    BY <1>1, <1>3, <2>1 DEF HandCounts, CountsAs
  <2>2. CASE n # p
    <3>1. p \in Nat
      BY <1>1 DEF CountKept
    <3>2. BatchAt(t, p) = BatchAt(f.s, p)
      BY <1>3, <2>2, <3>1 DEF Elsewhere
    <3>. QED
      BY <1>1, <3>2 DEF CountKept
  <2>. QED
    BY <2>1, <2>2
<1>. QED
  BY <1>1, <1>3, <1>4 DEF CountKept, SameHeads, t

\* The next batch is behind the partial one.
LEMMA NextKeepsCount ==
    ASSUME NEW u, NEW f, FrameCounts(u, f), NEW L, NEW M, NEW s0, DemandMid(f, L, M, s0), ~f.done,
           NEW g, g = takeNextBatch(f)
    PROVE  FrameCounts(u, g)
<1>. DEFINE n == f.batchNo
            q == f.b.nextBatchNo
            t == FramePut(f)
<1>1. IsDemandFrame(f)
  BY DEF FrameCounts
<1>2. IsDemandFrame(g) /\ DemandBetween(g, M, s0)
  BY <1>1, TakeNextStep
<1>3. g.s = t /\ g.batchNo = q
  BY <1>1 DEF takeNextBatch, FramePut, IsDemandFrame, DemandFields
<1>4. Appendable(f.s, L, n) /\ Appendable(t, M, n)
  BY DEF DemandMid
<1>5. n \in Nat /\ IsStore(f.s)
  BY <1>4, AppendableFacts
<1>6. CountKept(u, t)
  BY <1>5, CountPut
<1>7. BatchAt(t, n) = f.b
  BY <1>5, PutBatchStores DEF FramePut
<1>. HIDE DEF t
<1>8. q # t.partial.batchNo
  <2>1. NextOf(t, n) # t.partial.batchNo
    BY <1>4, AppendableFacts
  <2>. QED
    BY <1>7, <2>1 DEF NextOf
<1>9. HandCounts(u, q, g.b)
  BY <1>2, <1>6, <1>8 DEF HandCounts, CountKept, DemandBetween, IsBatch, BatchFields
<1>. QED
  BY <1>2, <1>3, <1>6, <1>9 DEF FrameCounts

\* So does a turn of the loop.
CountGood(f, u) == DemandGood(f, u) /\ (f.panic \/ FrameCounts(u, f))

LEMMA DemandStepKeepsCount ==
    ASSUME NEW f, NEW u, CountGood(f, u)
    PROVE  CountGood(addDemandStep(f), u)
<1>. DEFINE h == [f EXCEPT !.loopLimit = @ - 1]
            a == appendRounds(h)
            b == addToOpenBatch(a)
            c == recordSlot(b)
            d == takeNextBatch(c)
            g == addDemandStep(f)
<1>0. DemandGood(f, u) /\ DemandGood(g, u)
  BY DemandStepKeeps DEF CountGood
<1>1. CASE f.done
  BY <1>1 DEF addDemandStep
<1>2. CASE ~f.done
  <2>1. g = d
    BY <1>2 DEF addDemandStep
  <2>2. /\ IsDemandFrame(h) /\ h.panic = f.panic /\ h.done = f.done /\ SameCounts(f, h) /\ h.s = f.s /\ h.b = f.b
        /\ h.openRounds = f.openRounds /\ h.updateBatch = f.updateBatch
    BY <1>0 DEF DemandGood, IsDemandFrame, DemandFields, SameCounts
  <2>. HIDE DEF g, h
  <2>3. IsDemandFrame(a) /\ (h.panic => a.panic)
    BY <2>2, StagesKeepPanic DEF StillFails
  <2>4. ~h.done /\ ~h.panic => \A L : DemandBetween(h, L, u) /\ ~a.done => \E M : DemandMid(a, L, M, u)
    BY <2>2, AppendStep
  <2>5. FrameCounts(u, h) => FrameCounts(u, a)
    BY StagesKeepCount
  <2>. HIDE DEF a
  <2>6. IsDemandFrame(b) /\ (a.panic => b.panic)
    BY <2>3, StagesKeepPanic DEF StillFails
  <2>7. \A L, M : DemandMid(a, L, M, u) /\ ~a.done /\ ~b.done => UnitsPlaced(a, b, L, u)
    BY <2>3, AddToOpenBatchStep
  <2>8. (FrameCounts(u, a) => FrameCounts(u, b)) /\ (a.done => b = a)
    BY StagesKeepCount, StagesStop
  <2>. HIDE DEF b
  <2>9. IsDemandFrame(c) /\ (b.panic => c.panic)
    BY <2>6, StagesKeepPanic DEF StillFails
  <2>10. \A L, K : DemandMid(b, L, K, u) /\ ~b.done /\ b.addPerRound \in Nat /\ b.addPerRound * b.b.rounds <= b.unitCount
            => DemandMid(c, L, K, u)
    BY <2>6, RecordStep
  <2>11. (FrameCounts(u, b) => FrameCounts(u, c)) /\ (b.done => c = b)
    BY StagesKeepCount, StagesStop
  <2>. HIDE DEF c
  <2>12. IsDemandFrame(d) /\ (c.panic => d.panic) /\ (c.done => d = c)
    BY <2>9, StagesKeepPanic, StagesStop DEF StillFails
  <2>13. \A L, M : FrameCounts(u, c) /\ DemandMid(c, L, M, u) /\ ~c.done => FrameCounts(u, d)
    BY NextKeepsCount
  <2>. HIDE DEF d
  <2>14. CASE f.panic
    BY <1>0, <2>1, <2>2, <2>3, <2>6, <2>9, <2>12, <2>14 DEF CountGood, g
  <2>15. CASE ~f.panic
    <3>1. PICK L : DemandBetween(f, L, u)
      BY <1>0, <1>2, <2>15 DEF DemandGood
    <3>2. DemandBetween(h, L, u)
      BY <2>2, <3>1 DEF DemandBetween, DemandNumbers, SameCounts
    <3>3. FrameCounts(u, h)
      BY <2>2, <2>15 DEF CountGood, FrameCounts, SameCounts
    <3>4. FrameCounts(u, c)
      BY <2>5, <2>8, <2>11, <3>3
    <3>5. FrameCounts(u, d)
      <4>1. CASE c.done
        BY <2>12, <3>4, <4>1
      <4>2. CASE ~c.done
        <5>1. ~a.done /\ ~b.done
          BY <2>8, <2>11, <4>2
        <5>2. PICK M : DemandMid(a, L, M, u)
          BY <1>2, <2>2, <2>4, <2>15, <3>2, <5>1
        <5>3. UnitsPlaced(a, b, L, u)
          BY <2>7, <5>1, <5>2
        <5>4. PICK K : DemandMid(b, L, K, u)
          BY <5>3 DEF UnitsPlaced
        <5>5. DemandMid(c, L, K, u)
          BY <2>10, <5>1, <5>3, <5>4 DEF UnitsPlaced
        <5>. QED
          BY <2>13, <3>4, <4>2, <5>5
      <4>. QED
        BY <4>1, <4>2
    <3>. QED
      BY <1>0, <2>1, <3>5 DEF CountGood, g
  <2>. QED
    BY <2>14, <2>15
<1>. QED
  BY <1>0, <1>1, <1>2 DEF CountGood

\* So does the loop.
LEMMA DemandLoopKeepsCount ==
    ASSUME NEW n \in Nat, NEW frame, NEW u, CountGood(frame, u)
    PROVE  CountGood(Iterate(addDemandStep, frame, n), u)
<1>1. PICK it : LoopFrames("demand", it, frame, n) /\ Iterate(addDemandStep, frame, n) = it[n]
  BY DemandLoopRuns
<1>. DEFINE G == {k \in 0..n : CountGood(it[k], u)}
<1>2. \A k \in 0..n : it[k] = IF k = 0 THEN frame ELSE addDemandStep(it[k - 1])
  BY <1>1 DEF LoopFrames, LoopStep
<1>3. 0 \in G
  BY <1>2
<1>4. ASSUME NEW k \in 0..(n - 1), k \in G PROVE k + 1 \in G
  <2>1. k + 1 \in 0..n /\ k + 1 # 0 /\ (k + 1) - 1 = k /\ CountGood(it[k], u)
    BY <1>4
  <2>2. it[k + 1] = addDemandStep(it[k])
    BY <1>2, <2>1
  <2>3. CountGood(it[k + 1], u)
    BY <2>1, <2>2, DemandStepKeepsCount
  <2>. QED
    BY <2>1, <2>3
<1>5. n \in G
  <2>. HIDE DEF G
  <2>1. 0..n \subseteq G
    BY <1>3, <1>4, UpToInduction
  <2>. QED
    BY <2>1
<1>. QED
  BY <1>1, <1>5

\* Batches that count the same in the partial round make the same sum.
LEMMA CountIsSum ==
    ASSUME NEW u, NEW L, EngineStore(u, L), u.partial.batchNo # 0,
           NEW t, NEW M, EngineStore(t, M), t.partial = u.partial, CountsAs(u, BatchAt(t, u.partial.batchNo))
    PROVE  StoreSum(t) = StoreSum(u)
<1>. DEFINE b == BatchAt(u, u.partial.batchNo)
            c == BatchAt(t, u.partial.batchNo)
<1>1. b.unitPerRound \in Nat /\ c.unitPerRound \in Nat
  <2>1. PartialFacts(u, L, b) /\ PartialFacts(t, M, c)
    BY PartialBatch
  <2>. HIDE DEF b, c
  <2>. QED
    BY <2>1 DEF PartialFacts
<1>2. StoreSum(t) = SumIn(u.partial, c) /\ StoreSum(u) = SumIn(u.partial, b)
  BY DEF StoreSum
<1>3. c.totalUnitsBeforeBatch = b.totalUnitsBeforeBatch /\ (u.partial.roundNo = 0 \/ c.unitPerRound = b.unitPerRound)
  BY DEF CountsAs
<1>. HIDE DEF b, c
<1>4. u.partial.roundNo * c.unitPerRound = u.partial.roundNo * b.unitPerRound
  <2>1. \A x \in Nat : 0 * x = 0
    OBVIOUS
  <2>. QED
    BY <1>1, <1>3, <2>1
<1>. QED
  BY <1>2, <1>3, <1>4 DEF SumIn

\* The first batch counts nothing.
LEMMA FirstCounts ==
    ASSUME NEW s, NEW L, EngineStore(s, L), s.firstOpenBatchNo = 0
    PROVE  StoreSum(FirstBatch(s)) = StoreSum(s)
<1>. DEFINE u == FirstBatch(s)
<1>1. IsStore(s) /\ s.batchCount = 0 /\ NoOthers(s)
  BY DEF EngineStore, FirstOpenPlaced, Linked
<1>2. 0 \notin 1..0 /\ 1 \notin 1..0 /\ 0 \in Nat /\ 1 \in Nat /\ 1..0 = {}
  OBVIOUS
<1>3. s.partial.batchNo = 0
  <2>1. L \subseteq 1..0
    BY <1>1 DEF EngineStore, Linked
  <2>. QED
    BY <1>2, <2>1 DEF EngineStore, PartialPlaced
<1>4. BatchAt(s, 0) = NoBatch /\ BatchAt(s, 1) = NoBatch
  BY <1>1, <1>2 DEF NoOthers
<1>5. DOMAIN s.partial = PartFields
  BY DEF EngineStore, PartialPlaced, IsPart
<1>6. u.batches = s.batches /\ u.partial = [s.partial EXCEPT !.batchNo = 1]
  BY <1>1 DEF FirstBatch, initTimeMark, IsStore, StoreFields
<1>. HIDE DEF u
<1>7. /\ u.partial.batchNo = 1 /\ u.partial.roundNo = s.partial.roundNo
      /\ u.partial.roundCoverage = s.partial.roundCoverage
  BY <1>5, <1>6 DEF PartFields
<1>8. BatchAt(u, 1) = NoBatch
  BY <1>4, <1>6 DEF BatchAt
<1>. QED
  BY <1>3, <1>4, <1>7, <1>8 DEF StoreSum, SumIn, u

(* The rounds of the partial batch are not all full. *)
NotFilled(s) == s.partial.roundNo = 0 \/ s.partial.roundNo < BatchAt(s, s.partial.batchNo).rounds

\* Setting the rounds without coverage apart leaves the count, as the batch behind the full
\* rounds is a new one with the units before it as they are.
LEMMA PartialLeftCounts ==
    ASSUME NEW s, NEW L, EngineStore(s, L), s.partial.batchNo # 0, BatchAt(s, s.partial.batchNo).nextBatchNo # 0,
           PartialRounds(s.partial) > 0, NotFilled(s)
    PROVE  StoreSum(PartialLeft(s)) = StoreSum(s)
<1>. DEFINE p == s.partial.batchNo
            b == BatchAt(s, p)
            R == PartialRounds(s.partial)
            k == s.batchCount + 1
            S == PartialRest(s).s
            B == PartialRest(s).b
            q == B.nextBatchNo
            full == [B EXCEPT !.state = "Full"]
            part == [roundCoverage |-> 0, batchNo |-> q, roundNo |-> 0]
            t == PutBatch(S, p, B)
            v == PutBatch(S, p, full)
            premium == addPartialToTotalPremium(S, p, v.poolPremium, B)
            c == PartialClosed(s)
            u == PartialLeft(s)
<1>1. PartialFacts(s, L, b)
  BY PartialBatch
<1>2. /\ IsStore(s) /\ p \in Nat /\ p \in L /\ IsPart(s.partial) /\ UnitSize \in Nat /\ s.batchCount \in Nat
      /\ L \subseteq 1..s.batchCount
  BY <1>1 DEF PartialFacts, EngineStore, Linked
<1>3. c = IF s.partial.roundCoverage # 0 THEN t
          ELSE [v EXCEPT !.poolPremium = premium, !.partial = part]
  BY DEF PartialClosed, RestStored
<1>4. u = [c EXCEPT !.firstOpenBatchNo = IF c.firstOpenBatchNo = p THEN q ELSE c.firstOpenBatchNo]
  BY DEF PartialLeft
<1>5. PartialRest(s) = splitBatch(s, R, b)
  BY DEF PartialRest
<1>6. b.rounds # R => SplitOff(s, S, k, MovedRounds(b, R, k)) /\ B = KeptRounds(b, R, k)
  <2>. HIDE DEF b, R
  <2>. QED
    BY <1>2, <1>5, SplitEffects
<1>7. b.rounds = R => S = s /\ B = b
  BY <1>5 DEF splitBatch
<1>8. IsStore(S) /\ S.partial = s.partial
  BY <1>2, <1>6, <1>7 DEF SplitOff, SameHeads
<1>9. B.totalUnitsBeforeBatch = b.totalUnitsBeforeBatch /\ B.unitPerRound = b.unitPerRound
  <2>1. IsBatch(b)
    BY <1>1 DEF PartialFacts
  <2>. HIDE DEF b, B, R, k
  <2>. QED
    BY <1>6, <1>7, <2>1 DEF KeptRounds, IsBatch, BatchFields
<1>10. StoreSum(s) = SumIn(s.partial, b)
  BY DEF StoreSum
<1>. HIDE DEF c, u, premium, S, B, full, k
<1>11. /\ IsStore(t) /\ t.partial = s.partial /\ BatchAt(t, p) = B
       /\ IsStore(v) /\ v.partial = s.partial /\ Elsewhere(S, v, p)
  BY <1>2, <1>8, PutBatchStores DEF SameHeads
<1>. HIDE DEF t, v
<1>12. CASE s.partial.roundCoverage # 0
  <2>. HIDE DEF p, q
  <2>1. u.partial = s.partial /\ u.batches = t.batches
    BY <1>3, <1>4, <1>11, <1>12 DEF IsStore, StoreFields
  <2>2. BatchAt(u, u.partial.batchNo) = B
    BY <1>11, <2>1 DEF BatchAt, p
  <2>3. StoreSum(u) = SumIn(s.partial, B)
    BY <2>1, <2>2 DEF StoreSum
  <2>. HIDE DEF b
  <2>. QED
    BY <1>9, <1>10, <2>3 DEF SumIn, u
<1>13. CASE s.partial.roundCoverage = 0
  <2>1. R = s.partial.roundNo /\ R \in Nat /\ R # 0 /\ R < b.rounds
    BY <1>2, <1>13 DEF PartialRounds, NotFilled, IsPart
  <2>2. b.rounds \in Nat
    BY <1>1 DEF PartialFacts
  <2>3. SplitOff(s, S, k, MovedRounds(b, R, k)) /\ B = KeptRounds(b, R, k)
    <3>. HIDE DEF b, R
    <3>. QED
      BY <1>6, <2>1, <2>2
  <2>. DEFINE moved == MovedRounds(b, R, k)
  <2>4. q = k /\ moved.totalUnitsBeforeBatch = b.totalUnitsBeforeBatch + R * b.unitPerRound
    <3>1. IsBatch(b)
      BY <1>1 DEF PartialFacts
    <3>. HIDE DEF b, R
    <3>. QED
      BY <2>3, <3>1 DEF MovedRounds, KeptRounds, IsBatch, BatchFields
  <2>5. k \in Nat /\ k # p
    BY <1>2 DEF k
  <2>6. BatchAt(v, k) = moved
    BY <1>11, <2>3, <2>5 DEF SplitOff, Elsewhere
  <2>. HIDE DEF part, moved, p, q
  <2>7. u.partial = part /\ u.batches = v.batches
    BY <1>3, <1>4, <1>11, <1>13 DEF IsStore, StoreFields
  <2>8. part.roundCoverage = 0 /\ part.batchNo = k /\ part.roundNo = 0
    BY <2>4 DEF part
  <2>9. BatchAt(u, u.partial.batchNo) = moved
    BY <2>6, <2>7, <2>8 DEF BatchAt
  <2>10. StoreSum(u) = UnitSize * (moved.totalUnitsBeforeBatch + 0 * moved.unitPerRound) + 0
    BY <2>7, <2>8, <2>9 DEF StoreSum, SumIn
  <2>11. moved.unitPerRound = b.unitPerRound /\ b.unitPerRound \in Nat /\ b.totalUnitsBeforeBatch \in Nat
    <3>1. IsBatch(b) /\ b.unitPerRound \in Nat /\ b.totalUnitsBeforeBatch \in Nat
      BY <1>1 DEF PartialFacts
    <3>. HIDE DEF b, R
    <3>. QED
      BY <3>1 DEF moved, MovedRounds, IsBatch, BatchFields
  <2>12. StoreSum(s) = UnitSize * (b.totalUnitsBeforeBatch + s.partial.roundNo * b.unitPerRound) + 0
    BY <1>10, <1>13 DEF SumIn
  <2>13. 0 * moved.unitPerRound = 0
    BY <2>11
  <2>. HIDE DEF b, R
  <2>14. moved.totalUnitsBeforeBatch + 0 * moved.unitPerRound = b.totalUnitsBeforeBatch + s.partial.roundNo * b.unitPerRound
    <3>1. s.partial.roundNo * b.unitPerRound \in Nat
      BY <2>1, <2>11
    <3>. QED
      BY <2>1, <2>4, <2>11, <2>13, <3>1
  <2>. QED
    BY <2>10, <2>12, <2>14 DEF u
<1>. QED
  BY <1>12, <1>13

\* So does findBatchToAppend.
LEMMA FindCounts ==
    ASSUME NEW s, NEW L, EngineStore(s, L), NotFilled(s), NEW nextBatchNo,
           NEW r, r = findBatchToAppend(s, nextBatchNo)
    PROVE  StoreSum(r.s) = StoreSum(s)
<1>. DEFINE this == AppendAt(s, nextBatchNo)
<1>1. /\ s.firstOpenBatchNo = 0 => FoundAt(r, FirstBatch(s), 1)
      /\ s.firstOpenBatchNo # 0 /\ ~SplitsPartial(s, this) => FoundAt(r, s, this)
      /\ s.firstOpenBatchNo # 0 /\ SplitsPartial(s, this) =>
            FoundAt(r, PartialLeft(s), PartialRest(s).b.nextBatchNo)
  BY FindCases
<1>2. CASE s.firstOpenBatchNo = 0
  BY <1>1, <1>2, FirstCounts DEF FoundAt
<1>3. CASE s.firstOpenBatchNo # 0 /\ ~SplitsPartial(s, this)
  BY <1>1, <1>3 DEF FoundAt
<1>4. CASE s.firstOpenBatchNo # 0 /\ SplitsPartial(s, this)
  <2>1. r.s = PartialLeft(s)
    BY <1>1, <1>4 DEF FoundAt
  <2>2. s.partial.batchNo = this /\ BatchAt(s, this).nextBatchNo # 0 /\ PartialRounds(s.partial) > 0
    BY <1>4 DEF SplitsPartial
  <2>. HIDE DEF this
  <2>3. s.partial.batchNo # 0
    <3>1. s.batchCount \in Nat /\ L \subseteq 1..s.batchCount
      BY DEF EngineStore, Linked
    <3>2. s.firstOpenBatchNo \in L
      BY <1>4 DEF EngineStore, FirstOpenPlaced
    <3>3. s.firstOpenBatchNo \in 1..s.batchCount
      BY <3>1, <3>2
    <3>4. s.batchCount > 0
      BY <3>1, <3>3
    <3>. QED
      BY <3>4 DEF EngineStore, PartialPlaced
  <2>. QED
    BY <2>1, <2>2, <2>3, PartialLeftCounts
<1>. QED
  BY <1>2, <1>3, <1>4

\* What is stored after the loop leaves the batches and the partial round to the frame.
LEMMA DemandAddedKeeps ==
    ASSUME NEW f, NEW L, NEW s0, DemandFinished(f, L, s0), NEW more, NEW r, r = demandAdded(f, more)
    PROVE  r.s.batches = FrameStored(f).batches /\ r.s.partial = FrameStored(f).partial
<1>. DEFINE t == FrameStored(f)
            old == f.s.insureds[f.insured].nextBatchNo
            enough == more \/ internalIsEnoughForMore(f.entry.demandedUnits, MinUnits[f.insured], f.unitCount)
            pull == IF enough THEN f.batchNo ELSE 0
            pulled == setPullBatch(t, f.insured, old, pull)
            rounds == f.openRounds + f.partialRounds
            log == PushDemand(f.log, f.demand)
            isFirst == f.isFirstOfOpen
            u == [pulled EXCEPT !.openRounds = rounds, !.insureds[f.insured] = f.entry, !.demands[f.insured] = log,
                                !.firstOpenBatchNo = IF isFirst THEN f.batchNo ELSE @]
<1>1. r = [s |-> u, remaining |-> f.unitCount, panic |-> f.panic]
  BY DEF demandAdded, FrameStored, FramePut
<1>. HIDE DEF enough
<1>2. r.s = u
  BY <1>1
<1>3. IsStore(t)
  BY AppendableFacts DEF DemandFinished
<1>. HIDE DEF t, old, pull, rounds, log, isFirst
<1>4. OnlyPullable(t, pulled)
  BY <1>3, PullBatchSet
<1>. HIDE DEF pulled
<1>5. IsStore(pulled) /\ pulled.batches = t.batches /\ pulled.partial = t.partial
  BY <1>3, <1>4 DEF OnlyPullable, IsStore, StoreFields
<1>6. u.batches = t.batches /\ u.partial = t.partial
  BY <1>5 DEF IsStore, StoreFields
<1>. QED
  BY <1>2, <1>6 DEF t

\* The call leaves what the rounds up to the partial one count.
LEMMA AddDemandCounts ==
    ASSUME NEW s, NEW L, EngineStore(s, L), NotFilled(s), NEW insured \in Insureds, NEW unitCount \in Nat,
           NEW rate \in Nat, NEW more, NEW limit \in Nat,
           NEW r, r = internalAddCoverageDemand(s, insured, unitCount, rate, more, limit), ~r.panic
    PROVE  \E M : EngineStore(r.s, M) /\ StoreSum(r.s) = StoreSum(s)
<1>. DEFINE n == s.insureds[insured].nextBatchNo
            found == findBatchToAppend(s, n)
            w == found.s
            frame == demandFrame(found, insured, unitCount, rate, limit)
            f == Iterate(addDemandStep, frame, limit)
<1>1. r = demandAdded(f, more)
  BY DEF internalAddCoverageDemand
<1>2. n \in L \cup {0}
  BY DEF EngineStore, InsuredsIn
<1>3. DemandGood(frame, s)
  <2>. HIDE DEF found
  <2>1. found = findBatchToAppend(s, s.insureds[insured].nextBatchNo)
    BY DEF found
  <2>. QED
    BY <2>1, DemandEntered
<1>4. PICK M : Appendable(w, M, found.batchNo) /\ FoundAt(found, w, found.batchNo)
  <2>. HIDE DEF n
  <2>. QED
    BY <1>2, FindKeeps
<1>5. StoreSum(w) = StoreSum(s)
  <2>. HIDE DEF n
  <2>. QED
    BY FindCounts
<1>6. IsDemandFrame(frame) /\ frame.s = w /\ frame.b = found.b /\ frame.batchNo = found.batchNo /\ ~frame.done
  <2>. HIDE DEF found
  <2>. QED
    BY <1>3 DEF DemandGood, demandFrame
<1>. HIDE DEF found, n, w, frame
<1>7. /\ EngineStore(w, M) /\ IsStore(w) /\ Untouched(w, found.batchNo) /\ IsBatch(BatchAt(w, found.batchNo))
      /\ w.partial.batchNo \in M /\ w.partial.batchNo \in Nat /\ w.partial.batchNo # 0
      /\ w.batchCount \in Nat /\ M \subseteq 1..w.batchCount
  <2>1. Linked(w, M) /\ w.partial.batchNo \in M
    BY <1>4, AppendableFacts
  <2>2. w.partial.batchNo # 0
    BY <2>1, LinksAreNumbers
  <2>. QED
    BY <1>4, <2>1, <2>2, AppendableFacts DEF Appendable, Linked
<1>8. CountGood(frame, w)
  <2>1. Frozen(w, frame.s)
    BY <1>6 DEF Frozen
  <2>2. DemandGood(frame, w)
    BY <1>3, <1>6, <2>1 DEF DemandGood, DemandBetween
  <2>3. CountKept(w, frame.s)
    BY <1>6, <1>7 DEF CountKept, CountsAs
  <2>4. HandCounts(w, frame.batchNo, frame.b)
    <3>1. frame.b = BatchAt(w, frame.batchNo)
      BY <1>4, <1>6 DEF FoundAt
    <3>2. "totalUnitsBeforeBatch" \in DOMAIN frame.b
      BY <1>6, <1>7, <3>1 DEF IsBatch, BatchFields
    <3>. QED
      BY <1>6, <1>7, <3>1, <3>2 DEF HandCounts, Untouched
  <2>. QED
    BY <1>6, <2>2, <2>3, <2>4 DEF CountGood, FrameCounts
<1>9. CountGood(f, w)
  BY <1>8, DemandLoopKeepsCount
<1>. HIDE DEF f
<1>10. ~f.panic
  BY <1>1 DEF demandAdded
<1>11. PICK K : DemandFinished(f, K, w)
  <2>1. PICK K : IF f.done THEN DemandFinished(f, K, w) ELSE DemandBetween(f, K, w)
    BY <1>9, <1>10 DEF CountGood, DemandGood
  <2>2. ~f.done => DemandBetween(f, K, w)
    BY <2>1
  <2>3. DemandFinished(f, K, w)
    BY <2>1, <2>2, BetweenIsFinished
  <2>. QED
    BY <2>3
<1>12. FrameCounts(w, f)
  BY <1>9, <1>10 DEF CountGood
<1>13. EngineStore(r.s, K)
  BY <1>1, <1>11, DemandStored
<1>. DEFINE t == FrameStored(f)
<1>14. CountKept(w, t)
  <2>1. f.batchNo \in Nat
    BY <1>11, AppendableFacts DEF DemandFinished
  <2>2. CountKept(w, f.s) /\ CountKept(w, FramePut(f))
    BY <1>12, <2>1, CountPut DEF FrameCounts
  <2>. QED
    BY <2>2 DEF FrameStored
<1>15. r.s.batches = t.batches /\ r.s.partial = t.partial
  BY <1>1, <1>11, DemandAddedKeeps
<1>. HIDE DEF t
<1>16. CountsAs(w, BatchAt(r.s, w.partial.batchNo)) /\ r.s.partial = w.partial
  BY <1>14, <1>15 DEF CountKept, BatchAt
<1>17. StoreSum(r.s) = StoreSum(w)
  BY <1>7, <1>13, <1>16, CountIsSum
<1>. QED
  BY <1>5, <1>13, <1>17

ConservedInv == RoundsInv /\ CoverageConserved

\* Nothing is counted before the first call.
LEMMA ConservedInit == Init => ConservedInv
<1> SUFFICES ASSUME Init PROVE CoverageConserved
  BY RoundsInit DEF ConservedInv
<1>1. PICK L : EngineStore(Storage, L)
  BY RoundsInit DEF RoundsInv
<1>2. /\ Storage.batches = <<>> /\ Storage.partial = [roundCoverage |-> 0, batchNo |-> 0, roundNo |-> 0]
      /\ allocated = 0
  BY DEF Init, Storage
<1>3. CoverageCounted = StoreSum(Storage)
  BY <1>1, CountedIsStored, CoverageIsCounted
<1>4. StoreSum(Storage) = UnitSize * (0 + 0 * 0) + 0
  <2>1. BatchAt(Storage, 0) = NoBatch
    BY <1>2 DEF BatchAt
  <2>. QED
    BY <1>2, <2>1 DEF StoreSum, SumIn, NoBatch
<1>5. UnitSize * (0 + 0 * 0) + 0 = 0
  BY RoundsAssumption
<1>. QED
  BY <1>2, <1>3, <1>4, <1>5 DEF CoverageConserved

\* Every step of ClosedAllocation leaves the count, or adds to it what it takes.
LEMMA ConservedKept == ConservedInv /\ [ClosedAllocation]_vars => ConservedInv'
<1> SUFFICES ASSUME ConservedInv, [ClosedAllocation]_vars PROVE ConservedInv'
  OBVIOUS
<1>1. RoundsInv'
  BY AllocationKept DEF ConservedInv, StepKept, ClosedAllocation, Allocation
<1>2. PICK L : EngineStore(Storage, L)
  BY DEF ConservedInv, RoundsInv
<1>3. CoverageCounted = StoreSum(Storage) /\ StoreSum(Storage) \in Int
  BY <1>2, CountedIsStored, CoverageIsCounted
<1>4. allocated = CoverageCounted
  BY DEF ConservedInv, CoverageConserved
<1>5. ASSUME NEW t, NEW M, EngineStore(t, M), SameEngine(t, Storage'), StoreSum(t) = StoreSum(Storage),
             allocated' = allocated
      PROVE  CoverageConserved'
  <2>1. EngineStore(Storage', M) /\ StoreSum(Storage') = StoreSum(t)
    BY <1>5, SameEngineKeeps
  <2>2. CountedIn(Storage') = StoreSum(Storage')
    BY <2>1, CountedIsStored
  <2>3. CoverageCounted' = StoreSum(Storage')
    BY <2>2, CoverageIsCounted
  <2>. QED
    BY <1>3, <1>4, <1>5, <2>1, <2>3 DEF CoverageConserved
<1>6. ASSUME FilledIsClosed, NEW insured \in Insureds, addCoverageDemand(insured) PROVE CoverageConserved'
  <2>1. PICK units \in UnitCounts, rate \in Rates, more \in HasMore, limit \in LoopLimits :
           \E r \in {internalAddCoverageDemand(Storage, insured, units, rate, more, limit)} :
              ~r.panic /\ Commit(r.s) /\ UNCHANGED <<now, allocated>>
    BY <1>6 DEF addCoverageDemand
  <2>. DEFINE s == Storage
              r == internalAddCoverageDemand(s, insured, units, rate, more, limit)
  <2>2. ~r.panic /\ Commit(r.s) /\ allocated' = allocated
    BY <2>1
  <2>3. units \in Nat /\ rate \in Nat /\ limit \in Nat
    BY RoundsAssumption
  <2>4. EngineStore(s, L) /\ NotFilled(s)
    BY <1>2, <1>6 DEF NotFilled, FilledIsClosed, Storage
  <2>. HIDE DEF s
  <2>5. PICK M : EngineStore(r.s, M) /\ StoreSum(r.s) = StoreSum(s)
    <3>. HIDE DEF r
    <3>1. r = internalAddCoverageDemand(s, insured, units, rate, more, limit)
      BY DEF r
    <3>. QED
      BY <2>2, <2>3, <2>4, <3>1, AddDemandCounts
  <2>. HIDE DEF r
  <2>6. SameEngine(r.s, Storage')
    BY <2>2, Committed
  <2>. QED
    BY <1>5, <2>2, <2>5, <2>6 DEF s
<1>7. ASSUME addCoverage PROVE CoverageConserved'
  <2>1. RoundsInv
    BY DEF ConservedInv
  <2>2. allocated' - allocated = CoverageCounted' - CoverageCounted
    BY <1>7, <2>1, CoverageKeptByCall
  <2>3. PICK M : EngineStore(Storage', M)
    BY <1>1 DEF RoundsInv
  <2>4. CountedIn(Storage') = StoreSum(Storage') /\ StoreSum(Storage') \in Int
    BY <2>3, CountedIsStored
  <2>5. CoverageCounted' \in Int /\ allocated' \in Int /\ CoverageCounted \in Int
    BY <1>1, <1>3, <2>4, CoverageIsCounted DEF RoundsInv
  <2>. QED
    BY <1>4, <2>2, <2>5 DEF CoverageConserved
<1>8. ASSUME pullDemandCandidate PROVE CoverageConserved'
  <2>1. PICK limit \in LoopLimits, peek \in BOOLEAN :
           Commit(internalPullDemandCandidate(Storage, limit, peek).s) /\ UNCHANGED <<now, allocated>>
    BY <1>8 DEF pullDemandCandidate
  <2>. DEFINE t == internalPullDemandCandidate(Storage, limit, peek).s
  <2>2. OnlyPullable(Storage, t)
    BY RoundsAssumption, StorageIsStore, PullKeeps
  <2>3. Commit(t) /\ allocated' = allocated
    BY <2>1
  <2>. HIDE DEF t
  <2>4. SameEngine(Storage, t)
    BY <2>2 DEF OnlyPullable, SameEngine, StoreFields
  <2>5. EngineStore(t, L) /\ StoreSum(t) = StoreSum(Storage)
    BY <1>2, <2>4, SameEngineKeeps
  <2>. QED
    BY <1>5, <2>3, <2>5, Committed
<1>9. ASSUME (\E i \in Insureds : receiveDemandedCoverage(i)) \/ Tick \/ UNCHANGED vars PROVE CoverageConserved'
  <2>1. UNCHANGED <<insureds, batches, batchCount, firstOpenBatchNo, openRounds, partial,
                    pendingCancelledCoverageUnits, allocated>>
    BY <1>9 DEF receiveDemandedCoverage, Tick, vars, storageVars
  <2>2. SameEngine(Storage, Storage') /\ allocated' = allocated
    BY <2>1 DEF SameEngine, Storage, IsStore, StoreFields
  <2>. QED
    BY <1>2, <1>5, <2>2
<1>10. CoverageConserved'
  BY <1>6, <1>7, <1>8, <1>9 DEF ClosedAllocation
<1>. QED
  BY <1>1, <1>10 DEF ConservedInv

\* While nothing is cancelled, and demand comes only when a filled batch has been closed,
\* the coverage that investors put in is at all times what the rounds count.
THEOREM CoverageIsConserved == ClosedSpec => []CoverageConserved
<1>1. ConservedInv => CoverageConserved
  BY DEF ConservedInv
<1>. QED
  BY <1>1, ConservedInit, ConservedKept, PTL DEF ClosedSpec
=============================================================================
