----------------------------- MODULE TaskProofs -----------------------------
(***************************************************************************)
(* Proofs about the two tasks that look at a deployment afterwards.        *)
(*                                                                         *)
(* The verification of contracts, for any number of workers, any files and *)
(* any bounds of the retries and faults.                                   *)
(*                                                                         *)
(* The access test, for every file of contracts, catalog of exceptions and *)
(* answers: a deployment that passes is closed to strangers and was looked *)
(* at as a whole; one that is proper fails only when a call was lost.      *)
(***************************************************************************)
EXTENDS VerifyAllProperties, AccessCheck, FoldLemmas, TLAPS

-----------------------------------------------------------------------------
(* The verification of contracts.                                          *)

Contracts == DOMAIN ImplOf

Notes == UNION {[S -> {TRUE}] : S \in SUBSET Contracts}

Processes ==
    [phase : Phases, i : Nat \ {0}, hasFirst : BOOLEAN, full : BOOLEAN, tries : Nat,
     outcome : Outcomes, copy : Notes, summary : SUBSET Contracts]

Explorers == [sources : SUBSET Contracts, links : SUBSET Contracts]

-----------------------------------------------------------------------------
(* The inductive invariant.  Its parts name the explorer e and the process *)
(* p of a worker they speak of, as the first only learns.                  *)

Learns(e, f) == e.sources \subseteq f.sources /\ e.links \subseteq f.links

AcceptedBy(e, a) == a \in IF IsProxy(a) THEN e.links ELSE e.sources

\* What may be noted.
Good(e, a) == AcceptedBy(e, a) /\ (IsProxy(a) => IsTrue(a))

NotesGood(e, notes) == \A a \in DOMAIN notes : notes[a] = TRUE /\ Good(e, a)

Resting == {"off", "pick", "ended"}

\* The contract that is being verified.
At(w, p) == List(w)[p.i]

PlaceInv(e, w, p) ==
    /\ p.i \in 1..(Len(List(w)) + 1)
    /\ p.phase \notin Resting => p.i <= Len(List(w))
    /\ p.phase \in {"submit", "poll", "getForm", "verifyForm", "saveForm"} => IsProxy(At(w, p))
    /\ p.phase = "saveForm" => IsTrue(At(w, p))
    /\ p.outcome = "ok" => Good(e, At(w, p))
    /\ p.phase = "write" => p.outcome = "ok" /\ NotesGood(e, p.copy)

\* How many contracts of the list are behind a process.
Behind(w, p) == IF p.phase = "ended" THEN Len(List(w)) ELSE p.i - 1

ReportInv(e, w, p) ==
    \A j \in 1..Behind(w, p) : List(w)[j] \in p.summary \/ AcceptedBy(e, List(w)[j])

CountInv(w, p) ==
    /\ p.outcome # "none" <=> p.phase \in {"settle", "write"}
    /\ p.tries \in 0..(IF p.phase = "poll" THEN MaxPolls ELSE MaxTries - 1)
    /\ p.summary \subseteq ToSet(List(w))

WorkerInv(e, w, p) ==
    p \in Processes /\ PlaceInv(e, w, p) /\ ReportInv(e, w, p) /\ CountInv(w, p)

IInv ==
    /\ explorer \in Explorers /\ trouble \in 0..MaxTrouble
    /\ "verified" \in DOMAIN db
    /\ db.verified \in Notes /\ NotesGood(explorer, db.verified)
    /\ worker = [w \in Workers |-> worker[w]]
    /\ \A w \in Workers : WorkerInv(explorer, w, worker[w])

-----------------------------------------------------------------------------
LEMMA Bounds == MaxPolls \in Nat /\ MaxTries \in Nat \ {0} /\ MaxTrouble \in Nat
BY VerifyAssumption

USE Bounds

-----------------------------------------------------------------------------
(* The first proxy of the file.  No worker is in the mode min, or nothing  *)
(* is claimed.                                                             *)

IsFirst(a) ==
    /\ \A w \in Workers : Args[w].proxy # "min"
    /\ FirstProxy # 0 /\ a = Order[FirstProxy]

HasSource(e, a) == IsFirst(a) => a \in e.sources

\* A proxy is among the first n contracts of the list.
ProxyAmong(w, n) == \E j \in 1..n : IsProxy(List(w)[j])

\* The mode auto is used up by a proxy of the list, and a first proxy that is past
\* its own verification had the explorer take its source.
SourceInv(e, w, p) ==
    /\ p.hasFirst => ProxyAmong(w, IF p.phase \in Resting THEN p.i - 1 ELSE p.i)
    /\ p.phase \notin Resting \cup {"source"} /\ p.outcome # "failed" => HasSource(e, At(w, p))
    /\ p.phase = "write" => \A a \in DOMAIN p.copy : HasSource(e, a)

SInv ==
    /\ \A a \in DOMAIN db.verified : HasSource(explorer, a)
    /\ \A w \in Workers : SourceInv(explorer, w, worker[w])

-----------------------------------------------------------------------------
(* The list of a worker, which addEntry makes of the file.                 *)

Accs == [batchIndex : Nat, list : Seq(Contracts)]

\* The loop over the entries.
Adds(args, acc, entries) ==
    FoldLeft(LAMBDA b, a : AddEntry(args, b, a), acc, entries)

\* A contract of the list, if it is the first proxy of the file, has no proxy before it.
FirstComesFirst(list) ==
    \A i \in 1..Len(list) : IsFirst(list[i]) => \A j \in 1..(i - 1) : ~IsProxy(list[j])

LEMMA AddKeeps ==
    ASSUME NEW args, NEW acc \in Accs, NEW a \in Contracts
    PROVE  /\ AddEntry(args, acc, a) \in Accs
           /\ \A j \in 1..Len(AddEntry(args, acc, a).list) :
                 \/ AddEntry(args, acc, a).list[j] = a
                 \/ j \in 1..Len(acc.list) /\ AddEntry(args, acc, a).list[j] = acc.list[j]
           /\ FirstComesFirst(acc.list) /\ (IsFirst(a) => \A j \in 1..Len(acc.list) : ~IsProxy(acc.list[j]))
                 => FirstComesFirst(AddEntry(args, acc, a).list)
<1> DEFINE new == AddEntry(args, acc, a)
<1>1. acc.batchIndex \in Nat /\ acc.list \in Seq(Contracts)
  BY DEF Accs
<1>2. CASE new = acc
  BY <1>1, <1>2
<1>3. CASE new = [batchIndex |-> acc.batchIndex + 1, list |-> Append(acc.list, a)]
  <2>1. new.list = Append(acc.list, a) /\ new \in Accs
    BY <1>1, <1>3 DEF Accs
  <2>2. Len(acc.list) \in Nat /\ Len(new.list) = Len(acc.list) + 1
    BY <1>1, <2>1
  <2>3. \A j \in 1..Len(acc.list) : new.list[j] = acc.list[j]
    BY <1>1, <2>1
  <2>4. new.list[Len(acc.list) + 1] = a
    BY <1>1, <2>1
  <2> HIDE DEF new
  <2>5. ASSUME FirstComesFirst(acc.list), IsFirst(a) => \A j \in 1..Len(acc.list) : ~IsProxy(acc.list[j]),
               NEW i \in 1..Len(new.list), IsFirst(new.list[i]), NEW j \in 1..(i - 1)
        PROVE  ~IsProxy(new.list[j])
    <3>1. CASE i = Len(acc.list) + 1
      BY <2>2, <2>3, <2>4, <2>5, <3>1
    <3>2. CASE i \in 1..Len(acc.list)
      <4>1. IsFirst(acc.list[i]) /\ j \in 1..Len(acc.list)
        BY <2>2, <2>3, <2>5, <3>2
      <4> QED
        BY <2>3, <2>5, <3>2, <4>1 DEF FirstComesFirst
    <3> QED
      BY <2>2, <2>5, <3>1, <3>2
  <2>6. \A j \in 1..Len(new.list) :
           new.list[j] = a \/ (j \in 1..Len(acc.list) /\ new.list[j] = acc.list[j])
    BY <2>2, <2>3, <2>4
  <2>7. FirstComesFirst(acc.list) /\ (IsFirst(a) => \A j \in 1..Len(acc.list) : ~IsProxy(acc.list[j]))
           => FirstComesFirst(new.list)
    BY <2>5 DEF FirstComesFirst
  <2> QED
    BY ONLY <2>1, <2>6, <2>7 DEF new
<1>4. new = acc \/ new = [batchIndex |-> acc.batchIndex + 1, list |-> Append(acc.list, a)]
  BY DEF AddEntry
<1> QED
  BY <1>2, <1>3, <1>4

\* What the loop has after each of its steps.
AddedBy(it, args, acc, entries) ==
    /\ it \in [0..Len(entries) -> Accs]
    /\ it[0] = acc /\ it[Len(entries)] = Adds(args, acc, entries)
    /\ \A k \in 1..Len(entries) : it[k] = AddEntry(args, it[k - 1], entries[k])

LEMMA AddsByStep ==
    ASSUME NEW args, NEW acc \in Accs, NEW entries \in Seq(Contracts)
    PROVE  \E it : AddedBy(it, args, acc, entries)
<1> DEFINE n == Len(entries)
           step == [p \in (1..n) \X Accs |-> AddEntry(args, p[2], entries[p[1]])]
           Def(it) == it = [T \in SUBSET (1..n) |-> IF T = {} THEN acc
                                                    ELSE AddEntry(args, it[T \ {Max(T)}], entries[Max(T)])]
           loop == CHOOSE it : Def(it)
<1>1. n \in Nat /\ DOMAIN entries = 1..n /\ \A k \in 1..n : entries[k] \in Contracts
  OBVIOUS
<1>2. step \in [(1..n) \X Accs -> Accs]
  BY <1>1, AddKeeps
<1>3. ASSUME NEW T \in SUBSET (1..n), T # {} PROVE Max(T) \in 1..n
  BY <1>1, <1>3, MaxIsIn
<1>4. PICK it : LoopBy(it, n, Accs, acc, step)
  <2> HIDE DEF step
  <2> QED
    BY <1>1, <1>2, LoopIsDefined
<1>5. Def(it)
  <2>1. it \in [SUBSET (1..n) -> Accs]
    BY <1>4 DEF LoopBy
  <2>2. ASSUME NEW T \in SUBSET (1..n), T # {}
        PROVE  it[T] = AddEntry(args, it[T \ {Max(T)}], entries[Max(T)])
    <3>1. it[T] = step[<<Max(T), it[T \ {Max(T)}]>>]
      BY <1>4, <2>2 DEF LoopBy
    <3>2. Max(T) \in 1..n /\ it[T \ {Max(T)}] \in Accs
      BY <1>3, <2>1, <2>2
    <3> QED
      BY <3>1, <3>2
  <2>3. it[{}] = acc
    BY <1>4 DEF LoopBy
  <2> HIDE DEF step
  <2> QED
    BY <2>1, <2>2, <2>3
<1>6. Def(loop)
  BY <1>5
<1>7. Adds(args, acc, entries) = loop[1..n]
  BY <1>1 DEF Adds, FoldLeft, MapThenFoldSet
<1> HIDE DEF loop
<1>8. ASSUME NEW T \in SUBSET (1..n), T # {}, loop[T \ {Max(T)}] \in Accs
      PROVE  loop[T] = step[<<Max(T), loop[T \ {Max(T)}]>>]
  <2>1. loop[T] = AddEntry(args, loop[T \ {Max(T)}], entries[Max(T)])
    BY <1>6, <1>8
  <2> QED
    BY <1>3, <1>8, <2>1
<1>9. Loops(loop, n, Accs, acc, step)
  <2>1. loop[{}] = acc
    BY <1>6
  <2> HIDE DEF step
  <2> QED
    BY <1>8, <2>1 DEF Loops
<1>10. PICK st : StepsOf(st, n, Accs, acc, step, loop[1..n])
  <2> HIDE DEF step
  <2> QED
    BY <1>1, <1>2, <1>9, LoopSteps
<1>11. ASSUME NEW k \in 1..n PROVE st[k] = AddEntry(args, st[k - 1], entries[k])
  <2>1. k - 1 \in 0..n
    BY <1>1
  <2>2. st[k - 1] \in Accs /\ st[k] = step[<<k, st[k - 1]>>]
    BY <1>10, <2>1 DEF StepsOf
  <2> QED
    BY <2>2
<1>12. st \in [0..n -> Accs] /\ st[0] = acc /\ st[n] = loop[1..n]
  BY <1>10 DEF StepsOf
<1> HIDE DEF step
<1> QED
  BY <1>7, <1>11, <1>12 DEF AddedBy

\* The loop keeps the order of the entries.
LEMMA AddsKeep ==
    ASSUME NEW args, NEW acc \in Accs, NEW entries \in Seq(Contracts), FirstComesFirst(acc.list),
           \A k \in 1..Len(entries) : IsFirst(entries[k]) =>
              /\ \A j \in 1..Len(acc.list) : ~IsProxy(acc.list[j])
              /\ \A m \in 1..(k - 1) : ~IsProxy(entries[m])
    PROVE  Adds(args, acc, entries) \in Accs /\ FirstComesFirst(Adds(args, acc, entries).list)
<1> DEFINE n == Len(entries)
           From(b, k) == \A j \in 1..Len(b.list) :
                            \/ \E m \in 1..k : b.list[j] = entries[m]
                            \/ \E m \in 1..Len(acc.list) : b.list[j] = acc.list[m]
<1>1. PICK it : AddedBy(it, args, acc, entries)
  BY AddsByStep
<1> DEFINE G == {k \in 0..n : From(it[k], k) /\ FirstComesFirst(it[k].list)}
<1>2. n \in Nat /\ \A k \in 1..n : entries[k] \in Contracts
  OBVIOUS
<1>3. 0 \in G
  BY <1>1, <1>2 DEF AddedBy
<1>4. ASSUME NEW k \in 0..(n - 1), k \in G PROVE k + 1 \in G
  <2> DEFINE a == entries[k + 1]
             b == it[k]
             c == it[k + 1]
  <2>1. /\ k + 1 \in 1..n /\ (k + 1) - 1 = k /\ a \in Contracts /\ b \in Accs
        /\ From(b, k) /\ FirstComesFirst(b.list)
    BY <1>1, <1>2, <1>4 DEF AddedBy
  <2>2. c = AddEntry(args, b, a)
    BY <1>1, <2>1 DEF AddedBy
  <2>3. \A j \in 1..Len(c.list) : c.list[j] = a \/ (j \in 1..Len(b.list) /\ c.list[j] = b.list[j])
    BY <2>1, <2>2, AddKeeps
  <2>4. From(c, k + 1)
    <3> SUFFICES ASSUME NEW j \in 1..Len(c.list)
                 PROVE  \/ \E m \in 1..(k + 1) : c.list[j] = entries[m]
                        \/ \E m \in 1..Len(acc.list) : c.list[j] = acc.list[m]
      OBVIOUS
    <3>1. CASE c.list[j] = a
      BY <2>1, <3>1
    <3>2. CASE j \in 1..Len(b.list) /\ c.list[j] = b.list[j]
      <4>1. \A m \in 1..k : m \in 1..(k + 1)
        BY <2>1
      <4> HIDE DEF a, b, c
      <4> QED
        BY <2>1, <3>2, <4>1
    <3> QED
      BY <2>3, <3>1, <3>2
  <2>5. IsFirst(a) => \A j \in 1..Len(b.list) : ~IsProxy(b.list[j])
    <3>1. IsFirst(a) => /\ \A j \in 1..Len(acc.list) : ~IsProxy(acc.list[j])
                        /\ \A m \in 1..k : ~IsProxy(entries[m])
      BY <2>1
    <3> HIDE DEF a, b
    <3> QED
      BY <2>1, <3>1
  <2>6. FirstComesFirst(c.list)
    BY <2>1, <2>2, <2>5, AddKeeps
  <2> HIDE DEF From, a, b
  <2> QED
    BY <2>1, <2>4, <2>6
<1>5. n \in G
  <2> HIDE DEF G
  <2>1. 0..n \subseteq G
    BY <1>2, <1>3, <1>4, UpToInduction
  <2> QED
    BY <1>2, <2>1
<1> QED
  BY <1>1, <1>2, <1>5 DEF AddedBy

Others(args) == {a \in args.addrs : a \notin Listed}

\* The contracts that the file does not list.
LEMMA OthersType ==
    ASSUME NEW args, args.addrs \subseteq Contracts, IsFiniteSet(args.addrs)
    PROVE  /\ SetToSeq(Others(args)) \in Seq(Contracts)
           /\ \A k \in 1..Len(SetToSeq(Others(args))) : SetToSeq(Others(args))[k] \notin Listed
<1> DEFINE S == Others(args)
           n == Cardinality(S)
<1>1. S \subseteq Contracts /\ S \cap Listed = {}
  BY DEF Others
<1>2. IsFiniteSet(S)
  <2>1. S \subseteq args.addrs
    BY DEF Others
  <2> HIDE DEF S
  <2> QED
    BY <2>1, FS_Subset
<1>3. n \in Nat /\ ExistsBijection(1..n, S)
  BY <1>2, FS_CardinalityType
<1> HIDE DEF S
<1>4. \E f \in [1..n -> S] : IsInjective(f)
  BY <1>3 DEF ExistsBijection, Bijection, Injection, IsInjective
<1>5. SetToSeq(S) \in [1..n -> S]
  BY <1>4 DEF SetToSeq
<1> HIDE DEF n
<1>6. SetToSeq(S) \in Seq(S) /\ Len(SetToSeq(S)) = n
  BY <1>3, <1>5
<1> QED
  BY <1>1, <1>5, <1>6 DEF S

\* The first proxy of the file is in it, and behind contracts that are none.
LEMMA FirstInFile ==
    /\ Order \in Seq(Contracts) /\ Len(Order) \in Nat
    /\ \A k \in 1..Len(Order) : IsFirst(Order[k]) => \A m \in 1..(k - 1) : ~IsProxy(Order[m])
    /\ \A a : IsFirst(a) => a \in Listed /\ IsProxy(a)
<1> DEFINE I == {i \in 1..Len(Order) : IsProxy(Order[i])}
<1>1. /\ Order \in Seq(Contracts) /\ Len(Order) \in Nat /\ DOMAIN Order = 1..Len(Order)
      /\ \A i, j \in DOMAIN Order : Order[i] = Order[j] => i = j
  BY VerifyAssumption DEF Contracts
<1>2. FirstProxy = IF I # {} THEN Min(I) ELSE 0
  BY DEF FirstProxy, SelectInSeq
<1>3. FirstProxy # 0 => FirstProxy \in I /\ \A i \in I : FirstProxy <= i
  <2> SUFFICES ASSUME I # {} PROVE Min(I) \in I /\ \A i \in I : Min(I) <= i
    BY <1>2
  <2>1. I \in SUBSET (1..Len(Order))
    OBVIOUS
  <2> HIDE DEF I
  <2> QED
    BY <1>1, <2>1, MinIsIn
<1>4. ASSUME NEW k \in 1..Len(Order), IsFirst(Order[k]), NEW m \in 1..(k - 1)
      PROVE  ~IsProxy(Order[m])
  <2>1. FirstProxy \in 1..Len(Order) /\ Order[k] = Order[FirstProxy] /\ \A i \in I : FirstProxy <= i
    BY <1>3, <1>4 DEF IsFirst
  <2>2. k = FirstProxy
    BY <1>1, <2>1
  <2> QED
    BY <1>1, <2>1, <2>2
<1>5. \A a : IsFirst(a) => a \in Listed /\ IsProxy(a)
  BY <1>1, <1>3 DEF IsFirst, Listed, ToSet
<1> QED
  BY <1>1, <1>4, <1>5

\* The list of a worker, and the first proxy in it.
LEMMA ListFacts ==
    ASSUME NEW w \in Workers
    PROVE  List(w) \in Seq(Contracts) /\ FirstComesFirst(List(w))
<1> DEFINE args == Args[w]
           none == [batchIndex |-> 0, list |-> <<>>]
           fromFile == Adds(args, none, Order)
           others == SetToSeq(Others(args))
<1>1. args.addrs \subseteq Contracts /\ IsFiniteSet(args.addrs)
  BY VerifyAssumption DEF Contracts
<1>2. List(w) = Adds(args, fromFile, others).list
  BY DEF List, ListOf, Adds, Others
<1>3. none \in Accs /\ Len(none.list) = 0 /\ FirstComesFirst(none.list)
  BY DEF Accs, FirstComesFirst
<1>4. fromFile \in Accs /\ FirstComesFirst(fromFile.list)
  <2> HIDE DEF none
  <2> QED
    BY <1>3, FirstInFile, AddsKeep
<1>5. others \in Seq(Contracts) /\ \A k \in 1..Len(others) : ~IsFirst(others[k])
  BY <1>1, OthersType, FirstInFile
<1> HIDE DEF fromFile, others, args
<1>6. Adds(args, fromFile, others) \in Accs /\ FirstComesFirst(Adds(args, fromFile, others).list)
  BY <1>4, <1>5, AddsKeep
<1> QED
  BY <1>2, <1>6 DEF Accs

LEMMA ListType ==
    ASSUME NEW w \in Workers
    PROVE  /\ List(w) \in Seq(Contracts) /\ Len(List(w)) \in Nat
           /\ \A j \in 1..Len(List(w)) : List(w)[j] \in Contracts
           /\ \A j \in 1..Len(List(w)) : List(w)[j] \in ToSet(List(w))
<1>1. List(w) \in Seq(Contracts)
  BY ListFacts
<1> QED
  BY <1>1 DEF ToSet

-----------------------------------------------------------------------------
LEMMA NoNotes == <<>> \in Notes /\ \A e : NotesGood(e, <<>>)
<1>1. <<>> \in [{} -> {TRUE}]
  OBVIOUS
<1>2. DOMAIN <<>> = {}
  OBVIOUS
<1> QED
  BY <1>1, <1>2 DEF Notes, NotesGood

\* A process at rest, before the first contract or behind the last one.
LEMMA EndedInv ==
    ASSUME NEW e, NEW w \in Workers, NEW phase \in {"off", "pick"}
    PROVE  WorkerInv(e, w, Ended(phase))
<1>1. Ended(phase) \in Processes
  BY NoNotes DEF Ended, Processes, Phases, Outcomes
<1>2. PlaceInv(e, w, Ended(phase))
  BY ListType DEF Ended, PlaceInv, Resting
<1>3. ReportInv(e, w, Ended(phase)) /\ CountInv(w, Ended(phase))
  BY ListType DEF Ended, ReportInv, CountInv, Behind
<1> QED
  BY <1>1, <1>2, <1>3 DEF WorkerInv

LEMMA InitIInv == Init => IInv
<1> SUFFICES ASSUME Init PROVE IInv
  OBVIOUS
<1>1. \A w \in Workers : WorkerInv(explorer, w, worker[w])
  BY EndedInv DEF Init
<1>2. "verified" \in DOMAIN db /\ db.verified = <<>>
  BY DEF Init, EmptyDb
<1> QED
  BY <1>1, <1>2, NoNotes DEF Init, IInv, Explorers

-----------------------------------------------------------------------------
(* The explorer never forgets.                                             *)

LEMMA GoodStays ==
    ASSUME NEW e, NEW f, Learns(e, f), NEW a
    PROVE  (AcceptedBy(e, a) => AcceptedBy(f, a)) /\ (Good(e, a) => Good(f, a))
BY DEF Learns, AcceptedBy, Good

LEMMA NotesStayGood ==
    ASSUME NEW e, NEW f, Learns(e, f), NEW notes, NotesGood(e, notes)
    PROVE  NotesGood(f, notes)
BY GoodStays DEF NotesGood

LEMMA WorkerInvStays ==
    ASSUME NEW e, NEW f, Learns(e, f), NEW w \in Workers, NEW p, WorkerInv(e, w, p)
    PROVE  WorkerInv(f, w, p)
<1>1. PlaceInv(f, w, p)
  BY GoodStays, NotesStayGood DEF WorkerInv, PlaceInv
<1>2. ReportInv(f, w, p)
  BY GoodStays DEF WorkerInv, ReportInv
<1> QED
  BY <1>1, <1>2 DEF WorkerInv

LEMMA KnowsMore ==
    ASSUME explorer \in Explorers, NEW set \in {"sources", "links"}, NEW a \in Contracts
    PROVE  /\ Knows(set, a) \in Explorers /\ Learns(explorer, Knows(set, a))
           /\ a \in Knows(set, a)[set]
BY DEF Explorers, Knows, Learns

\* What a step of a worker has to show.
LEMMA WorkerStep ==
    ASSUME IInv, NEW w \in Workers, NEW p, Move(w, p),
           explorer' \in Explorers, Learns(explorer, explorer'), trouble' \in 0..MaxTrouble,
           "verified" \in DOMAIN db', db'.verified \in Notes,
           NotesGood(explorer', db'.verified), WorkerInv(explorer', w, p)
    PROVE  IInv'
<1>1. worker' = [worker EXCEPT ![w] = p]
  BY DEF Move
<1>2. worker' = [v \in Workers |-> worker'[v]] /\ worker'[w] = p
  BY <1>1 DEF IInv
<1>3. \A v \in Workers : WorkerInv(explorer', v, worker'[v])
  <2> SUFFICES ASSUME NEW v \in Workers PROVE WorkerInv(explorer', v, worker'[v])
    OBVIOUS
  <2>1. CASE v = w
    BY <2>1, <1>2
  <2>2. CASE v # w
    <3>1. worker'[v] = worker[v]
      BY <1>1, <2>2 DEF IInv
    <3> QED
      BY <3>1, WorkerInvStays DEF IInv
  <2> QED
    BY <2>1, <2>2
<1> QED
  BY <1>2, <1>3 DEF IInv

\* The file stays what it is.
LEMMA RequestStep ==
    ASSUME IInv, NEW w \in Workers, NEW p, Move(w, p), UNCHANGED db,
           explorer' \in Explorers, Learns(explorer, explorer'),
           UNCHANGED trouble \/ Trouble, WorkerInv(explorer', w, p)
    PROVE  IInv'
<1>1. trouble' \in 0..MaxTrouble
  BY DEF IInv, Trouble
<1>2. NotesGood(explorer', db'.verified)
  BY NotesStayGood DEF IInv
<1> QED
  BY <1>1, <1>2, WorkerStep DEF IInv

-----------------------------------------------------------------------------
(* The ways a request ends.                                                *)

LEMMA WorkerFacts ==
    ASSUME IInv, NEW w \in Workers
    PROVE  /\ worker[w] \in Processes /\ WorkerInv(explorer, w, worker[w])
           /\ Addr(w) = At(w, worker[w])
           /\ worker[w].phase \notin Resting => Addr(w) \in Contracts /\ Addr(w) \in ToSet(List(w))
<1>1. WorkerInv(explorer, w, worker[w])
  BY DEF IInv
<1> QED
  BY <1>1, ListType DEF WorkerInv, PlaceInv, Addr, At, Processes

Asking == {"source", "submit", "poll", "getForm", "verifyForm", "saveForm"}

LEMMA SettleInv ==
    ASSUME IInv, NEW w \in Workers, worker[w].phase \in Asking,
           NEW e, Learns(explorer, e), NEW outcome \in {"ok", "failed"},
           outcome = "ok" => Good(e, Addr(w))
    PROVE  WorkerInv(e, w, Settle(w, outcome))
<1> DEFINE p == Settle(w, outcome)
<1>1. /\ worker[w] \in Processes /\ WorkerInv(e, w, worker[w])
      /\ Addr(w) = At(w, worker[w])
  BY WorkerFacts, WorkerInvStays
<1>2. /\ p \in Processes /\ p.phase = "settle" /\ p.outcome = outcome /\ p.tries = 0
      /\ p.i = worker[w].i /\ p.summary = worker[w].summary
  BY <1>1 DEF Settle, Processes, Phases, Outcomes
<1>3. PlaceInv(e, w, p)
  BY <1>1, <1>2 DEF WorkerInv, PlaceInv, Resting, Asking, At
<1>4. ReportInv(e, w, p) /\ CountInv(w, p)
  BY <1>1, <1>2 DEF WorkerInv, ReportInv, CountInv, Behind, Asking
<1> QED
  BY <1>2, <1>3, <1>4 DEF WorkerInv

LEMMA ToInv ==
    ASSUME IInv, NEW w \in Workers, worker[w].phase \in Asking,
           NEW e, Learns(explorer, e), NEW phase \in Asking \ {"source"},
           IsProxy(Addr(w)), phase = "saveForm" => IsTrue(Addr(w))
    PROVE  WorkerInv(e, w, To(w, phase))
<1> DEFINE p == To(w, phase)
<1>1. /\ worker[w] \in Processes /\ WorkerInv(e, w, worker[w])
      /\ Addr(w) = At(w, worker[w])
  BY WorkerFacts, WorkerInvStays
<1>2. /\ p \in Processes /\ p.phase = phase /\ p.outcome = worker[w].outcome /\ p.tries = 0
      /\ p.i = worker[w].i /\ p.summary = worker[w].summary
  BY <1>1 DEF To, Processes, Phases, Asking
<1>3. PlaceInv(e, w, p)
  BY <1>1, <1>2 DEF WorkerInv, PlaceInv, Resting, Asking, At
<1>4. ReportInv(e, w, p) /\ CountInv(w, p)
  BY <1>1, <1>2 DEF WorkerInv, ReportInv, CountInv, Behind, Asking
<1> QED
  BY <1>2, <1>3, <1>4 DEF WorkerInv

\* A request is repeated.
LEMMA AgainInv ==
    ASSUME IInv, NEW w \in Workers, worker[w].phase \in Asking,
           worker[w].tries + 1 \in 0..(IF worker[w].phase = "poll" THEN MaxPolls ELSE MaxTries - 1)
    PROVE  WorkerInv(explorer, w, [worker[w] EXCEPT !.tries = @ + 1])
<1> DEFINE p == [worker[w] EXCEPT !.tries = @ + 1]
<1>1. worker[w] \in Processes /\ WorkerInv(explorer, w, worker[w])
  BY WorkerFacts
<1>2. /\ p \in Processes /\ p.phase = worker[w].phase /\ p.outcome = worker[w].outcome
      /\ p.tries = worker[w].tries + 1
      /\ p.i = worker[w].i /\ p.summary = worker[w].summary /\ p.copy = worker[w].copy
  BY <1>1 DEF Processes
<1>3. PlaceInv(explorer, w, p)
  BY <1>1, <1>2 DEF WorkerInv, PlaceInv, At
<1>4. ReportInv(explorer, w, p) /\ CountInv(w, p)
  BY <1>1, <1>2 DEF WorkerInv, ReportInv, CountInv, Behind
<1> QED
  BY <1>2, <1>3, <1>4 DEF WorkerInv

\* Nothing is learnt.
LEMMA Unlearnt == IInv => explorer \in Explorers /\ Learns(explorer, explorer)
BY DEF IInv, Learns

LEMMA FailStep ==
    ASSUME IInv, NEW w \in Workers, worker[w].phase \in Asking, UNCHANGED db,
           explorer' \in Explorers, Learns(explorer, explorer'),
           UNCHANGED trouble \/ Trouble, Move(w, Settle(w, "failed"))
    PROVE  IInv'
BY SettleInv, RequestStep

-----------------------------------------------------------------------------
(* The actions of a worker.                                                *)

LEMMA StartStep == ASSUME IInv, NEW w \in Workers, Start(w) PROVE IInv'
<1>1. [Ended("pick") EXCEPT !.i = 1] = Ended("pick")
  BY DEF Ended
<1> QED
  BY <1>1, EndedInv, Unlearnt, RequestStep DEF Start

LEMMA KillStep == ASSUME IInv, NEW w \in Workers, Kill(w) PROVE IInv'
BY EndedInv, Unlearnt, RequestStep DEF Kill

LEMMA PickStep == ASSUME IInv, NEW w \in Workers, Pick(w) PROVE IInv'
<1> DEFINE a == Addr(w)
           full == IsProxy(a) => FilterProxy(Args[w].proxy, worker[w].hasFirst)
           skip == ~Args[w].force /\ IsVerified(db, a)
           q == [worker[w] EXCEPT !.hasFirst = @ \/ IsProxy(a), !.full = full]
           p == IF skip THEN [q EXCEPT !.i = @ + 1]
                ELSE [q EXCEPT !.phase = IF full THEN "source" ELSE "submit"]
<1>1. /\ worker[w] \in Processes /\ WorkerInv(explorer, w, worker[w]) /\ a = At(w, worker[w])
      /\ worker[w].phase = "pick" /\ worker[w].i <= Len(List(w))
  BY WorkerFacts DEF Pick
<1>2. /\ q \in Processes /\ q.phase = "pick" /\ q.i = worker[w].i /\ q.tries = worker[w].tries
      /\ q.outcome = worker[w].outcome /\ q.summary = worker[w].summary
  <2>1. (worker[w].hasFirst \/ IsProxy(a)) \in BOOLEAN /\ full \in BOOLEAN
    BY Zenon
  <2> QED
    BY <1>1, <2>1 DEF Processes
<1>3. WorkerInv(explorer, w, p)
  <2>1. CASE skip
    <3>1. /\ p \in Processes /\ p.phase = "pick" /\ p.i = worker[w].i + 1
          /\ p.tries = worker[w].tries
          /\ p.outcome = worker[w].outcome /\ p.summary = worker[w].summary
      <4>1. p = [q EXCEPT !.i = @ + 1]
        BY <2>1
      <4> HIDE DEF p, q
      <4> QED
        BY <1>2, <4>1 DEF Processes
    <3>2. AcceptedBy(explorer, a)
      BY <2>1 DEF IsVerified, IInv, NotesGood, Good
    <3>3. ReportInv(explorer, w, p)
      BY <1>1, <3>1, <3>2 DEF WorkerInv, ReportInv, Behind, At, Processes
    <3>4. PlaceInv(explorer, w, p) /\ CountInv(w, p)
      BY <1>1, <3>1, ListType DEF WorkerInv, PlaceInv, CountInv, Resting, Processes
    <3> QED
      BY <3>1, <3>3, <3>4 DEF WorkerInv
  <2>2. CASE ~skip
    <3>1. /\ p \in Processes /\ p.phase = (IF full THEN "source" ELSE "submit")
          /\ p.i = worker[w].i /\ p.tries = worker[w].tries
          /\ p.outcome = worker[w].outcome /\ p.summary = worker[w].summary
      BY <1>2, <2>2 DEF Processes, Phases
    <3>2. ~full => IsProxy(a)
      OBVIOUS
    <3>3. PlaceInv(explorer, w, p)
      BY <1>1, <3>1, <3>2 DEF WorkerInv, PlaceInv, CountInv, Resting, At
    <3>4. ReportInv(explorer, w, p) /\ CountInv(w, p)
      BY <1>1, <3>1 DEF WorkerInv, ReportInv, CountInv, Behind
    <3> QED
      BY <3>1, <3>3, <3>4 DEF WorkerInv
  <2> QED
    BY <2>1, <2>2
<1>4. Move(w, p) /\ UNCHANGED <<db, explorer, trouble>>
  BY DEF Pick
<1> QED
  BY <1>3, <1>4, Unlearnt, RequestStep

LEMMA FinishStep == ASSUME IInv, NEW w \in Workers, Finish(w) PROVE IInv'
<1> DEFINE p == [Ended("ended") EXCEPT !.summary = worker[w].summary]
<1>1. /\ worker[w] \in Processes /\ WorkerInv(explorer, w, worker[w])
      /\ worker[w].phase = "pick" /\ worker[w].i = Len(List(w)) + 1
  BY WorkerFacts, ListType DEF Finish, WorkerInv, PlaceInv
<1>2. /\ p \in Processes /\ p.phase = "ended" /\ p.i = 1 /\ p.tries = 0
      /\ p.outcome = "none" /\ p.summary = worker[w].summary
  <2>1. /\ Ended("ended") \in Processes /\ Ended("ended").phase = "ended"
        /\ Ended("ended").i = 1 /\ Ended("ended").tries = 0 /\ Ended("ended").outcome = "none"
    BY NoNotes DEF Ended, Processes, Phases, Outcomes
  <2>2. worker[w].summary \in SUBSET Contracts
    BY <1>1 DEF Processes
  <2> QED
    BY <2>1, <2>2 DEF Processes
<1>3. PlaceInv(explorer, w, p) /\ CountInv(w, p)
  BY <1>1, <1>2, ListType DEF WorkerInv, PlaceInv, CountInv, Resting
<1>4. ReportInv(explorer, w, p)
  BY <1>1, <1>2, ListType DEF WorkerInv, ReportInv, Behind
<1>5. Move(w, p) /\ UNCHANGED <<db, explorer, trouble>>
  BY DEF Finish
<1> QED
  BY <1>2, <1>3, <1>4, <1>5, Unlearnt, RequestStep DEF WorkerInv

LEMMA VerifySourceStep == ASSUME IInv, NEW w \in Workers, VerifySource(w) PROVE IInv'
<1>1. worker[w].phase = "source" /\ worker[w].phase \in Asking /\ Addr(w) \in Contracts
  BY WorkerFacts DEF VerifySource, Asking, Resting
<1>2. /\ Knows("sources", Addr(w)) \in Explorers
      /\ Learns(explorer, Knows("sources", Addr(w)))
      /\ Addr(w) \in Knows("sources", Addr(w)).sources
  BY <1>1, Unlearnt, KnowsMore
<1>3. CASE /\ explorer' = Knows("sources", Addr(w))
           /\ Move(w, AfterSource(w)) /\ UNCHANGED trouble
  <2>1. WorkerInv(explorer', w, AfterSource(w))
    <3>1. CASE IsProxy(Addr(w))
      BY <1>1, <1>2, <1>3, <3>1, ToInv DEF AfterSource, Asking
    <3>2. CASE ~IsProxy(Addr(w))
      <4>1. Good(explorer', Addr(w))
        BY <1>2, <1>3, <3>2 DEF Good, AcceptedBy
      <4> QED
        BY <1>1, <1>2, <1>3, <3>2, <4>1, SettleInv DEF AfterSource
    <3> QED
      BY <3>1, <3>2
  <2> QED
    BY <1>2, <1>3, <2>1, RequestStep DEF VerifySource
<1>4. CASE /\ Trouble /\ explorer' \in {explorer, Knows("sources", Addr(w))}
           /\ Move(w, Settle(w, "failed"))
  BY <1>1, <1>2, <1>4, Unlearnt, FailStep DEF VerifySource
<1> QED
  BY <1>3, <1>4 DEF VerifySource

\* Proxies only get that far.
LEMMA ProxyFacts ==
    ASSUME IInv, NEW w \in Workers,
           worker[w].phase \in {"submit", "poll", "getForm", "verifyForm", "saveForm"}
    PROVE  /\ worker[w].phase \in Asking /\ Addr(w) \in Contracts /\ IsProxy(Addr(w))
           /\ worker[w].phase = "saveForm" => IsTrue(Addr(w))
           /\ Knows("links", Addr(w)) \in Explorers
           /\ Learns(explorer, Knows("links", Addr(w)))
           /\ IsTrue(Addr(w)) => Good(Knows("links", Addr(w)), Addr(w))
<1>1. Addr(w) \in Contracts /\ IsProxy(Addr(w)) /\ (worker[w].phase = "saveForm" => IsTrue(Addr(w)))
  BY WorkerFacts DEF Resting, WorkerInv, PlaceInv
<1>2. /\ Knows("links", Addr(w)) \in Explorers
      /\ Learns(explorer, Knows("links", Addr(w)))
      /\ Addr(w) \in Knows("links", Addr(w)).links
  BY <1>1, Unlearnt, KnowsMore
<1> QED
  BY <1>1, <1>2 DEF Asking, Good, AcceptedBy

LEMMA SubmitProxyStep == ASSUME IInv, NEW w \in Workers, SubmitProxy(w) PROVE IInv'
<1>1. /\ worker[w].phase \in Asking /\ IsProxy(Addr(w)) /\ UNCHANGED <<db, explorer>>
  BY ProxyFacts DEF SubmitProxy
<1>2. CASE Move(w, To(w, "poll")) /\ UNCHANGED trouble
  BY <1>1, <1>2, ToInv, Unlearnt, RequestStep DEF Asking
<1>3. CASE Move(w, To(w, "getForm")) /\ UNCHANGED trouble
  BY <1>1, <1>3, ToInv, Unlearnt, RequestStep DEF Asking
<1>4. CASE Trouble /\ Move(w, Settle(w, "failed"))
  BY <1>1, <1>4, Unlearnt, FailStep
<1> QED
  BY <1>2, <1>3, <1>4 DEF SubmitProxy

LEMMA PollStep == ASSUME IInv, NEW w \in Workers, Poll(w) PROVE IInv'
<1>1. /\ worker[w].phase = "poll" /\ worker[w].phase \in Asking /\ IsProxy(Addr(w))
      /\ UNCHANGED db /\ Knows("links", Addr(w)) \in Explorers
      /\ Learns(explorer, Knows("links", Addr(w)))
      /\ IsTrue(Addr(w)) => Good(Knows("links", Addr(w)), Addr(w))
  BY ProxyFacts DEF Poll
<1>2. CASE /\ IsTrue(Addr(w)) /\ explorer' = Knows("links", Addr(w))
           /\ Move(w, Settle(w, "ok")) /\ UNCHANGED trouble
  BY <1>1, <1>2, SettleInv, RequestStep
<1>3. CASE /\ ~IsTrue(Addr(w)) /\ Move(w, Settle(w, "failed"))
           /\ UNCHANGED <<explorer, trouble>>
  BY <1>1, <1>3, Unlearnt, FailStep
<1>4. CASE /\ Trouble
           /\ Move(w, IF worker[w].tries >= MaxPolls THEN Settle(w, "failed")
                      ELSE [worker[w] EXCEPT !.tries = @ + 1])
           /\ UNCHANGED explorer
  <2>1. CASE worker[w].tries >= MaxPolls
    BY <1>1, <1>4, <2>1, Unlearnt, FailStep
  <2>2. CASE ~(worker[w].tries >= MaxPolls)
    <3>1. worker[w].tries \in Nat
      BY WorkerFacts DEF Processes
    <3>2. worker[w].tries + 1 \in 0..(IF worker[w].phase = "poll" THEN MaxPolls ELSE MaxTries - 1)
      BY <1>1, <2>2, <3>1
    <3> QED
      BY <1>1, <1>4, <2>2, <3>2, AgainInv, Unlearnt, RequestStep
  <2> QED
    BY <2>1, <2>2
<1>5. CASE Move(w, To(w, "getForm")) /\ UNCHANGED <<explorer, trouble>>
  BY <1>1, <1>5, ToInv, Unlearnt, RequestStep DEF Asking
<1>6. CASE /\ Trouble
           /\ explorer' = IF IsTrue(Addr(w)) THEN Knows("links", Addr(w)) ELSE explorer
           /\ Move(w, Settle(w, "failed"))
  BY <1>1, <1>6, Unlearnt, FailStep
<1> QED
  BY <1>2, <1>3, <1>4, <1>5, <1>6 DEF Poll

FormPhases == {"getForm", "verifyForm", "saveForm"}

LEMMA BusyStep == ASSUME IInv, NEW w \in Workers, Busy(w) PROVE IInv'
<1>1. /\ worker[w].phase \in FormPhases /\ worker[w].phase \in Asking
      /\ Trouble /\ UNCHANGED <<db, explorer>>
  BY DEF Busy, Asking, FormPhases
<1>2. CASE worker[w].tries + 1 >= MaxTries
  BY <1>1, <1>2, Unlearnt, FailStep DEF Busy
<1>3. CASE ~(worker[w].tries + 1 >= MaxTries)
  <2>1. worker[w].tries \in Nat
    BY WorkerFacts DEF Processes
  <2>2. worker[w].tries + 1 \in 0..(IF worker[w].phase = "poll" THEN MaxPolls ELSE MaxTries - 1)
    BY <1>1, <1>3, <2>1 DEF FormPhases
  <2> QED
    BY <1>1, <1>3, <2>2, AgainInv, Unlearnt, RequestStep DEF Busy
<1> QED
  BY <1>2, <1>3

LEMMA GarbledStep == ASSUME IInv, NEW w \in Workers, Garbled(w) PROVE IInv'
<1>1. /\ worker[w].phase \in Asking /\ Trouble /\ UNCHANGED db
      /\ Move(w, Settle(w, "failed"))
      /\ explorer' \in {explorer, Knows("links", Addr(w))}
      /\ Knows("links", Addr(w)) \in Explorers
      /\ Learns(explorer, Knows("links", Addr(w)))
  BY ProxyFacts DEF Garbled
<1> QED
  BY <1>1, Unlearnt, FailStep

LEMMA GetFormStep == ASSUME IInv, NEW w \in Workers, GetForm(w) PROVE IInv'
<1>1. worker[w].phase \in Asking /\ IsProxy(Addr(w))
  BY ProxyFacts DEF GetForm
<1> QED
  BY <1>1, ToInv, Unlearnt, RequestStep DEF GetForm, Asking

LEMMA VerifyFormStep == ASSUME IInv, NEW w \in Workers, VerifyForm(w) PROVE IInv'
<1>1. worker[w].phase \in Asking /\ IsProxy(Addr(w))
  BY ProxyFacts DEF VerifyForm
<1>2. CASE IsTrue(Addr(w))
  BY <1>1, <1>2, ToInv, Unlearnt, RequestStep DEF VerifyForm, Asking
<1>3. CASE ~IsTrue(Addr(w))
  BY <1>1, <1>3, FailStep, Unlearnt DEF VerifyForm
<1> QED
  BY <1>2, <1>3

LEMMA SaveFormStep == ASSUME IInv, NEW w \in Workers, SaveForm(w) PROVE IInv'
<1>1. /\ worker[w].phase = "saveForm" /\ worker[w].phase \in Asking
      /\ Knows("links", Addr(w)) \in Explorers
      /\ Learns(explorer, Knows("links", Addr(w)))
      /\ Good(Knows("links", Addr(w)), Addr(w))
  BY ProxyFacts DEF SaveForm
<1> QED
  BY <1>1, SettleInv, RequestStep DEF SaveForm

LEMMA ReadFileStep == ASSUME IInv, NEW w \in Workers, ReadFile(w) PROVE IInv'
<1> DEFINE p == [worker[w] EXCEPT !.phase = "write", !.copy = db.verified]
<1>1. /\ worker[w] \in Processes /\ WorkerInv(explorer, w, worker[w])
      /\ worker[w].phase = "settle" /\ worker[w].outcome = "ok"
      /\ db.verified \in Notes /\ NotesGood(explorer, db.verified)
  BY WorkerFacts DEF ReadFile, IInv
<1>2. /\ p \in Processes /\ p.phase = "write" /\ p.outcome = "ok" /\ p.copy = db.verified
      /\ p.i = worker[w].i /\ p.tries = worker[w].tries /\ p.summary = worker[w].summary
  BY <1>1 DEF Processes, Phases
<1>3. PlaceInv(explorer, w, p)
  BY <1>1, <1>2 DEF WorkerInv, PlaceInv, Resting, At
<1>4. ReportInv(explorer, w, p) /\ CountInv(w, p)
  BY <1>1, <1>2 DEF WorkerInv, ReportInv, CountInv, Behind
<1>5. Move(w, p) /\ UNCHANGED <<db, explorer>> /\ (UNCHANGED trouble \/ Trouble)
  BY DEF ReadFile
<1> QED
  BY <1>2, <1>3, <1>4, <1>5, Unlearnt, RequestStep DEF WorkerInv

\* The entry is left behind, noted or reported.
LEMMA NextEntryInv ==
    ASSUME IInv, NEW w \in Workers, worker[w].phase \in {"settle", "write"},
           NEW p, p \in Processes, p.phase = "pick", p.i = worker[w].i + 1,
           p.outcome = "none", p.tries = worker[w].tries,
           \A a : a \in p.summary => a \in worker[w].summary \/ a = Addr(w),
           worker[w].summary \subseteq p.summary,
           Addr(w) \in p.summary \/ AcceptedBy(explorer, Addr(w))
    PROVE  WorkerInv(explorer, w, p)
<1>1. /\ worker[w] \in Processes /\ WorkerInv(explorer, w, worker[w])
      /\ Addr(w) = At(w, worker[w]) /\ Addr(w) \in ToSet(List(w))
  BY WorkerFacts DEF Resting
<1>2. worker[w].i \in 1..Len(List(w))
  BY <1>1, ListType DEF WorkerInv, PlaceInv, Resting
<1>3. PlaceInv(explorer, w, p) /\ CountInv(w, p)
  BY <1>1, <1>2, ListType DEF WorkerInv, PlaceInv, CountInv, Resting
<1>4. ReportInv(explorer, w, p)
  <2> SUFFICES ASSUME NEW j \in 1..worker[w].i
               PROVE  List(w)[j] \in p.summary \/ AcceptedBy(explorer, List(w)[j])
    BY <1>2 DEF ReportInv, Behind
  <2>1. CASE j = worker[w].i
    BY <1>1, <2>1 DEF At
  <2>2. CASE j # worker[w].i
    BY <1>1, <1>2, <2>2 DEF WorkerInv, ReportInv, Behind
  <2> QED
    BY <2>1, <2>2
<1> QED
  BY <1>3, <1>4 DEF WorkerInv

LEMMA EntryFacts ==
    ASSUME NEW q \in Processes, NEW none \in Notes
    PROVE  LET r == [q EXCEPT !.phase = "pick", !.i = @ + 1, !.outcome = "none", !.copy = none]
           IN  /\ r \in Processes /\ r.phase = "pick" /\ r.i = q.i + 1
               /\ r.outcome = "none" /\ r.tries = q.tries /\ r.summary = q.summary
<1>1. q.i + 1 \in Nat \ {0} /\ "pick" \in Phases /\ "none" \in Outcomes
  BY DEF Processes, Phases, Outcomes
<1> QED
  BY <1>1 DEF Processes

LEMMA NextEntryFacts ==
    ASSUME NEW q \in Processes
    PROVE  /\ NextEntry(q) \in Processes /\ NextEntry(q).phase = "pick"
           /\ NextEntry(q).i = q.i + 1 /\ NextEntry(q).outcome = "none"
           /\ NextEntry(q).tries = q.tries /\ NextEntry(q).summary = q.summary
BY EntryFacts, NoNotes, Zenon DEF NextEntry

LEMMA ReportStep == ASSUME IInv, NEW w \in Workers, Report(w) PROVE IInv'
<1> DEFINE p == [NextEntry(worker[w]) EXCEPT !.summary = @ \cup {Addr(w)}]
<1>1. /\ worker[w] \in Processes /\ worker[w].phase = "settle" /\ Addr(w) \in Contracts
  BY WorkerFacts DEF Report, Resting
<1>2. /\ p \in Processes /\ p.phase = "pick" /\ p.i = worker[w].i + 1
      /\ p.outcome = "none" /\ p.tries = worker[w].tries
      /\ p.summary = worker[w].summary \cup {Addr(w)}
  BY <1>1, NextEntryFacts DEF Processes
<1>3. Move(w, p) /\ UNCHANGED <<db, explorer, trouble>>
  BY DEF Report
<1> HIDE DEF p
<1>4. WorkerInv(explorer, w, p)
  BY <1>1, <1>2, NextEntryInv
<1> QED
  BY <1>3, <1>4, Unlearnt, RequestStep

LEMMA WriteFileStep == ASSUME IInv, NEW w \in Workers, WriteFile(w) PROVE IInv'
<1> DEFINE p == NextEntry(worker[w])
           notes == Put(worker[w].copy, Addr(w), TRUE)
<1>1. /\ worker[w] \in Processes /\ worker[w].phase = "write" /\ Addr(w) \in Contracts
      /\ Good(explorer, Addr(w)) /\ worker[w].copy \in Notes
      /\ NotesGood(explorer, worker[w].copy)
  BY WorkerFacts DEF WriteFile, Resting, WorkerInv, PlaceInv, Processes
<1>2. /\ p \in Processes /\ p.phase = "pick" /\ p.i = worker[w].i + 1
      /\ p.outcome = "none" /\ p.tries = worker[w].tries
      /\ p.summary = worker[w].summary
  BY <1>1, NextEntryFacts
<1>3. WorkerInv(explorer, w, p)
  BY <1>1, <1>2, NextEntryInv DEF Good
<1>4. notes \in Notes /\ NotesGood(explorer, notes)
  <2>1. PICK S \in SUBSET Contracts : worker[w].copy \in [S -> {TRUE}]
    BY <1>1 DEF Notes
  <2>2. notes \in [S \cup {Addr(w)} -> {TRUE}]
    BY <2>1 DEF Put
  <2>3. S \cup {Addr(w)} \in SUBSET Contracts
    BY <1>1
  <2>4. notes \in Notes
    BY <2>2, <2>3 DEF Notes
  <2>5. NotesGood(explorer, notes)
    BY <1>1, <2>1 DEF NotesGood, Put
  <2> QED
    BY <2>4, <2>5
<1>5. "verified" \in DOMAIN db' /\ db'.verified = notes
  BY DEF WriteFile, SetVerified, IInv
<1>6. Move(w, p) /\ UNCHANGED <<explorer, trouble>>
  BY DEF WriteFile
<1> QED
  BY <1>3, <1>4, <1>5, <1>6, Unlearnt, WorkerStep DEF IInv

-----------------------------------------------------------------------------

LEMMA WorkStep == ASSUME IInv, NEW w \in Workers, Work(w) PROVE IInv'
BY PickStep, FinishStep, VerifySourceStep, SubmitProxyStep, PollStep, GetFormStep,
   VerifyFormStep, SaveFormStep, BusyStep, GarbledStep, ReadFileStep, WriteFileStep,
   ReportStep DEF Work

LEMMA StutterStep == IInv /\ UNCHANGED vars => IInv'
<1> SUFFICES ASSUME IInv, UNCHANGED vars PROVE IInv'
  OBVIOUS
<1>1. /\ db' = db /\ explorer' = explorer /\ worker' = worker /\ trouble' = trouble
  BY DEF vars
<1> QED
  BY <1>1 DEF IInv

LEMMA NextIInv == IInv /\ [Next]_vars => IInv'
BY StartStep, WorkStep, KillStep, StutterStep DEF Next

(***************************************************************************)
(* IInv is an invariant of the workers.                                    *)
(***************************************************************************)
THEOREM Invariance == Spec => []IInv
BY InitIInv, NextIInv, PTL DEF Spec

(***************************************************************************)
(* A contract that the file notes as verified was accepted by the          *)
(* explorer, and a proxy among them has the recorded implementation:       *)
(* verify-all.ts notes nothing false, for any number of processes.         *)
(***************************************************************************)
THEOREM NotesAreTrue == Spec => []VerifiedIsTrue
<1>1. IInv => VerifyTypeOK
  <2> SUFFICES ASSUME IInv PROVE VerifyTypeOK
    OBVIOUS
  <2>1. \A a \in DOMAIN db.verified : db.verified[a] = TRUE
    BY DEF IInv, NotesGood
  <2>2. explorer.sources \subseteq DOMAIN ImplOf /\ explorer.links \subseteq DOMAIN ImplOf
    BY DEF IInv, Explorers, Contracts
  <2>3. ASSUME NEW w \in Workers
        PROVE  LET p == worker[w] IN
                 /\ p.phase \in Phases /\ p.i \in 1..(Len(List(w)) + 1)
                 /\ p.hasFirst \in BOOLEAN /\ p.full \in BOOLEAN
                 /\ p.outcome \in Outcomes
                 /\ (p.outcome # "none" <=> p.phase \in {"settle", "write"})
                 /\ p.tries \in 0..(IF p.phase = "poll" THEN MaxPolls ELSE MaxTries - 1)
                 /\ p.summary \subseteq ToSet(List(w))
    BY <2>3 DEF IInv, WorkerInv, Processes, PlaceInv, CountInv
  <2> QED
    BY <2>1, <2>2, <2>3 DEF VerifyTypeOK, IInv
<1>2. IInv => \A a \in DOMAIN db.verified : Accepted(a) /\ (IsProxy(a) => IsTrue(a))
  BY DEF IInv, NotesGood, Good, AcceptedBy, Accepted
<1>3. IInv => VerifiedIsTrue
  BY <1>1, <1>2 DEF VerifiedIsTrue
<1> QED
  BY <1>3, Invariance, PTL

(***************************************************************************)
(* The summary of a worker that has finished misses nothing: each contract *)
(* of its list is an issue or was accepted.                                *)
(***************************************************************************)
THEOREM SummaryTellsAll == Spec => []SummaryIsComplete
<1>1. IInv => SummaryIsComplete
  <2> SUFFICES ASSUME IInv, NEW w \in Workers, worker[w].phase = "ended",
                      NEW a \in ToSet(List(w))
               PROVE  a \in worker[w].summary \/ Accepted(a)
    BY DEF SummaryIsComplete
  <2>1. PICK j \in 1..Len(List(w)) : a = List(w)[j]
    BY ListType DEF ToSet
  <2> QED
    BY <2>1 DEF IInv, WorkerInv, ReportInv, Behind, AcceptedBy, Accepted
<1> QED
  BY <1>1, Invariance, PTL
-----------------------------------------------------------------------------
(* The first proxy and its source.                                         *)

LEMMA HasSourceStays ==
    ASSUME NEW e, NEW f, Learns(e, f), NEW a, HasSource(e, a)
    PROVE  HasSource(f, a)
BY DEF Learns, HasSource

LEMMA SourceInvStays ==
    ASSUME NEW e, NEW f, Learns(e, f), NEW w \in Workers, NEW p, SourceInv(e, w, p)
    PROVE  SourceInv(f, w, p)
<1>1. \A a : HasSource(e, a) => HasSource(f, a)
  BY HasSourceStays
<1> QED
  BY <1>1 DEF SourceInv

\* What a step of a worker has to show.
LEMMA SourceStep ==
    ASSUME IInv, SInv, NEW w \in Workers, NEW p, Move(w, p), Learns(explorer, explorer'),
           \A a \in DOMAIN db'.verified : HasSource(explorer', a), SourceInv(explorer', w, p)
    PROVE  SInv'
<1>1. worker' = [worker EXCEPT ![w] = p] /\ worker = [v \in Workers |-> worker[v]]
  BY DEF Move, IInv
<1>2. ASSUME NEW v \in Workers PROVE SourceInv(explorer', v, worker'[v])
  <2>1. CASE v = w
    <3>1. worker'[v] = p
      BY <1>1, <2>1
    <3> QED
      BY <2>1, <3>1
  <2>2. CASE v # w
    <3>1. worker'[v] = worker[v]
      BY <1>1, <2>2
    <3> QED
      BY <3>1, SourceInvStays DEF SInv
  <2> QED
    BY <2>1, <2>2
<1> QED
  BY <1>2 DEF SInv

\* The file stays what it is.
LEMMA SourceRequest ==
    ASSUME IInv, SInv, NEW w \in Workers, NEW p, Move(w, p), UNCHANGED db,
           Learns(explorer, explorer'), SourceInv(explorer', w, p)
    PROVE  SInv'
<1>1. \A a \in DOMAIN db'.verified : HasSource(explorer', a)
  BY HasSourceStays DEF SInv
<1> QED
  BY <1>1, SourceStep

\* A process that stays at its contract, past the verification of the source.
LEMMA PastSource ==
    ASSUME NEW e, NEW w \in Workers, NEW q, SourceInv(e, w, q), q.phase \notin Resting,
           NEW p, p.i = q.i, p.hasFirst = q.hasFirst, p.phase \notin Resting \cup {"source", "write"},
           p.outcome = "failed" \/ HasSource(e, At(w, q))
    PROVE  SourceInv(e, w, p)
BY DEF SourceInv, At

LEMMA AskingSource ==
    ASSUME IInv, SInv, NEW w \in Workers, worker[w].phase \in Asking \ {"source"},
           Learns(explorer, explorer'), NEW p, Move(w, p), UNCHANGED db,
           \/ \E phase \in Asking \ {"source"} : p = To(w, phase)
           \/ \E outcome \in {"ok", "failed"} : p = Settle(w, outcome)
           \/ p = [worker[w] EXCEPT !.tries = @ + 1]
    PROVE  SInv'
<1>1. /\ worker[w] \in Processes /\ worker[w].phase \notin Resting
      /\ worker[w].outcome = "none" /\ SourceInv(explorer, w, worker[w])
  BY WorkerFacts DEF Asking, Resting, WorkerInv, CountInv, SInv
<1>2. HasSource(explorer, At(w, worker[w]))
  BY <1>1 DEF SourceInv, Asking
<1>3. SourceInv(explorer', w, worker[w]) /\ HasSource(explorer', At(w, worker[w]))
  BY <1>1, <1>2, SourceInvStays, HasSourceStays
<1>4. /\ p.i = worker[w].i /\ p.hasFirst = worker[w].hasFirst
      /\ p.phase \notin Resting \cup {"source", "write"}
  <2>1. CASE \E phase \in Asking \ {"source"} : p = To(w, phase)
    BY <1>1, <2>1 DEF To, Processes, Asking, Resting
  <2>2. CASE \E outcome \in {"ok", "failed"} : p = Settle(w, outcome)
    BY <1>1, <2>2 DEF Settle, Processes, Resting
  <2>3. CASE p = [worker[w] EXCEPT !.tries = @ + 1]
    BY <1>1, <2>3 DEF Processes, Asking, Resting
  <2> QED
    BY <2>1, <2>2, <2>3
<1>5. SourceInv(explorer', w, p)
  BY <1>1, <1>3, <1>4, PastSource
<1> QED
  BY <1>5, SourceRequest

LEMMA EndedSource ==
    ASSUME NEW e, NEW w \in Workers, NEW p, p.phase \in Resting, ~p.hasFirst
    PROVE  SourceInv(e, w, p)
BY DEF SourceInv, Resting

\* The process goes on to its next contract.
LEMMA NextSource ==
    ASSUME NEW e, NEW w \in Workers, NEW q \in Processes, SourceInv(e, w, q), q.phase \notin Resting,
           NEW p, p.phase = "pick", p.i = q.i + 1, p.hasFirst = q.hasFirst
    PROVE  SourceInv(e, w, p)
<1>1. (q.i + 1) - 1 = q.i
  BY DEF Processes
<1> QED
  BY <1>1 DEF SourceInv, Resting

LEMMA PickSource == ASSUME IInv, SInv, NEW w \in Workers, Pick(w) PROVE SInv'
<1> DEFINE a == Addr(w)
           full == IsProxy(a) => FilterProxy(Args[w].proxy, worker[w].hasFirst)
           skip == ~Args[w].force /\ IsVerified(db, a)
           hasFirst == worker[w].hasFirst \/ IsProxy(a)
           p == worker'[w]
<1>1. /\ worker[w] \in Processes /\ SourceInv(explorer, w, worker[w]) /\ a = At(w, worker[w])
      /\ worker[w].phase = "pick" /\ worker[w].i \in 1..Len(List(w)) /\ worker[w].i \in Nat
      /\ worker[w].outcome = "none"
  <2>1. WorkerInv(explorer, w, worker[w])
    BY WorkerFacts
  <2> QED
    BY <2>1, WorkerFacts, ListType DEF SInv, Pick, WorkerInv, PlaceInv, CountInv, Processes
<1>2. hasFirst => ProxyAmong(w, worker[w].i)
  <2>1. CASE IsProxy(a)
    <3>1. worker[w].i \in 1..worker[w].i
      BY <1>1
    <3> QED
      BY <1>1, <2>1, <3>1 DEF ProxyAmong, At
  <2>2. CASE worker[w].hasFirst
    <3>1. PICK j \in 1..(worker[w].i - 1) : IsProxy(List(w)[j])
      BY <1>1, <2>2 DEF SourceInv, Resting, ProxyAmong
    <3>2. j \in 1..worker[w].i
      BY <1>1
    <3> QED
      BY <3>1, <3>2 DEF ProxyAmong
  <2> QED
    BY <2>1, <2>2
<1>3. IsFirst(a) => full
  <2> SUFFICES ASSUME IsFirst(a) PROVE FilterProxy(Args[w].proxy, worker[w].hasFirst)
    OBVIOUS
  <2>1. Args[w].proxy \in {"auto", "full"}
    BY VerifyAssumption DEF IsFirst
  <2>2. ~worker[w].hasFirst
    <3> SUFFICES ASSUME NEW j \in 1..(worker[w].i - 1), IsProxy(List(w)[j]) PROVE FALSE
      BY <1>1 DEF SourceInv, Resting, ProxyAmong
    <3> QED
      BY <1>1, ListFacts DEF FirstComesFirst, At
  <2> QED
    BY <2>1, <2>2 DEF FilterProxy
<1>4. /\ p.hasFirst = hasFirst /\ p.outcome = "none"
      /\ IF skip THEN p.phase = "pick" /\ p.i = worker[w].i + 1
         ELSE p.phase = (IF full THEN "source" ELSE "submit") /\ p.i = worker[w].i
  <2>1. worker' = [worker EXCEPT ![w] = p] /\ w \in DOMAIN worker
    BY DEF Pick, Move, IInv
  <2> DEFINE q == [worker[w] EXCEPT !.hasFirst = @ \/ IsProxy(a), !.full = full]
  <2>2. p = IF skip THEN [q EXCEPT !.i = @ + 1]
            ELSE [q EXCEPT !.phase = IF full THEN "source" ELSE "submit"]
    BY <2>1 DEF Pick, Move
  <2>3. /\ q.hasFirst = hasFirst /\ q.i = worker[w].i /\ q.phase = "pick" /\ q.outcome = "none"
        /\ {"hasFirst", "i", "phase", "outcome"} \subseteq DOMAIN q
    BY <1>1, Zenon DEF Processes
  <2> HIDE DEF p, q, full, skip, hasFirst
  <2> QED
    BY <2>2, <2>3
<1>5. SourceInv(explorer, w, p)
  <2> HIDE DEF p, a, hasFirst, full
  <2>1. CASE skip
    <3>1. (worker[w].i + 1) - 1 = worker[w].i
      BY <1>1
    <3> QED
      BY <1>2, <1>4, <2>1, <3>1 DEF SourceInv, Resting
  <2>2. CASE ~skip
    <3>1. p.phase \notin Resting /\ p.phase # "write" /\ At(w, p) = a
      BY <1>1, <1>4, <2>2 DEF Resting, At
    <3>2. p.phase # "source" => ~IsFirst(a)
      BY <1>3, <1>4, <2>2
    <3>3. p.i = worker[w].i
      BY <1>4, <2>2
    <3> QED
      BY <1>2, <1>4, <3>1, <3>2, <3>3 DEF SourceInv, HasSource
  <2> QED
    BY <2>1, <2>2
<1>6. Move(w, p) /\ UNCHANGED <<db, explorer, trouble>>
  BY DEF Pick, Move, IInv
<1> HIDE DEF p
<1> QED
  BY <1>5, <1>6, Unlearnt, SourceRequest

LEMMA VerifySourceSource == ASSUME IInv, SInv, NEW w \in Workers, VerifySource(w) PROVE SInv'
<1>1. /\ worker[w] \in Processes /\ worker[w].phase = "source" /\ worker[w].phase \notin Resting
      /\ Addr(w) \in Contracts /\ Addr(w) = At(w, worker[w])
      /\ SourceInv(explorer, w, worker[w])
  BY WorkerFacts DEF VerifySource, Resting, SInv
<1>2. /\ Knows("sources", Addr(w)) \in Explorers
      /\ Learns(explorer, Knows("sources", Addr(w)))
      /\ Addr(w) \in Knows("sources", Addr(w)).sources
  BY <1>1, Unlearnt, KnowsMore
<1>3. Learns(explorer, explorer') /\ UNCHANGED db
  BY <1>2, Unlearnt DEF VerifySource
<1>4. SourceInv(explorer', w, worker[w])
  BY <1>1, <1>3, SourceInvStays
<1>5. ASSUME NEW p, \/ p = Settle(w, "failed")
                    \/ p \in {To(w, "submit"), Settle(w, "ok")} /\ explorer' = Knows("sources", Addr(w))
      PROVE  SourceInv(explorer', w, p)
  <2>1. /\ p.i = worker[w].i /\ p.hasFirst = worker[w].hasFirst
        /\ p.phase \notin Resting \cup {"source", "write"}
    BY <1>1, <1>5 DEF To, Settle, Processes, Resting
  <2>2. p.outcome = "failed" \/ HasSource(explorer', At(w, worker[w]))
    BY <1>1, <1>2, <1>5 DEF Settle, Processes, HasSource
  <2> QED
    BY <1>1, <1>4, <2>1, <2>2, PastSource
<1>6. PICK p : Move(w, p) /\ \/ p = Settle(w, "failed")
                             \/ p \in {To(w, "submit"), Settle(w, "ok")} /\ explorer' = Knows("sources", Addr(w))
  BY DEF VerifySource, AfterSource
<1> QED
  BY <1>3, <1>5, <1>6, SourceRequest

LEMMA ReadFileSource == ASSUME IInv, SInv, NEW w \in Workers, ReadFile(w) PROVE SInv'
<1> DEFINE p == [worker[w] EXCEPT !.phase = "write", !.copy = db.verified]
<1>1. /\ worker[w] \in Processes /\ worker[w].phase = "settle" /\ worker[w].outcome = "ok"
      /\ SourceInv(explorer, w, worker[w]) /\ \A a \in DOMAIN db.verified : HasSource(explorer, a)
  BY WorkerFacts DEF ReadFile, SInv
<1>2. /\ p.phase = "write" /\ p.outcome = "ok" /\ p.copy = db.verified
      /\ p.i = worker[w].i /\ p.hasFirst = worker[w].hasFirst
  BY <1>1 DEF Processes
<1>3. Move(w, p) /\ UNCHANGED <<db, explorer>>
  BY DEF ReadFile
<1> HIDE DEF p
<1>4. SourceInv(explorer, w, p)
  BY <1>1, <1>2 DEF SourceInv, Resting, At
<1> QED
  BY <1>3, <1>4, Unlearnt, SourceRequest

LEMMA NextEntrySource ==
    ASSUME NEW q \in Processes
    PROVE  /\ NextEntry(q).phase = "pick" /\ NextEntry(q).i = q.i + 1
           /\ NextEntry(q).hasFirst = q.hasFirst /\ "summary" \in DOMAIN NextEntry(q)
BY DEF NextEntry, Processes

LEMMA ReportSource == ASSUME IInv, SInv, NEW w \in Workers, Report(w) PROVE SInv'
<1> DEFINE p == [NextEntry(worker[w]) EXCEPT !.summary = @ \cup {Addr(w)}]
<1>1. /\ worker[w] \in Processes /\ worker[w].phase = "settle" /\ worker[w].phase \notin Resting
      /\ SourceInv(explorer, w, worker[w])
  BY WorkerFacts DEF Report, Resting, SInv
<1>2. p.phase = "pick" /\ p.i = worker[w].i + 1 /\ p.hasFirst = worker[w].hasFirst
  BY <1>1, NextEntrySource
<1>3. Move(w, p) /\ UNCHANGED <<db, explorer, trouble>>
  BY DEF Report
<1> HIDE DEF p
<1>4. SourceInv(explorer, w, p)
  BY <1>1, <1>2, NextSource
<1> QED
  BY <1>3, <1>4, Unlearnt, SourceRequest

LEMMA WriteFileSource == ASSUME IInv, SInv, NEW w \in Workers, WriteFile(w) PROVE SInv'
<1> DEFINE p == NextEntry(worker[w])
<1>1. /\ worker[w] \in Processes /\ worker[w].phase = "write" /\ worker[w].phase \notin Resting
      /\ worker[w].outcome = "ok" /\ Addr(w) = At(w, worker[w])
      /\ SourceInv(explorer, w, worker[w])
  BY WorkerFacts DEF WriteFile, Resting, WorkerInv, PlaceInv, SInv
<1>2. HasSource(explorer, Addr(w)) /\ \A a \in DOMAIN worker[w].copy : HasSource(explorer, a)
  BY <1>1 DEF SourceInv
<1>3. p.phase = "pick" /\ p.i = worker[w].i + 1 /\ p.hasFirst = worker[w].hasFirst
  BY <1>1, NextEntrySource
<1>4. Move(w, p) /\ UNCHANGED <<explorer, trouble>>
  BY DEF WriteFile
<1> HIDE DEF p
<1>5. SourceInv(explorer, w, p)
  BY <1>1, <1>3, NextSource
<1>6. db'.verified = Put(worker[w].copy, Addr(w), TRUE)
  BY DEF WriteFile, SetVerified, IInv
<1>7. \A a \in DOMAIN db'.verified : HasSource(explorer, a)
  BY <1>2, <1>6 DEF Put
<1> QED
  BY <1>4, <1>5, <1>7, Unlearnt, SourceStep

LEMMA RestSource ==
    ASSUME IInv, SInv, NEW w \in Workers, Start(w) \/ Kill(w) \/ Finish(w)
    PROVE  SInv'
<1>1. PICK p : Move(w, p) /\ p.phase \in Resting /\ ~p.hasFirst /\ UNCHANGED <<db, explorer>>
  BY DEF Start, Kill, Finish, Ended, Resting
<1> QED
  BY <1>1, EndedSource, Unlearnt, SourceRequest

\* The requests after the one for the source.
LEMMA RequestSource ==
    ASSUME IInv, SInv, NEW w \in Workers,
           \/ SubmitProxy(w) \/ Poll(w) \/ GetForm(w) \/ VerifyForm(w)
           \/ SaveForm(w) \/ Busy(w) \/ Garbled(w)
    PROVE  SInv'
<1>1. worker[w].phase \in {"submit", "poll", "getForm", "verifyForm", "saveForm"}
  BY DEF SubmitProxy, Poll, GetForm, VerifyForm, SaveForm, Busy, Garbled
<1>2. worker[w].phase \in Asking \ {"source"} /\ Learns(explorer, Knows("links", Addr(w)))
  BY <1>1, ProxyFacts DEF Asking
<1>3. Learns(explorer, explorer') /\ UNCHANGED db
  BY <1>2, Unlearnt DEF SubmitProxy, Poll, GetForm, VerifyForm, SaveForm, Busy, Garbled
<1>4. PICK p : Move(w, p) /\ \/ \E phase \in Asking \ {"source"} : p = To(w, phase)
                             \/ \E outcome \in {"ok", "failed"} : p = Settle(w, outcome)
                             \/ p = [worker[w] EXCEPT !.tries = @ + 1]
  <2>1. {"poll", "getForm", "verifyForm", "saveForm"} \subseteq Asking \ {"source"}
    BY DEF Asking
  <2>2. CASE SubmitProxy(w)
    BY <2>1, <2>2 DEF SubmitProxy
  <2>3. CASE Poll(w)
    BY <2>1, <2>3 DEF Poll
  <2>4. CASE GetForm(w) \/ VerifyForm(w)
    BY <2>1, <2>4 DEF GetForm, VerifyForm
  <2>5. CASE SaveForm(w) \/ Garbled(w)
    BY <2>5 DEF SaveForm, Garbled
  <2>6. CASE Busy(w)
    BY <2>6 DEF Busy
  <2> QED
    BY <2>2, <2>3, <2>4, <2>5, <2>6
<1> QED
  BY <1>2, <1>3, <1>4, AskingSource

LEMMA NextSInv == IInv /\ SInv /\ [Next]_vars => SInv'
<1> SUFFICES ASSUME IInv, SInv, [Next]_vars PROVE SInv'
  OBVIOUS
<1>1. CASE UNCHANGED vars
  <2>1. db' = db /\ explorer' = explorer /\ worker' = worker
    BY <1>1 DEF vars
  <2> QED
    BY <2>1 DEF SInv
<1>2. ASSUME NEW w \in Workers, Start(w) \/ Work(w) \/ Kill(w) PROVE SInv'
  BY <1>2, PickSource, VerifySourceSource, ReadFileSource, ReportSource, WriteFileSource,
     RestSource, RequestSource DEF Work
<1> QED
  BY <1>1, <1>2 DEF Next

LEMMA InitSInv == Init => SInv
<1> SUFFICES ASSUME Init PROVE SInv
  OBVIOUS
<1>1. db.verified = <<>> /\ DOMAIN <<>> = {}
  BY DEF Init, EmptyDb
<1>2. ASSUME NEW w \in Workers PROVE SourceInv(explorer, w, worker[w])
  <2>1. worker[w] = Ended("off")
    BY DEF Init
  <2> QED
    BY <2>1, EndedSource DEF Ended, Resting
<1> QED
  BY <1>1, <1>2 DEF SInv

(***************************************************************************)
(* The first proxy of the file is not noted before the explorer has its    *)
(* source, for any lists of the workers, any interleaving of them and any  *)
(* writes that are lost: the others are verified by their code being equal *)
(* to its (filterProxy of verify-all.ts).                                  *)
(***************************************************************************)
THEOREM FirstProxyIsVerified == Spec => []FirstProxyHasSource
<1>1. SInv => FirstProxyHasSource
  BY DEF SInv, HasSource, IsFirst, FirstProxyHasSource, IsVerified
<1> QED
  BY <1>1, Invariance, InitSInv, NextSInv, PTL DEF Spec

-----------------------------------------------------------------------------
(* The access test.                                                        *)

-----------------------------------------------------------------------------
(* The entries of the file.                                                *)

Place(c) == c = Contract(c.at, c.factory, c.proxy) /\ c.proxy \in BOOLEAN

\* A sequence of some things is one of more.
LEMMA LargerSeq ==
    ASSUME NEW S, NEW T, S \subseteq T, NEW s \in Seq(S) PROVE s \in Seq(T)
<1> DEFINE n == Len(s)
<1>1. n \in Nat /\ s = [i \in 1..n |-> s[i]] /\ \A i \in 1..n : s[i] \in T
  OBVIOUS
<1> HIDE DEF n
<1>2. [i \in 1..n |-> s[i]] \in Seq(T)
  BY <1>1
<1> QED BY <1>1, <1>2

\* A sequence has the elements of its range.
LEMMA SeqHasItsElements ==
    ASSUME NEW C, NEW s \in Seq(C) PROVE ToSet(s) \subseteq C /\ s \in Seq(ToSet(s))
<1>1. ToSet(s) \subseteq C /\ \A i \in 1..Len(s) : s[i] \in ToSet(s)
  BY DEF ToSet
<1>2. Len(s) \in Nat /\ DOMAIN s = 1..Len(s) /\ s = [i \in 1..Len(s) |-> s[i]]
  OBVIOUS
<1> DEFINE T == ToSet(s)
           n == Len(s)
<1>3. n \in Nat /\ s = [i \in 1..n |-> s[i]] /\ \A i \in 1..n : s[i] \in T
  BY <1>1, <1>2
<1> HIDE DEF T, n
<1>4. [i \in 1..n |-> s[i]] \in Seq(T)
  BY <1>3
<1>5. s \in Seq(T)
  BY <1>3, <1>4
<1> QED BY <1>1, <1>5 DEF T

IsEntry(e) ==
    \/ /\ e.at \in DOMAIN FactoryOf /\ e.factory = FactoryOf[e.at] /\ e.proxy = FALSE
    \/ /\ e.factory = ImplFactory(e.at) /\ e.proxy = TRUE

\* The queue is at first a sequence of contracts, each as the file has it.
LEMMA EntriesAre ==
    /\ Entries \in Seq(ToSet(Entries))
    /\ \A e \in ToSet(Entries) : Place(e) /\ IsEntry(e)
<1> DEFINE first == [i \in DOMAIN Instances |-> Contract(Instances[i], FactoryOf[Instances[i]], FALSE)]
           rest == [i \in DOMAIN Externals |-> Contract(Externals[i], ImplFactory(Externals[i]), TRUE)]
           C == {Contract(Instances[i], FactoryOf[Instances[i]], FALSE) : i \in DOMAIN Instances}
                \cup {Contract(Externals[i], ImplFactory(Externals[i]), TRUE) : i \in DOMAIN Externals}
<1>1. first \in Seq(C)
  <2> DEFINE n == Len(Instances)
  <2>1. n \in Nat /\ DOMAIN Instances = 1..n
    BY RecordsAssumption
  <2>2. \A i \in 1..n : Contract(Instances[i], FactoryOf[Instances[i]], FALSE) \in C
    BY <2>1
  <2>3. first = [i \in 1..n |-> first[i]] /\ \A i \in 1..n : first[i] \in C
    BY <2>1, <2>2
  <2> HIDE DEF C, n, first
  <2>4. [i \in 1..n |-> first[i]] \in Seq(C)
    BY <2>1, <2>3
  <2> QED BY <2>3, <2>4
<1>2. rest \in Seq(C)
  <2> DEFINE n == Len(Externals)
  <2>1. n \in Nat /\ DOMAIN Externals = 1..n
    BY RecordsAssumption
  <2>2. \A i \in 1..n : Contract(Externals[i], ImplFactory(Externals[i]), TRUE) \in C
    BY <2>1
  <2>3. rest = [i \in 1..n |-> rest[i]] /\ \A i \in 1..n : rest[i] \in C
    BY <2>1, <2>2
  <2> HIDE DEF C, n, rest
  <2>4. [i \in 1..n |-> rest[i]] \in Seq(C)
    BY <2>1, <2>3
  <2> QED BY <2>3, <2>4
<1>3. ASSUME NEW c \in C PROVE Place(c) /\ IsEntry(c)
  <2>1. CASE \E i \in DOMAIN Instances : c = Contract(Instances[i], FactoryOf[Instances[i]], FALSE)
    BY <2>1, RecordsAssumption DEF Place, IsEntry, Contract
  <2>2. CASE \E i \in DOMAIN Externals : c = Contract(Externals[i], ImplFactory(Externals[i]), TRUE)
    BY <2>2, RecordsAssumption DEF Place, IsEntry, Contract
  <2> QED BY <1>3, <2>1, <2>2
<1> HIDE DEF first, rest, C
<1>4. Entries = first \o rest
  BY DEF Entries, first, rest
<1>5. first \o rest \in Seq(C)
  BY <1>1, <1>2
<1>6. Entries \in Seq(C)
  BY <1>4, <1>5
<1>7. ToSet(Entries) \subseteq C /\ Entries \in Seq(ToSet(Entries))
  BY <1>6, SeqHasItsElements
<1> QED BY <1>3, <1>7

-----------------------------------------------------------------------------
(* The delegates.                                                          *)

Closes(S, factory) ==
    /\ S \in SUBSET DOMAIN Functions /\ factory \in S
    /\ \A f \in S : ToSet(ExceptionsOf(f).delegates) \subseteq S

\* What is below a factory has an interface, itself and the delegates of what is
\* below, and is in every set that has these.
LEMMA BelowCloses ==
    ASSUME NEW factory \in DOMAIN Functions
    PROVE  /\ Closes(FactoriesBelow(factory), factory)
           /\ \A S : Closes(S, factory) => FactoriesBelow(factory) \subseteq S
<1>1. \A f : f \in FactoriesBelow(factory) <=>
               f \in DOMAIN Functions /\ \A S : Closes(S, factory) => f \in S
  BY DEF FactoriesBelow, Closes
<1>2. ASSUME NEW f \in FactoriesBelow(factory), NEW d \in ToSet(ExceptionsOf(f).delegates)
      PROVE  d \in FactoriesBelow(factory)
  <2>1. d \in DOMAIN Functions
    BY <1>1, <1>2, FactoriesAssumption DEF ToSet
  <2>2. \A S : Closes(S, factory) => d \in S
    BY <1>1, <1>2 DEF Closes
  <2> QED BY <1>1, <2>1, <2>2
<1>3. factory \in FactoriesBelow(factory) /\ FactoriesBelow(factory) \subseteq DOMAIN Functions
  BY <1>1 DEF Closes
<1> QED BY <1>1, <1>2, <1>3 DEF Closes

\* What is below a factory is itself or below one of its delegates.
LEMMA BelowDelegates ==
    ASSUME NEW factory \in DOMAIN Functions, NEW f \in FactoriesBelow(factory), f # factory
    PROVE  \E d \in ToSet(ExceptionsOf(factory).delegates) :
              d \in DOMAIN Functions /\ f \in FactoriesBelow(d)
<1> DEFINE ds == ToSet(ExceptionsOf(factory).delegates)
           S == {factory} \cup UNION {FactoriesBelow(d) : d \in ds}
<1>1. ds \subseteq DOMAIN Functions
  BY FactoriesAssumption DEF ToSet
<1>2. \A d \in ds : Closes(FactoriesBelow(d), d)
  BY <1>1, BelowCloses
<1>3. Closes(S, factory)
  BY <1>1, <1>2 DEF Closes
<1>4. f \in S
  BY <1>3, BelowCloses
<1> QED BY <1>1, <1>4

-----------------------------------------------------------------------------
(* The judgement of an answer.                                             *)

\* A function that is left out is a view or public.
LEMMA LeftOutIsPublic ==
    ASSUME NEW c, NEW fn, c.factory \in DOMAIN Functions,
           fn \in ToSet(Functions[c.factory]), fn.mutable, ~Calls(c, fn)
    PROVE  IsPublic(c, fn)
<1> DEFINE x == ExceptionsOf(c.factory)
<1>1. /\ \A n \in DOMAIN x.implOverride : x.implOverride[n] # Skip
      /\ fn.name \notin DOMAIN x.implOverride
  BY CatalogAssumption DEF ReasonsIn
<1>2. Exception(c, fn) = Skip
  BY DEF Calls
<1>3. \E n \in {fn.name, fn.short} : n \in DOMAIN ExceptionList(c) /\ ExceptionList(c)[n] = Skip
  <2>1. CASE fn.name \in DOMAIN ExceptionList(c)
    BY <1>2, <2>1 DEF Exception
  <2>2. CASE fn.name \notin DOMAIN ExceptionList(c) /\ fn.short \in DOMAIN ExceptionList(c)
    BY <1>2, <2>2 DEF Exception
  <2>3. CASE fn.name \notin DOMAIN ExceptionList(c) /\ fn.short \notin DOMAIN ExceptionList(c)
    BY <1>2, <2>3 DEF Exception, Skip
  <2> QED BY <2>1, <2>2, <2>3
<1>4. \A n \in DOMAIN ExceptionList(c) :
         ExceptionList(c)[n] = Skip => n \in DOMAIN x.functions /\ x.functions[n] = Skip
  BY <1>1 DEF ExceptionList
<1> QED BY <1>3, <1>4 DEF IsPublic

\* A call that is lost is never taken for a refusal.
LEMMA LostIsNoReason ==
    ASSUME NEW c, NEW fn, c.factory \in DOMAIN Functions
    PROVE  ~IsExpectedError(c, fn, Lost)
<1> DEFINE x == ExceptionsOf(c.factory)
<1>1. Lost \notin x.reasons /\ Lost \notin ReasonsIn(x.functions) /\ Lost \notin ReasonsIn(x.implOverride)
  BY CatalogAssumption
<1>2. Lost \notin ExpectedReverts(c)
  BY <1>1 DEF ExpectedReverts, DEFAULT_REVERTS, Lost
<1>3. \A n \in DOMAIN ExceptionList(c) : ExceptionList(c)[n] # Lost
  BY <1>1 DEF ExceptionList, ReasonsIn
<1>4. Exception(c, fn) # Lost
  <2>1. CASE fn.name \in DOMAIN ExceptionList(c)
    BY <1>3, <2>1 DEF Exception
  <2>2. CASE fn.name \notin DOMAIN ExceptionList(c) /\ fn.short \in DOMAIN ExceptionList(c)
    BY <1>3, <2>2 DEF Exception
  <2>3. CASE fn.name \notin DOMAIN ExceptionList(c) /\ fn.short \notin DOMAIN ExceptionList(c)
    BY <2>3 DEF Exception, Lost
  <2> QED BY <2>1, <2>2, <2>3
<1>5. Lost # NullCall
  BY DEF Lost, NullCall
<1> QED BY <1>2, <1>4, <1>5 DEF IsExpectedError

\* An answer that is proper is expected.
LEMMA ProperIsExpected ==
    ASSUME NEW c, NEW fn, NEW answer, c.factory \in DOMAIN Functions, c.proxy \in BOOLEAN,
           fn \in ToSet(Functions[c.factory]), Calls(c, fn),
           ~IsPublic(c, fn) => answer \in ReasonFor(c, fn)
    PROVE  answer # Open /\ IsExpectedError(c, fn, answer)
<1> DEFINE x == ExceptionsOf(c.factory)
           lists == IF c.proxy \/ fn.short \notin DOMAIN x.implOverride
                    THEN x.functions ELSE x.implOverride
<1>1. /\ fn.name \notin DOMAIN x.implOverride
      /\ fn.name \in DOMAIN x.functions => x.functions[fn.name] = Skip
      /\ fn.short \in DOMAIN x.implOverride \cap DOMAIN x.functions => x.functions[fn.short] # Skip
      /\ (x.reasons \cup ReasonsIn(x.functions) \cup ReasonsIn(x.implOverride))
            \cap {Open, NoReason, Lost} = {}
  BY CatalogAssumption
<1>2. fn.mutable /\ Exception(c, fn) # Skip
  BY DEF Calls
<1>3. /\ c.proxy => ExceptionList(c) = x.functions
      /\ ~IsImpl(c) => ExceptionList(c) = x.functions
      /\ IsImpl(c) => /\ DOMAIN ExceptionList(c) = DOMAIN x.implOverride \cup DOMAIN x.functions
                      /\ \A n \in DOMAIN ExceptionList(c) :
                           ExceptionList(c)[n] = IF n \in DOMAIN x.implOverride
                                                 THEN x.implOverride[n] ELSE x.functions[n]
  BY DEF ExceptionList, IsImpl
<1>4. ~IsImpl(c) => c.proxy \/ x.implOverride = <<>>
  BY DEF IsImpl
<1>5. fn.name \notin DOMAIN ExceptionList(c)
  <2>1. SUFFICES ASSUME fn.name \in DOMAIN ExceptionList(c) PROVE FALSE
    OBVIOUS
  <2>2. ExceptionList(c)[fn.name] = Skip
    BY <1>1, <1>3, <2>1
  <2> QED BY <1>2, <2>1, <2>2 DEF Exception
<1>6. fn.name \notin DOMAIN x.functions
  BY <1>3, <1>5
<1>7. fn.short \in DOMAIN ExceptionList(c) <=> fn.short \in DOMAIN lists
  BY <1>3, <1>4 DEF IsImpl
<1>8. fn.short \in DOMAIN lists => ExceptionList(c)[fn.short] = lists[fn.short]
  BY <1>3, <1>4 DEF IsImpl
<1>9. CASE fn.short \in DOMAIN lists
  <2>1. Exception(c, fn) = lists[fn.short]
    BY <1>5, <1>7, <1>8, <1>9 DEF Exception
  <2>2. ~IsPublic(c, fn)
    BY <1>1, <1>2, <1>6, <1>9, <2>1 DEF IsPublic
  <2>3. answer = lists[fn.short]
    BY <1>9, <2>2 DEF ReasonFor
  <2>4. answer \notin {Open, NoReason, Lost}
    BY <1>1, <1>9, <2>3 DEF ReasonsIn
  <2> QED BY <2>1, <2>3, <2>4 DEF IsExpectedError, HasReason
<1>10. CASE fn.short \notin DOMAIN lists
  <2>1. Exception(c, fn) = "undefined"
    BY <1>5, <1>7, <1>10 DEF Exception
  <2>2. fn.short \notin DOMAIN x.functions
    BY <1>10
  <2>3. ~IsPublic(c, fn)
    BY <1>6, <2>2 DEF IsPublic
  <2>4. answer \in ExpectedReverts(c)
    BY <1>10, <2>3 DEF ReasonFor, ExpectedReverts
  <2>5. answer \notin {Open, NoReason, Lost}
    BY <1>1, <2>4 DEF ExpectedReverts, DEFAULT_REVERTS, Open, NoReason, Lost
  <2> QED BY <2>1, <2>4, <2>5 DEF IsExpectedError, HasReason
<1> QED BY <1>9, <1>10

-----------------------------------------------------------------------------
(* The inductive invariant: what is reached from the file is closed, or    *)
(* below a contract that is still to be looked at.                         *)

ToLookAt ==
    ToSet(Entries) \cup {Contract(e.at, f, e.proxy) : e \in ToSet(Entries), f \in DOMAIN Functions}

TypeInv ==
    /\ queue \in Seq(ToLookAt) /\ pos \in Nat \ {0} /\ known \in KnownFactories
    /\ hasErrors \in BOOLEAN /\ hasUnknown \in BOOLEAN /\ lost \in BOOLEAN
    /\ result \in {"starting", "skipped", "running", "failed", "passed"}

Refuses(c, fn) == fn.mutable /\ ~IsPublic(c, fn) => answers[<<c.at, fn.name>>] # Open

Closed(c) == \A fn \in ToSet(Functions[c.factory]) : Refuses(c, fn)

ClosedSoFar ==
    \A k \in 1..Len(Functions[Current.factory]) :
       k < pos => Refuses(Current, Functions[Current.factory][k])

Reaches(q, c) ==
    /\ q.at = c.at /\ q.proxy = c.proxy
    /\ q.factory \in DOMAIN Functions /\ c.factory \in FactoriesBelow(q.factory)

IsAhead(c) == \E q \in ToSet(queue) : Reaches(q, c)

LookedAtOrAhead == hasUnknown \/ \A c \in Surface : Closed(c) \/ IsAhead(c)

HeadIsChecked == queue # <<>> => IF Known THEN hasErrors \/ ClosedSoFar ELSE pos = 1

\* The task does not get past an error.
ErrorsStay ==
    /\ hasErrors => queue # <<>> /\ Known
    /\ lost => hasErrors \/ result = "failed"
    /\ result = "passed" => queue = <<>> /\ ~hasUnknown
    /\ result = "skipped" => ~Supported

ClosedInv == TypeInv /\ LookedAtOrAhead /\ HeadIsChecked /\ ErrorsStay

\* The contracts of the queue.
LEMMA ToLookAtArePlaces == \A c \in ToLookAt : Place(c)
BY EntriesAre DEF ToLookAt, Place, Contract

\* The contracts that are reached are reached from an entry.
LEMMA SurfaceIsReached ==
    /\ \A c \in Surface : /\ Place(c) /\ c.factory \in DOMAIN Functions
                          /\ \E e \in ToSet(Entries) : Reaches(e, c)
    /\ \A c : Place(c) /\ (\E e \in ToSet(Entries) : Reaches(e, c)) => c \in Surface
<1>1. ASSUME NEW c \in Surface
      PROVE  /\ Place(c) /\ c.factory \in DOMAIN Functions
             /\ \E e \in ToSet(Entries) : Reaches(e, c)
  <2>1. PICK e \in ToSet(Entries) : e.factory \in DOMAIN Functions
              /\ \E f \in FactoriesBelow(e.factory) : c = Contract(e.at, f, e.proxy)
    BY <1>1 DEF Surface
  <2>2. PICK f \in FactoriesBelow(e.factory) : c = Contract(e.at, f, e.proxy)
    BY <2>1
  <2>3. f \in DOMAIN Functions
    BY <2>1, BelowCloses DEF Closes
  <2>4. Place(e)
    BY EntriesAre
  <2> QED BY <2>1, <2>2, <2>3, <2>4 DEF Place, Contract, Reaches
<1>2. ASSUME NEW c, Place(c), NEW e \in ToSet(Entries), Reaches(e, c)
      PROVE  c \in Surface
  BY <1>2 DEF Place, Reaches, Surface
<1> QED BY <1>1, <1>2

\* What the last of the functions of a contract is past leaves it closed, and the
\* rest of what it reaches is ahead.
LEMMA DelegatesAreAhead ==
    ASSUME NEW q, NEW c, Place(q), Place(c), Reaches(q, c), c # q
    PROVE  \E d \in ToSet(Delegates(q)) : Reaches(d, c)
<1>1. c.factory # q.factory
  BY DEF Reaches, Place
<1>2. PICK d \in ToSet(ExceptionsOf(q.factory).delegates) :
         d \in DOMAIN Functions /\ c.factory \in FactoriesBelow(d)
  BY <1>1, BelowDelegates DEF Reaches
<1>3. PICK i \in DOMAIN ExceptionsOf(q.factory).delegates : d = ExceptionsOf(q.factory).delegates[i]
  BY FactoriesAssumption DEF ToSet, Reaches
<1> DEFINE t == Contract(q.at, d, q.proxy)
<1>4. i \in DOMAIN Delegates(q) /\ Delegates(q)[i] = t
  BY <1>3 DEF Delegates
<1>5. t \in ToSet(Delegates(q))
  BY <1>4 DEF ToSet
<1>6. Reaches(t, c)
  BY <1>2 DEF Reaches, Contract
<1> QED BY <1>5, <1>6

\* The delegates of a contract of the queue are such contracts.
LEMMA DelegatesAre ==
    ASSUME NEW q \in ToLookAt, q.factory \in DOMAIN Functions
    PROVE  /\ Delegates(q) \in Seq(ToLookAt)
           /\ \A d \in ToSet(Delegates(q)) :
                \E f \in ToSet(ExceptionsOf(q.factory).delegates) : d = Contract(q.at, f, q.proxy)
<1> DEFINE fs == ExceptionsOf(q.factory).delegates
           n == Len(fs)
           ds == Delegates(q)
<1>1. fs \in Seq(DOMAIN Functions) /\ n \in Nat /\ DOMAIN fs = 1..n
  BY FactoriesAssumption
<1>2. \A f \in DOMAIN Functions : Contract(q.at, f, q.proxy) \in ToLookAt
  <2>1. PICK e \in ToSet(Entries) : q.at = e.at /\ q.proxy = e.proxy
    BY DEF ToLookAt, Contract
  <2> QED BY <2>1 DEF ToLookAt
<1>3. ds = [i \in 1..n |-> Contract(q.at, fs[i], q.proxy)]
  BY <1>1 DEF Delegates
<1>4. ds = [i \in 1..n |-> ds[i]] /\ \A i \in 1..n : ds[i] \in ToLookAt /\ ds[i] = Contract(q.at, fs[i], q.proxy)
  BY <1>1, <1>2, <1>3
<1>5. ASSUME NEW d \in ToSet(ds)
      PROVE  \E f \in ToSet(fs) : d = Contract(q.at, f, q.proxy)
  <2> HIDE DEF ds
  <2>1. PICK i \in 1..n : d = ds[i]
    BY <1>4, <1>5 DEF ToSet
  <2>2. fs[i] \in ToSet(fs)
    BY <1>1, <2>1 DEF ToSet
  <2> QED BY <1>4, <2>1, <2>2
<1> HIDE DEF ds, n
<1>6. [i \in 1..n |-> ds[i]] \in Seq(ToLookAt)
  BY <1>1, <1>4
<1>7. ds \in Seq(ToLookAt)
  BY <1>4, <1>6
<1> QED BY <1>5, <1>7 DEF ds

\* The elements of a queue and of what is behind its head.
LEMMA QueueElements ==
    ASSUME NEW S, NEW s \in Seq(S), s # <<>>
    PROVE  /\ Head(s) \in S /\ Tail(s) \in Seq(S) /\ Head(s) \in ToSet(s)
           /\ ToSet(s) = {Head(s)} \cup ToSet(Tail(s))
<1>1. /\ Head(s) = s[1] /\ 1 \in DOMAIN s /\ DOMAIN s = 1..Len(s) /\ Len(s) \in Nat
      /\ Tail(s) \in Seq(S) /\ Head(s) \in S
      /\ DOMAIN Tail(s) = 1..(Len(s) - 1) /\ \A i \in 1..(Len(s) - 1) : Tail(s)[i] = s[i + 1]
  OBVIOUS
<1>2. ToSet(Tail(s)) \subseteq ToSet(s)
  BY <1>1 DEF ToSet
<1>3. ASSUME NEW i \in DOMAIN s, i # 1 PROVE s[i] \in ToSet(Tail(s))
  <2>1. i - 1 \in 1..(Len(s) - 1) /\ Tail(s)[i - 1] = s[(i - 1) + 1] /\ (i - 1) + 1 = i
    BY <1>1, <1>3
  <2> QED BY <1>1, <2>1 DEF ToSet
<1> QED BY <1>1, <1>2, <1>3 DEF ToSet

\* The elements of a queue that is put before another.
LEMMA JoinedElements ==
    ASSUME NEW S, NEW s \in Seq(S), NEW r \in Seq(S)
    PROVE  r \o s \in Seq(S) /\ ToSet(r \o s) = ToSet(r) \cup ToSet(s)
<1>1. /\ r \o s \in Seq(S) /\ DOMAIN (r \o s) = 1..(Len(r) + Len(s))
      /\ DOMAIN r = 1..Len(r) /\ DOMAIN s = 1..Len(s) /\ Len(r) \in Nat /\ Len(s) \in Nat
      /\ \A i \in 1..Len(r) : (r \o s)[i] = r[i]
      /\ \A i \in 1..Len(s) : (r \o s)[Len(r) + i] = s[i]
  OBVIOUS
<1> DEFINE q == r \o s
<1> HIDE DEF q
<1>2. ASSUME NEW i \in DOMAIN q PROVE q[i] \in ToSet(r) \cup ToSet(s)
  <2>1. CASE i \in 1..Len(r)
    BY <1>1, <2>1 DEF ToSet, q
  <2>2. CASE i \notin 1..Len(r)
    <3>1. i - Len(r) \in 1..Len(s) /\ i = Len(r) + (i - Len(r))
      BY <1>1, <1>2, <2>2 DEF q
    <3>2. q[i] = s[i - Len(r)]
      BY <1>1, <3>1 DEF q
    <3> QED BY <1>1, <3>1, <3>2 DEF ToSet
  <2> QED BY <2>1, <2>2
<1>3. \A i \in DOMAIN r : r[i] \in ToSet(q)
  <2>1. \A i \in DOMAIN r : i \in DOMAIN q /\ q[i] = r[i]
    BY <1>1 DEF q
  <2> QED BY <2>1 DEF ToSet
<1>4. \A i \in DOMAIN s : s[i] \in ToSet(q)
  <2>1. \A i \in DOMAIN s : Len(r) + i \in DOMAIN q /\ q[Len(r) + i] = s[i]
    BY <1>1 DEF q
  <2> QED BY <2>1 DEF ToSet
<1>5. ToSet(q) = ToSet(r) \cup ToSet(s)
  BY <1>2, <1>3, <1>4 DEF ToSet
<1> QED BY <1>1, <1>5 DEF q

-----------------------------------------------------------------------------
(* It holds, and every step keeps it.                                      *)

LEMMA ClosedInvInit == CheckInit => ClosedInv
<1> SUFFICES ASSUME CheckInit PROVE ClosedInv
  OBVIOUS
<1>1. TypeInv
  <2>1. Entries \in Seq(ToLookAt)
    <3>1. ToSet(Entries) \subseteq ToLookAt
      BY DEF ToLookAt
    <3>2. Entries \in Seq(ToSet(Entries))
      BY EntriesAre
    <3> QED BY <3>1, <3>2, LargerSeq
  <2>2. queue \in Seq(ToLookAt) /\ pos \in Nat \ {0} /\ known \in KnownFactories
    BY <2>1 DEF CheckInit
  <2>3. hasErrors \in BOOLEAN /\ hasUnknown \in BOOLEAN /\ lost \in BOOLEAN
    BY DEF CheckInit
  <2>4. result = "starting"
    BY DEF CheckInit
  <2> QED BY <2>2, <2>3, <2>4 DEF TypeInv
<1>2. LookedAtOrAhead
  BY SurfaceIsReached DEF CheckInit, LookedAtOrAhead, IsAhead
<1>3. HeadIsChecked
  BY DEF CheckInit, HeadIsChecked, ClosedSoFar
<1>4. ErrorsStay
  BY DEF CheckInit, ErrorsStay
<1> QED BY <1>1, <1>2, <1>3, <1>4 DEF ClosedInv

\* Nothing of the file is changed by a step.
LEMMA FileStays ==
    ASSUME UNCHANGED chosen
    PROVE  /\ Entries' = Entries /\ ToLookAt' = ToLookAt /\ Surface' = Surface
           /\ \A c : Closed(c)' = Closed(c)
           /\ \A c, fn : Refuses(c, fn)' = Refuses(c, fn)
           /\ \A c : IsForeign(c)' = IsForeign(c)
           /\ Supported' = Supported
BY DEF chosen, Entries, ImplFactory, ToLookAt, Surface, Closed, Refuses, IsForeign, Supported

\* A head that is not known is dropped.
LEMMA HeadIsDropped ==
    ASSUME ClosedInv, Looking, ~Known, queue' = Tail(queue),
           hasUnknown' \in BOOLEAN, hasUnknown => hasUnknown',
           ~hasUnknown' => Current.factory \notin DOMAIN Functions,
           UNCHANGED <<chosen, pos, hasErrors, lost, result>>
    PROVE  ClosedInv'
<1>1. queue # <<>> /\ queue \in Seq(ToLookAt) /\ pos = 1 /\ ~hasErrors
  BY DEF ClosedInv, TypeInv, Looking, HeadIsChecked, ErrorsStay
<1>2. /\ Tail(queue) \in Seq(ToLookAt)
      /\ ToSet(queue) = {Current} \cup ToSet(Tail(queue))
  BY <1>1, QueueElements DEF Current
<1>3. UNCHANGED chosen
  OBVIOUS
<1>4. TypeInv'
  BY <1>2, <1>3, FileStays DEF ClosedInv, TypeInv, chosen
<1>5. LookedAtOrAhead'
  <2>1. SUFFICES ASSUME ~hasUnknown', NEW c \in Surface, ~Closed(c) PROVE IsAhead(c)'
    BY <1>3, FileStays DEF LookedAtOrAhead
  <2>2. PICK q \in ToSet(queue) : Reaches(q, c)
    BY <2>1 DEF ClosedInv, LookedAtOrAhead, IsAhead
  <2>3. q # Current
    BY <2>1, <2>2 DEF Reaches
  <2>4. q \in ToSet(queue')
    BY <1>2, <2>2, <2>3
  <2> QED BY <2>2, <2>4 DEF IsAhead
<1>6. HeadIsChecked'
  BY <1>1 DEF HeadIsChecked, ClosedSoFar
<1>7. ErrorsStay'
  BY <1>1 DEF ClosedInv, ErrorsStay, Looking
<1> QED BY <1>4, <1>5, <1>6, <1>7 DEF ClosedInv

\* A function that is known to refuse strangers is passed.
LEMMA FunctionIsPassed ==
    ASSUME ClosedInv, Looking, Known, HasFunction, pos' = pos + 1,
           UNCHANGED <<chosen, queue, hasUnknown, result>>,
           hasErrors' \in BOOLEAN, lost' \in BOOLEAN, lost' => lost \/ hasErrors',
           hasErrors => hasErrors', Refuses(Current, Function) \/ hasErrors'
    PROVE  ClosedInv'
<1>1. UNCHANGED chosen /\ queue # <<>> /\ pos \in Nat \ {0}
  BY DEF ClosedInv, TypeInv, Looking
<1>2. TypeInv'
  BY <1>1, FileStays DEF ClosedInv, TypeInv, chosen
<1>3. LookedAtOrAhead'
  BY <1>1, FileStays DEF ClosedInv, LookedAtOrAhead, IsAhead
<1>4. Current' = Current /\ Known'
  BY <1>1 DEF Current, Known, chosen
<1>5. HeadIsChecked'
  <2>1. SUFFICES ASSUME ~hasErrors' PROVE ClosedSoFar'
    BY <1>4 DEF HeadIsChecked
  <2>2. ClosedSoFar
    BY <1>1, <2>1 DEF ClosedInv, HeadIsChecked
  <2>3. SUFFICES ASSUME NEW k \in 1..Len(Functions[Current.factory]), k < pos + 1
                 PROVE  Refuses(Current, Functions[Current.factory][k])
    BY <1>1, <1>4, FileStays DEF ClosedSoFar
  <2>4. CASE k = pos
    BY <2>1, <2>4 DEF Function
  <2>5. CASE k # pos
    BY <1>1, <2>2, <2>3, <2>5 DEF ClosedSoFar
  <2> QED BY <2>4, <2>5
<1>6. ErrorsStay'
  BY <1>1, <1>4 DEF ClosedInv, ErrorsStay, Looking
<1> QED BY <1>2, <1>3, <1>5, <1>6 DEF ClosedInv

\* A task that fails leaves the rest as it is.
LEMMA FailingKeeps ==
    ASSUME ClosedInv, Looking, result' = "failed", lost' \in BOOLEAN,
           UNCHANGED <<chosen, queue, pos, hasErrors, hasUnknown>>
    PROVE  ClosedInv'
<1>1. UNCHANGED chosen
  OBVIOUS
<1>2. TypeInv'
  BY <1>1, FileStays DEF ClosedInv, TypeInv, chosen
<1>3. LookedAtOrAhead'
  BY <1>1, FileStays DEF ClosedInv, LookedAtOrAhead, IsAhead
<1>4. Current' = Current /\ Known' = Known
  BY DEF Current, Known, chosen
<1>5. HeadIsChecked'
  BY <1>1, <1>4, FileStays DEF ClosedInv, HeadIsChecked, ClosedSoFar
<1>6. ErrorsStay'
  BY <1>4 DEF ClosedInv, ErrorsStay
<1> QED BY <1>2, <1>3, <1>5, <1>6 DEF ClosedInv

\* A contract that is done makes room for its delegates.
LEMMA EndContractKeeps ==
    ASSUME ClosedInv, EndContract PROVE ClosedInv'
<1> USE DEF EndContract
<1>1. CASE hasErrors
  <2>1. lost' \in BOOLEAN
    BY DEF ClosedInv, TypeInv
  <2> QED BY <1>1, <2>1, FailingKeeps
<1>2. CASE ~hasErrors
  <2>1. /\ queue \in Seq(ToLookAt) /\ queue # <<>> /\ Current.factory \in DOMAIN Functions
        /\ UNCHANGED chosen
    BY FactoriesAssumption DEF ClosedInv, TypeInv, Looking, Known
  <2>2. /\ Current \in ToLookAt /\ Tail(queue) \in Seq(ToLookAt)
        /\ ToSet(queue) = {Current} \cup ToSet(Tail(queue))
    BY <2>1, QueueElements DEF Current
  <2>3. Delegates(Current) \in Seq(ToLookAt)
    BY <2>1, <2>2, DelegatesAre
  <2>4. /\ queue' \in Seq(ToLookAt)
        /\ ToSet(queue') = ToSet(Delegates(Current)) \cup ToSet(Tail(queue))
    <3>1. queue' = Delegates(Current) \o Tail(queue)
      BY <1>2
    <3> QED BY <2>2, <2>3, <3>1, JoinedElements
  <2>5. TypeInv'
    BY <1>2, <2>1, <2>4, FileStays DEF ClosedInv, TypeInv, chosen
  <2>6. Closed(Current)
    <3>1. ClosedSoFar
      BY <1>2, <2>1 DEF ClosedInv, HeadIsChecked
    <3>2. /\ Functions[Current.factory] \in Seq([name : STRING, short : STRING, mutable : BOOLEAN])
          /\ pos \in Nat
      BY <2>1, FactoriesAssumption DEF ClosedInv, TypeInv
    <3>3. ASSUME NEW fn \in ToSet(Functions[Current.factory]) PROVE Refuses(Current, fn)
      <4>1. PICK k \in 1..Len(Functions[Current.factory]) : fn = Functions[Current.factory][k]
        BY <3>2 DEF ToSet
      <4>2. k < pos
        BY <3>2, <4>1 DEF HasFunction
      <4> QED BY <3>1, <4>1, <4>2 DEF ClosedSoFar
    <3> QED BY <3>3 DEF Closed
  <2>7. LookedAtOrAhead'
    <3>1. SUFFICES ASSUME ~hasUnknown, NEW c \in Surface, ~Closed(c) PROVE IsAhead(c)'
      BY <2>1, FileStays DEF LookedAtOrAhead
    <3>2. PICK q \in ToSet(queue) : Reaches(q, c)
      BY <3>1 DEF ClosedInv, LookedAtOrAhead, IsAhead
    <3>3. CASE q = Current
      <4>1. Place(q) /\ Place(c) /\ c # q
        BY <2>2, <2>6, <3>1, <3>3, ToLookAtArePlaces, SurfaceIsReached
      <4>2. PICK d \in ToSet(Delegates(Current)) : Reaches(d, c)
        BY <3>2, <3>3, <4>1, DelegatesAreAhead
      <4>3. d \in ToSet(queue')
        BY <2>4
      <4> QED BY <4>2, <4>3 DEF IsAhead
    <3>4. CASE q # Current
      <4>1. q \in ToSet(queue')
        BY <2>2, <2>4, <3>2, <3>4
      <4> QED BY <3>2, <4>1 DEF IsAhead
    <3> QED BY <3>3, <3>4
  <2>8. HeadIsChecked'
    BY <1>2 DEF HeadIsChecked, ClosedSoFar
  <2>9. ErrorsStay'
    BY <1>2 DEF ClosedInv, ErrorsStay, Looking
  <2> QED BY <2>5, <2>7, <2>8, <2>9 DEF ClosedInv
<1> QED BY <1>1, <1>2

\* A function that is called either refuses or is noted.
LEMMA CallKeeps ==
    ASSUME ClosedInv, CallFunction PROVE ClosedInv'
<1> USE DEF CallFunction
<1>1. Current.factory \in DOMAIN Functions /\ lost \in BOOLEAN /\ hasErrors \in BOOLEAN
  BY FactoriesAssumption DEF ClosedInv, TypeInv, Known
<1>2. PICK answer \in {answers[<<Current.at, Function.name>>], Lost} :
        /\ lost' = (lost \/ answer = Lost)
        /\ IF answer # Open /\ IsExpectedError(Current, Function, answer)
           THEN pos' = pos + 1 /\ UNCHANGED <<hasErrors, result>>
           ELSE IF checkAll
           THEN pos' = pos + 1 /\ hasErrors' = TRUE /\ UNCHANGED result
           ELSE result' = "failed" /\ UNCHANGED <<pos, hasErrors>>
  OBVIOUS
<1>3. lost' \in BOOLEAN
  BY <1>1, <1>2
<1>4. CASE answer # Open /\ IsExpectedError(Current, Function, answer)
  <2>1. answer # Lost
    BY <1>1, <1>4, LostIsNoReason
  <2>2. answer = answers[<<Current.at, Function.name>>]
    BY <1>2, <2>1
  <2>3. Refuses(Current, Function)
    BY <1>4, <2>2 DEF Refuses
  <2>4. /\ pos' = pos + 1 /\ hasErrors' = hasErrors /\ lost' = lost /\ result' = result
    BY <1>1, <1>2, <1>4, <2>1
  <2> QED BY <1>1, <1>3, <2>3, <2>4, FunctionIsPassed
<1>5. CASE ~(answer # Open /\ IsExpectedError(Current, Function, answer)) /\ checkAll
  <2>1. pos' = pos + 1 /\ hasErrors' = TRUE /\ result' = result
    BY <1>2, <1>5
  <2> QED BY <1>3, <2>1, FunctionIsPassed
<1>6. CASE ~(answer # Open /\ IsExpectedError(Current, Function, answer)) /\ ~checkAll
  <2>1. result' = "failed" /\ UNCHANGED <<pos, hasErrors>>
    BY <1>2, <1>6
  <2> QED BY <1>3, <2>1, FailingKeeps
<1> QED BY <1>4, <1>5, <1>6

\* The task begins with nothing looked at.
LEMMA BeginKeeps ==
    ASSUME ClosedInv, NEW outcome \in {"skipped", "failed", "running"}, Begin(outcome),
           outcome = "skipped" => ~Supported
    PROVE  ClosedInv'
<1>1. /\ UNCHANGED chosen /\ UNCHANGED <<queue, pos, hasErrors, hasUnknown, lost>>
      /\ result = "starting" /\ result' = outcome
  BY DEF Begin
<1>2. Current' = Current /\ Known' = Known
  BY <1>1 DEF Current, Known, chosen
<1>3. TypeInv' /\ LookedAtOrAhead' /\ HeadIsChecked'
  BY <1>1, <1>2, FileStays
     DEF ClosedInv, TypeInv, LookedAtOrAhead, IsAhead, HeadIsChecked, ClosedSoFar, chosen
<1>4. ErrorsStay'
  BY <1>1, <1>2, FileStays DEF ClosedInv, ErrorsStay
<1> QED BY <1>3, <1>4 DEF ClosedInv

\* Every step keeps the invariant.
LEMMA ClosedInvStep == ClosedInv /\ [CheckNext]_checkVars => ClosedInv'
<1> SUFFICES ASSUME ClosedInv, [CheckNext]_checkVars PROVE ClosedInv'
  OBVIOUS
<1>1. CASE UnknownFactory
  <2>1. CASE checkAll
    BY <1>1, <2>1, HeadIsDropped DEF UnknownFactory
  <2>2. CASE ~checkAll
    <3>1. lost' \in BOOLEAN
      BY <1>1 DEF UnknownFactory, ClosedInv, TypeInv
    <3> QED BY <1>1, <2>2, <3>1, FailingKeeps DEF UnknownFactory
  <2> QED BY <2>1, <2>2
<1>2. CASE SkipForeign
  <2>1. Current.factory \notin DOMAIN Functions /\ ~Known
    BY <1>2, FactoriesAssumption DEF SkipForeign, Known, ClosedInv, TypeInv
  <2>2. hasUnknown' \in BOOLEAN
    BY <1>2 DEF SkipForeign, ClosedInv, TypeInv
  <2> QED BY <1>2, <2>1, <2>2, HeadIsDropped DEF SkipForeign
<1>3. CASE UnknownImplementation
  <2>1. lost' \in BOOLEAN
    BY <1>3 DEF UnknownImplementation, ClosedInv, TypeInv
  <2> QED BY <1>3, <2>1, FailingKeeps DEF UnknownImplementation
<1>4. CASE SkipFunction
  <2>1. /\ Current.factory \in DOMAIN Functions /\ pos \in Nat \ {0}
        /\ Functions[Current.factory] \in Seq([name : STRING, short : STRING, mutable : BOOLEAN])
    BY <1>4, FactoriesAssumption DEF SkipFunction, Known, ClosedInv, TypeInv
  <2>2. Function \in ToSet(Functions[Current.factory])
    BY <1>4, <2>1 DEF SkipFunction, HasFunction, Function, ToSet
  <2>3. Refuses(Current, Function)
    BY <1>4, <2>1, <2>2, LeftOutIsPublic DEF SkipFunction, Refuses
  <2>4. hasErrors' \in BOOLEAN /\ lost' \in BOOLEAN
    BY <1>4 DEF SkipFunction, ClosedInv, TypeInv
  <2> QED BY <1>4, <2>3, <2>4, FunctionIsPassed DEF SkipFunction
<1>5. CASE CallFunction
  BY <1>5, CallKeeps
<1>6. CASE EndContract
  BY <1>6, EndContractKeeps
<1>7. CASE EndTask
  <2>1. UNCHANGED <<chosen, queue, pos, hasErrors, hasUnknown, lost>> /\ queue = <<>>
        /\ result' = IF hasUnknown THEN "failed" ELSE "passed"
    BY <1>7 DEF EndTask
  <2>2. TypeInv'
    BY <2>1, FileStays DEF ClosedInv, TypeInv, chosen
  <2>3. LookedAtOrAhead'
    BY <2>1, FileStays DEF ClosedInv, LookedAtOrAhead, IsAhead
  <2>4. HeadIsChecked' /\ ErrorsStay'
    BY <1>7, <2>1 DEF ClosedInv, HeadIsChecked, ErrorsStay, EndTask
  <2> QED BY <2>2, <2>3, <2>4 DEF ClosedInv
<1>8. CASE UNCHANGED checkVars
  <2>1. UNCHANGED chosen /\ UNCHANGED <<queue, pos, hasErrors, hasUnknown, lost, result>>
    BY <1>8 DEF checkVars, chosen
  <2>2. Current' = Current /\ Known' = Known
    BY <2>1 DEF Current, Known, chosen
  <2> QED BY <2>1, <2>2, FileStays
          DEF ClosedInv, TypeInv, LookedAtOrAhead, IsAhead, HeadIsChecked, ClosedSoFar, ErrorsStay, chosen
<1>9. CASE SkipTest \/ NoStranger \/ StartTest
  BY <1>9, BeginKeeps DEF SkipTest, NoStranger, StartTest
<1> QED BY <1>1, <1>2, <1>3, <1>4, <1>5, <1>6, <1>7, <1>8, <1>9 DEF CheckNext

\* A deployment that goes on after the access test is closed, on every network
\* that supports the test: no call was lost, and no function that is neither a
\* view nor public lets a stranger through, of all the contracts, proxies and
\* delegates that are reached from the file.
THEOREM GoesOnWhenClosed ==
    CheckSpec => [](GoesOn /\ Supported => ~StrangerGetsIn /\ ~lost)
<1>1. ClosedInv => (GoesOn /\ Supported => ~StrangerGetsIn /\ ~lost)
  <2>1. SUFFICES ASSUME ClosedInv, GoesOn, Supported PROVE ~StrangerGetsIn /\ ~lost
    OBVIOUS
  <2>2. result = "passed"
    BY <2>1 DEF ClosedInv, ErrorsStay, GoesOn
  <2>3. queue = <<>> /\ ~hasUnknown /\ ~lost
    BY <2>1, <2>2 DEF ClosedInv, ErrorsStay
  <2>4. ~ \E q : q \in ToSet(queue)
    BY <2>3 DEF ToSet
  <2>5. \A c \in Surface : Closed(c)
    BY <2>1, <2>3, <2>4 DEF ClosedInv, LookedAtOrAhead, IsAhead
  <2> QED BY <2>3, <2>5 DEF StrangerGetsIn, Closed, Refuses
<1> QED BY <1>1, ClosedInvInit, ClosedInvStep, PTL DEF CheckSpec

-----------------------------------------------------------------------------
(* A proper deployment.                                                    *)

ToBeSkipped(q) == q.factory = NoFactory /\ IsForeign(q)

ProperInv ==
    Proper /\ hasUser =>
       /\ ~hasUnknown /\ (hasErrors => lost) /\ (result = "failed" => lost)
       /\ \A q \in ToSet(queue) : ToBeSkipped(q) \/ q \in Surface

\* All that is reached from the file of a proper deployment is known.
LEMMA ProperIsKnown ==
    ASSUME Proper, known \in KnownFactories
    PROVE  /\ \A c \in Surface : c.factory \in known
           /\ \A e \in ToSet(Entries) : ToBeSkipped(e) \/ e \in Surface
<1>1. \A e \in ToSet(Entries) : IsForeign(e) => ToBeSkipped(e)
  BY EntriesAre, RecordsAssumption DEF IsForeign, IsEntry, ImplFactory, ToBeSkipped
<1>2. ASSUME NEW c \in Surface PROVE c.factory \in known
  <2>1. PICK e \in ToSet(Entries) : Reaches(e, c)
    BY SurfaceIsReached
  <2>2. ~IsForeign(e)
    BY <1>1, <2>1, FactoriesAssumption DEF Reaches, ToBeSkipped
  <2> QED BY <2>1, <2>2 DEF Proper, Reaches
<1>3. ASSUME NEW e \in ToSet(Entries), ~IsForeign(e) PROVE e \in Surface
  <2>1. e.factory \in DOMAIN Functions
    BY <1>3, FactoriesAssumption DEF Proper
  <2>2. Reaches(e, e)
    BY <2>1, BelowCloses DEF Reaches, Closes
  <2> QED BY <2>2, EntriesAre, SurfaceIsReached
<1> QED BY <1>1, <1>2, <1>3

\* What is proper stays so.
LEMMA ProperStays == ASSUME UNCHANGED chosen PROVE Proper' = Proper /\ hasUser' = hasUser
BY FileStays DEF Proper, IsForeign, chosen

\* The delegates of what is reached are reached.
LEMMA DelegatesAreReached ==
    ASSUME NEW q \in Surface PROVE ToSet(Delegates(q)) \subseteq Surface
<1>1. SUFFICES ASSUME NEW d \in ToSet(Delegates(q)) PROVE d \in Surface
  OBVIOUS
<1>2. PICK e \in ToSet(Entries) : Reaches(e, q)
  BY SurfaceIsReached
<1>3. Place(q) /\ q.factory \in DOMAIN Functions
  BY SurfaceIsReached
<1>4. q \in ToLookAt
  BY <1>2, <1>3 DEF ToLookAt, Place, Reaches
<1>5. PICK f \in ToSet(ExceptionsOf(q.factory).delegates) : d = Contract(q.at, f, q.proxy)
  BY <1>1, <1>3, <1>4, DelegatesAre
<1>6. f \in FactoriesBelow(e.factory)
  BY <1>2, <1>5, BelowCloses DEF Reaches, Closes
<1>7. Place(d) /\ Reaches(e, d)
  BY <1>2, <1>3, <1>5, <1>6 DEF Place, Reaches, Contract
<1> QED BY <1>7, SurfaceIsReached

\* A call of a proper deployment that is not lost is answered as expected.
LEMMA ProperAnswer ==
    ASSUME Proper, hasUser, ClosedInv, ProperInv, CallFunction
    PROVE  (hasErrors' => lost') /\ (result' = "failed" => lost')
<1>1. /\ Current \in Surface /\ Current.factory \in DOMAIN Functions
      /\ Current.proxy \in BOOLEAN
  <2>1. queue \in Seq(ToLookAt) /\ queue # <<>> /\ Current.factory \in DOMAIN Functions
    BY FactoriesAssumption DEF CallFunction, Looking, ClosedInv, TypeInv, Known
  <2>2. Current \in ToSet(queue)
    BY <2>1, QueueElements DEF Current
  <2>3. Current \in Surface
    BY <2>1, <2>2, FactoriesAssumption DEF ProperInv, ToBeSkipped
  <2> QED BY <2>1, <2>3, SurfaceIsReached DEF Place
<1>2. Function \in ToSet(Functions[Current.factory])
  <2>1. Functions[Current.factory] \in Seq([name : STRING, short : STRING, mutable : BOOLEAN])
        /\ pos \in Nat \ {0}
    BY <1>1, FactoriesAssumption DEF ClosedInv, TypeInv
  <2> QED BY <2>1 DEF CallFunction, HasFunction, Function, ToSet
<1> DEFINE own == answers[<<Current.at, Function.name>>]
<1>3. own # Open /\ IsExpectedError(Current, Function, own)
  <2>1. Function.mutable /\ ~IsPublic(Current, Function) => own \in ReasonFor(Current, Function)
    BY <1>1, <1>2 DEF Proper
  <2>2. Function.mutable /\ Calls(Current, Function)
    BY DEF CallFunction, Calls
  <2> QED BY <1>1, <1>2, <2>1, <2>2, ProperIsExpected
<1>4. PICK answer \in {own, Lost} :
        /\ lost' = (lost \/ answer = Lost)
        /\ IF answer # Open /\ IsExpectedError(Current, Function, answer)
           THEN pos' = pos + 1 /\ UNCHANGED <<hasErrors, result>>
           ELSE IF checkAll
           THEN pos' = pos + 1 /\ hasErrors' = TRUE /\ UNCHANGED result
           ELSE result' = "failed" /\ UNCHANGED <<pos, hasErrors>>
  BY DEF CallFunction
<1>5. CASE answer = Lost
  BY <1>4, <1>5
<1>6. CASE answer # Lost
  <2>1. answer # Open /\ IsExpectedError(Current, Function, answer)
    BY <1>3, <1>4, <1>6
  <2>2. UNCHANGED <<hasErrors, result>> /\ lost' = lost
    BY <1>4, <1>6, <2>1 DEF ClosedInv, TypeInv
  <2> QED BY <2>2 DEF ProperInv
<1> QED BY <1>5, <1>6

\* Every step of the test of a proper deployment keeps the invariant.
LEMMA ProperInvStep == ClosedInv /\ ProperInv /\ [CheckNext]_checkVars => ProperInv'
<1> SUFFICES ASSUME ClosedInv, ProperInv, [CheckNext]_checkVars PROVE ProperInv'
  OBVIOUS
<1>1. UNCHANGED chosen
  BY DEF CheckNext, checkVars, chosen, UnknownFactory, SkipForeign, UnknownImplementation, SkipFunction,
         CallFunction, EndContract, EndTask, SkipTest, NoStranger, StartTest, Begin
<1> SUFFICES ASSUME Proper, hasUser
             PROVE  /\ ~hasUnknown' /\ (hasErrors' => lost') /\ (result' = "failed" => lost')
                    /\ \A q \in ToSet(queue') : ToBeSkipped(q) \/ q \in Surface
  BY <1>1, FileStays, ProperStays DEF ProperInv, ToBeSkipped
<1>2. /\ ~hasUnknown /\ (hasErrors => lost) /\ (result = "failed" => lost)
      /\ \A q \in ToSet(queue) : ToBeSkipped(q) \/ q \in Surface
  BY DEF ProperInv
<1>3. queue \in Seq(ToLookAt) /\ known \in KnownFactories
  BY DEF ClosedInv, TypeInv
<1>4. queue # <<>> => /\ Tail(queue) \in Seq(ToLookAt)
                      /\ ToSet(queue) = {Current} \cup ToSet(Tail(queue))
  BY <1>3, QueueElements DEF Current
<1>5. queue # <<>> => ToBeSkipped(Current) \/ (Current \in Surface /\ Known)
  BY <1>2, <1>3, <1>4, ProperIsKnown DEF Known
<1>6. ~UnknownFactory
  BY <1>5 DEF UnknownFactory, Looking, ToBeSkipped
<1>7. ~UnknownImplementation
  BY <1>3, <1>5, FactoriesAssumption DEF UnknownImplementation, Looking, ToBeSkipped, Known
<1>8. CASE SkipForeign
  BY <1>2, <1>4, <1>8 DEF SkipForeign, Looking
<1>9. CASE SkipFunction
  BY <1>2, <1>9 DEF SkipFunction
<1>10. CASE CallFunction
  BY <1>2, <1>10, ProperAnswer DEF CallFunction
<1>11. CASE EndContract
  <2>1. CASE hasErrors
    BY <1>2, <1>11, <2>1 DEF EndContract
  <2>2. CASE ~hasErrors
    <3>1. /\ queue # <<>> /\ Current \in Surface
          /\ queue' = Delegates(Current) \o Tail(queue)
          /\ UNCHANGED <<hasErrors, hasUnknown, lost, result>>
      BY <1>3, <1>5, <1>11, <2>2, FactoriesAssumption DEF EndContract, Looking, ToBeSkipped, Known
    <3>2. ToSet(Delegates(Current)) \subseteq Surface
      BY <3>1, DelegatesAreReached
    <3>3. Delegates(Current) \in Seq(ToLookAt)
      <4>1. Current \in ToLookAt /\ Current.factory \in DOMAIN Functions
        BY <1>3, <3>1, QueueElements, SurfaceIsReached DEF Current
      <4> QED BY <4>1, DelegatesAre
    <3>4. ToSet(queue') = ToSet(Delegates(Current)) \cup ToSet(Tail(queue))
      BY <1>4, <3>1, <3>3, JoinedElements
    <3> QED BY <1>2, <1>4, <3>1, <3>2, <3>4
  <2> QED BY <2>1, <2>2
<1>12. CASE EndTask
  BY <1>2, <1>12 DEF EndTask
<1>13. CASE UNCHANGED checkVars
  BY <1>2, <1>13 DEF checkVars
<1>14. CASE SkipTest \/ NoStranger \/ StartTest
  BY <1>2, <1>14 DEF SkipTest, NoStranger, StartTest, Begin
<1> QED BY <1>6, <1>7, <1>8, <1>9, <1>10, <1>11, <1>12, <1>13, <1>14 DEF CheckNext

\* With an account to call with, the access test holds a proper deployment up
\* only when a call was lost: each contract in the file is known, nothing is
\* called that is public, and what else there is refuses a stranger for a reason
\* that the test expects of it.
THEOREM ProperFailsOnlyByLoss == CheckSpec => [](Proper /\ hasUser /\ result = "failed" => lost)
<1>1. CheckInit => ProperInv
  <2>1. SUFFICES ASSUME CheckInit, Proper, hasUser
                 PROVE  /\ ~hasUnknown /\ (hasErrors => lost) /\ (result = "failed" => lost)
                        /\ \A q \in ToSet(queue) : ToBeSkipped(q) \/ q \in Surface
    BY DEF ProperInv
  <2>2. known \in KnownFactories /\ queue = Entries
    BY <2>1 DEF CheckInit
  <2>3. ~hasUnknown /\ ~hasErrors /\ result # "failed"
    BY <2>1 DEF CheckInit
  <2> QED BY <2>1, <2>2, <2>3, ProperIsKnown
<1>2. ProperInv => (Proper /\ hasUser /\ result = "failed" => lost)
  BY DEF ProperInv
<1> QED BY <1>1, <1>2, ClosedInvInit, ClosedInvStep, ProperInvStep, PTL DEF CheckSpec
=============================================================================
