------------------------------ MODULE FoldLemmas ------------------------------
(***************************************************************************)
(* Lemmas about the folds of the community modules, which the proofs about *)
(* loops and sums need.  A property is a set and a step is a function, so  *)
(* that the provers can be given them.                                     *)
(***************************************************************************)
EXTENDS Integers, Sequences, SequencesExt, Functions, FiniteSetTheorems, TLAPS

-----------------------------------------------------------------------------
(* Induction.                                                              *)

\* Induction over the subsets of a finite set: a collection of them that has every
\* set whose smaller ones it has, has them all.
LEMMA SubsetInduction ==
    ASSUME NEW S, IsFiniteSet(S), NEW G,
           \A T \in SUBSET S : (\A x \in T : T \ {x} \in G) => T \in G
    PROVE  SUBSET S \subseteq G
<1> SUFFICES ASSUME (SUBSET S) \ G # {} PROVE FALSE
  OBVIOUS
<1>1. IsWellFoundedOn(StrictSubsetOrdering(S), SUBSET S)
  <2>1. IsWellFoundedOn(StrictSubsetOrdering(S), FiniteSubsetsOf(S))
    BY Zenon, FS_StrictSubsetOrderingWellFounded
  <2>2. FiniteSubsetsOf(S) = SUBSET S
    BY Zenon, FS_FiniteSubsetsOfFinite
  <2> QED
    BY <2>1, <2>2
<1>2. PICK T \in (SUBSET S) \ G : \A U \in (SUBSET S) \ G : <<U, T>> \notin StrictSubsetOrdering(S)
  <2> HIDE DEF StrictSubsetOrdering
  <2> QED
    BY <1>1, WFMin
<1>3. \A x \in T : T \ {x} \in G
  <2> SUFFICES ASSUME NEW x \in T, T \ {x} \notin G PROVE FALSE
    OBVIOUS
  <2>1. T \ {x} \in (SUBSET S) \ G
    OBVIOUS
  <2>2. <<T \ {x}, T>> \in StrictSubsetOrdering(S)
    BY DEF StrictSubsetOrdering
  <2> QED
    BY <1>2, <2>1, <2>2
<1> QED
  BY <1>2, <1>3

\* Induction over the numbers up to n.
LEMMA UpToInduction ==
    ASSUME NEW n \in Nat, NEW G, 0 \in G, \A k \in 0..(n - 1) : k \in G => k + 1 \in G
    PROVE  0..n \subseteq G
<1> DEFINE H == {T \in SUBSET (1..n) : Cardinality(T) \in G}
<1>1. IsFiniteSet(1..n) /\ Cardinality(1..n) = n
  BY FS_Interval
<1>2. ASSUME NEW T \in SUBSET (1..n), \A x \in T : T \ {x} \in H
      PROVE  T \in H
  <2>1. IsFiniteSet(T) /\ Cardinality(T) \in 0..n
    <3>1. IsFiniteSet(T) /\ Cardinality(T) <= n
      BY <1>1, FS_Subset
    <3> QED
      BY <3>1, FS_CardinalityType
  <2>2. CASE T = {}
    BY <2>2, FS_EmptySet
  <2>3. CASE T # {}
    <3>1. PICK x \in T : TRUE
      BY <2>3
    <3>2. Cardinality(T \ {x}) = Cardinality(T) - 1
      BY <2>1, <3>1, FS_RemoveElement
    <3>3. Cardinality(T) - 1 \in G
      BY <1>2, <3>1, <3>2
    <3>4. Cardinality(T) # 0
      BY <2>1, <2>3, FS_EmptySet
    <3>5. Cardinality(T) \in G
      BY <2>1, <3>3, <3>4
    <3> QED
      BY <3>5
  <2> QED
    BY <2>2, <2>3
<1>3. SUBSET (1..n) \subseteq H
  <2>1. IsFiniteSet(1..n)
    BY <1>1
  <2>2. \A T \in SUBSET (1..n) : (\A x \in T : T \ {x} \in H) => T \in H
    BY <1>2
  <2> HIDE DEF H
  <2>3. PICK S : S = 1..n
    OBVIOUS
  <2>4. IsFiniteSet(S) /\ \A T \in SUBSET S : (\A x \in T : T \ {x} \in H) => T \in H
    BY ONLY <2>1, <2>2, <2>3
  <2>5. SUBSET S \subseteq H
    BY ONLY <2>4, SubsetInduction
  <2> QED
    BY <2>3, <2>5
<1>4. ASSUME NEW k \in 0..n PROVE k \in G
  <2>1. 1..k \in H
    BY <1>3
  <2>2. Cardinality(1..k) = k
    BY FS_Interval
  <2> QED
    BY <2>1, <2>2
<1> QED
  BY <1>4

-----------------------------------------------------------------------------
(* The recursive function in MapThenFoldSet.                               *)

\* it takes the elements of a set that pick chooses, one after the other.
FoldsBy(it, S, D, base, step, pick) ==
    /\ it \in [SUBSET S -> D]
    /\ \A T \in SUBSET S :
          it[T] = IF T = {} THEN base ELSE step[<<pick[T], it[T \ {pick[T]}]>>]

\* The function that a fold is defined by exists: each set has one value.
LEMMA FoldIsDefined ==
    ASSUME NEW S, IsFiniteSet(S), NEW D, NEW base \in D, NEW step \in [S \X D -> D],
           NEW pick, \A T \in SUBSET S : T # {} => pick[T] \in T
    PROVE  \E it : FoldsBy(it, S, D, base, step, pick)
<1> DEFINE n == Cardinality(S)
           Upto(k) == {T \in SUBSET S : Cardinality(T) <= k}
           G == {k \in 0..n : \E it \in [Upto(k) -> D] :
                    \A T \in Upto(k) :
                       it[T] = IF T = {} THEN base ELSE step[<<pick[T], it[T \ {pick[T]}]>>]}
<1>1. n \in Nat /\ \A T \in SUBSET S : Cardinality(T) \in 0..n
  <2>1. n \in Nat
    BY FS_CardinalityType
  <2>2. ASSUME NEW T \in SUBSET S PROVE IsFiniteSet(T) /\ Cardinality(T) <= n
    BY FS_Subset
  <2>3. ASSUME NEW T \in SUBSET S PROVE Cardinality(T) \in Nat
    BY <2>2, FS_CardinalityType
  <2> QED
    BY <2>1, <2>2, <2>3
<1>2. ASSUME NEW T \in SUBSET S, T # {}
      PROVE  T \ {pick[T]} \in SUBSET S /\ Cardinality(T \ {pick[T]}) = Cardinality(T) - 1
  <2>1. IsFiniteSet(T)
    BY FS_Subset
  <2> QED
    BY <1>2, <2>1, FS_RemoveElement
<1>3. 0 \in G
  <2>1. \A T \in Upto(0) : T = {}
    <3> SUFFICES ASSUME NEW T \in Upto(0) PROVE T = {}
      OBVIOUS
    <3>1. IsFiniteSet(T) /\ Cardinality(T) = 0
      BY <1>1, FS_Subset
    <3> QED
      BY <3>1, FS_EmptySet
  <2>2. [T \in Upto(0) |-> base] \in [Upto(0) -> D]
    OBVIOUS
  <2>3. \E it \in [Upto(0) -> D] :
           \A T \in Upto(0) :
              it[T] = IF T = {} THEN base ELSE step[<<pick[T], it[T \ {pick[T]}]>>]
    <3> DEFINE it == [T \in Upto(0) |-> base]
    <3>1. \A T \in Upto(0) :
             it[T] = IF T = {} THEN base ELSE step[<<pick[T], it[T \ {pick[T]}]>>]
      BY <2>1
    <3> HIDE DEF it
    <3> QED
      BY <2>2, <3>1 DEF it
  <2>4. 0 \in 0..n
    BY <1>1
  <2> HIDE DEF Upto
  <2> QED
    BY <2>3, <2>4
<1>4. ASSUME NEW k \in 0..(n - 1), k \in G PROVE k + 1 \in G
  <2>1. PICK it \in [Upto(k) -> D] :
           \A T \in Upto(k) :
              it[T] = IF T = {} THEN base ELSE step[<<pick[T], it[T \ {pick[T]}]>>]
    BY <1>4
  <2> DEFINE next == [T \in Upto(k + 1) |-> IF T = {} THEN base
                                            ELSE step[<<pick[T], it[T \ {pick[T]}]>>]]
  <2>2. ASSUME NEW T \in Upto(k + 1), T # {} PROVE T \ {pick[T]} \in Upto(k)
    BY <1>1, <1>2, <2>2
  <2>3. ASSUME NEW T \in Upto(k) PROVE T \in Upto(k + 1) /\ next[T] = it[T]
    <3>1. T \in Upto(k + 1)
      BY <1>1
    <3> QED
      BY <2>1, <3>1
  <2>4. next \in [Upto(k + 1) -> D]
    <3> SUFFICES ASSUME NEW T \in Upto(k + 1), T # {}
                 PROVE  step[<<pick[T], it[T \ {pick[T]}]>>] \in D
      OBVIOUS
    <3>1. it[T \ {pick[T]}] \in D /\ pick[T] \in S
      BY <2>2
    <3> QED
      BY <3>1
  <2>5. \A T \in Upto(k + 1) :
           next[T] = IF T = {} THEN base ELSE step[<<pick[T], next[T \ {pick[T]}]>>]
    BY <2>2, <2>3
  <2>6. k + 1 \in 0..n
    BY <1>1
  <2> HIDE DEF next
  <2> QED
    BY <2>4, <2>5, <2>6
<1>5. n \in G
  <2> HIDE DEF G
  <2>1. 0..n \subseteq G
    BY <1>1, <1>3, <1>4, UpToInduction
  <2> QED
    BY <1>1, <2>1
<1>6. Upto(n) = SUBSET S
  BY <1>1
<1> QED
  BY <1>5, <1>6 DEF FoldsBy

-----------------------------------------------------------------------------
(* Sums.                                                                   *)

Summable(f, S) == IsFiniteSet(S) /\ \A x \in S : f[x] \in Int

\* A part of what can be summed up can be.
LEMMA SummableSubset ==
    ASSUME NEW f, NEW S, Summable(f, S), NEW T \in SUBSET S
    PROVE  Summable(f, T)
BY FS_Subset DEF Summable

AnyOf(T) == CHOOSE x \in T : TRUE

\* The function that a sum is defined by.
SumsBy(it, f, S) ==
    /\ it \in [SUBSET S -> Int]
    /\ \A T \in SUBSET S : it[T] = IF T = {} THEN 0 ELSE f[AnyOf(T)] + it[T \ {AnyOf(T)}]

\* The function that a sum is defined by exists.
LEMMA SumsByExists ==
    ASSUME NEW f, NEW S, Summable(f, S)
    PROVE  \E it : SumsBy(it, f, S)
<1> DEFINE step == [p \in S \X Int |-> f[p[1]] + p[2]]
           pick == [T \in SUBSET S |-> AnyOf(T)]
<1>1. step \in [S \X Int -> Int]
  BY DEF Summable
<1>2. ASSUME NEW T \in SUBSET S, T # {} PROVE pick[T] \in T /\ pick[T] = AnyOf(T)
  BY <1>2 DEF AnyOf
<1>3. PICK it : FoldsBy(it, S, Int, 0, step, pick)
  <2>1. IsFiniteSet(S) /\ 0 \in Int
    BY DEF Summable
  <2>2. \A T \in SUBSET S : T # {} => pick[T] \in T
    BY <1>2
  <2> HIDE DEF step, pick
  <2> QED
    BY <1>1, <2>1, <2>2, FoldIsDefined
<1>4. ASSUME NEW T \in SUBSET S, T # {}
      PROVE  it[T] = f[AnyOf(T)] + it[T \ {AnyOf(T)}]
  <2>1. it[T] = step[<<pick[T], it[T \ {pick[T]}]>>]
    BY <1>3, <1>4 DEF FoldsBy
  <2>2. it[T \ {pick[T]}] \in Int /\ pick[T] \in S
    BY <1>2, <1>3, <1>4 DEF FoldsBy
  <2>3. step[<<pick[T], it[T \ {pick[T]}]>>] = f[pick[T]] + it[T \ {pick[T]}]
    <3> HIDE DEF pick
    <3> QED
      BY <2>2
  <2> QED
    BY <1>2, <1>4, <2>1, <2>3
<1>5. it \in [SUBSET S -> Int] /\ it[{}] = 0
  BY <1>3 DEF FoldsBy
<1> QED
  BY <1>4, <1>5 DEF SumsBy

\* SumFunctionOnSet is the value of such a function.
LEMMA SumIsSum ==
    ASSUME NEW f, NEW S, Summable(f, S)
    PROVE  \E it : SumsBy(it, f, S) /\ SumFunctionOnSet(f, S) = it[S]
<1> DEFINE Def(it) == it = [T \in SUBSET S |-> IF T = {} THEN 0 ELSE f[AnyOf(T)] + it[T \ {AnyOf(T)}]]
           sum == CHOOSE it : Def(it)
           G == {T \in SUBSET S : sum[T] \in Int}
<1>1. Def(sum)
  <2>1. PICK it : SumsBy(it, f, S)
    BY SumsByExists
  <2>2. Def(it)
    BY <2>1 DEF SumsBy
  <2> QED
    BY <2>2
<1>2. SumFunctionOnSet(f, S) = sum[S]
  BY DEF SumFunctionOnSet, FoldFunctionOnSet, MapThenFoldSet, AnyOf
<1> HIDE DEF sum
<1>3. \A T \in SUBSET S : sum[T] = IF T = {} THEN 0 ELSE f[AnyOf(T)] + sum[T \ {AnyOf(T)}]
  BY <1>1
<1>4. ASSUME NEW T \in SUBSET S, \A x \in T : T \ {x} \in G PROVE T \in G
  <2>1. CASE T = {}
    <3>1. sum[T] = 0
      BY <1>3, <2>1
    <3> QED
      BY <3>1
  <2>2. CASE T # {}
    <3>1. sum[T] = f[AnyOf(T)] + sum[T \ {AnyOf(T)}]
      BY <1>3, <2>2
    <3>2. AnyOf(T) \in T
      BY <2>2 DEF AnyOf
    <3>3. f[AnyOf(T)] \in Int /\ sum[T \ {AnyOf(T)}] \in Int
      BY <1>4, <3>2 DEF Summable
    <3> QED
      BY <3>1, <3>3
  <2> QED
    BY <2>1, <2>2
<1>5. SUBSET S \subseteq G
  <2>1. IsFiniteSet(S)
    BY DEF Summable
  <2> HIDE DEF G
  <2> QED
    BY <1>4, <2>1, SubsetInduction
<1>6. sum \in [SUBSET S -> Int]
  BY <1>1, <1>5
<1> QED
  BY <1>2, <1>3, <1>6 DEF SumsBy

\* Such functions agree on the sets that both have, when the summands do.
LEMMA SumsAgree ==
    ASSUME NEW f, NEW S, NEW it, SumsBy(it, f, S),
           NEW g, NEW R \in SUBSET S, NEW jt, SumsBy(jt, g, R), IsFiniteSet(R),
           \A x \in R : f[x] = g[x]
    PROVE  it[R] = jt[R]
<1> DEFINE G == {T \in SUBSET R : it[T] = jt[T]}
<1>1. ASSUME NEW T \in SUBSET R, \A x \in T : T \ {x} \in G PROVE T \in G
  <2>1. T \in SUBSET S
    OBVIOUS
  <2>2. CASE T = {}
    BY <2>1, <2>2 DEF SumsBy
  <2>3. CASE T # {}
    <3>1. it[T] = f[AnyOf(T)] + it[T \ {AnyOf(T)}] /\ jt[T] = g[AnyOf(T)] + jt[T \ {AnyOf(T)}]
      BY <2>1, <2>3 DEF SumsBy
    <3>2. AnyOf(T) \in T
      BY <2>3 DEF AnyOf
    <3> QED
      BY <1>1, <3>1, <3>2
  <2> QED
    BY <2>2, <2>3
<1>2. SUBSET R \subseteq G
  <2> HIDE DEF G
  <2> QED
    BY <1>1, SubsetInduction
<1> QED
  BY <1>2

\* The sum of nothing is zero.
LEMMA SumEmpty == ASSUME NEW f PROVE SumFunctionOnSet(f, {}) = 0
<1>1. Summable(f, {})
  BY FS_EmptySet DEF Summable
<1>2. PICK it : SumsBy(it, f, {}) /\ SumFunctionOnSet(f, {}) = it[{}]
  BY <1>1, SumIsSum
<1> QED
  BY <1>2 DEF SumsBy

\* A sum of integers is an integer.
LEMMA SumInt == ASSUME NEW f, NEW S, Summable(f, S) PROVE SumFunctionOnSet(f, S) \in Int
<1>1. PICK it : SumsBy(it, f, S) /\ SumFunctionOnSet(f, S) = it[S]
  BY SumIsSum
<1> QED
  BY <1>1 DEF SumsBy

\* Equal summands have equal sums.
LEMMA SumSame ==
    ASSUME NEW f, NEW g, NEW S, Summable(f, S), \A x \in S : f[x] = g[x]
    PROVE  SumFunctionOnSet(f, S) = SumFunctionOnSet(g, S)
<1>1. Summable(g, S) /\ IsFiniteSet(S)
  BY DEF Summable
<1>2. PICK it : SumsBy(it, f, S) /\ SumFunctionOnSet(f, S) = it[S]
  BY SumIsSum
<1>3. PICK jt : SumsBy(jt, g, S) /\ SumFunctionOnSet(g, S) = jt[S]
  BY <1>1, SumIsSum
<1>4. it[S] = jt[S]
  BY <1>1, <1>2, <1>3, SumsAgree
<1> QED
  BY <1>2, <1>3, <1>4

\* The order of the summands does not matter.
LEMMA SumsInAnyOrder ==
    ASSUME NEW f, NEW S, Summable(f, S), NEW it, SumsBy(it, f, S)
    PROVE  \A T \in SUBSET S : \A x \in T : it[T] = f[x] + it[T \ {x}]
<1> DEFINE G == {T \in SUBSET S : \A x \in T : it[T] = f[x] + it[T \ {x}]}
<1>1. ASSUME NEW T \in SUBSET S, \A x \in T : T \ {x} \in G PROVE T \in G
  <2> SUFFICES ASSUME NEW x \in T PROVE it[T] = f[x] + it[T \ {x}]
    OBVIOUS
  <2> DEFINE a == AnyOf(T)
  <2>1. a \in T /\ it[T] = f[a] + it[T \ {a}]
    BY DEF AnyOf, SumsBy
  <2> HIDE DEF a
  <2>2. CASE x = a
    BY <2>1, <2>2
  <2>3. CASE x # a
    <3>1. it[T \ {a}] = f[x] + it[(T \ {a}) \ {x}]
      BY <1>1, <2>1, <2>3
    <3>2. it[T \ {x}] = f[a] + it[(T \ {x}) \ {a}]
      BY <1>1, <2>1, <2>3
    <3>3. (T \ {a}) \ {x} = (T \ {x}) \ {a}
      OBVIOUS
    <3>4. f[a] \in Int /\ f[x] \in Int /\ it[(T \ {x}) \ {a}] \in Int
      BY <2>1 DEF Summable, SumsBy
    <3>5. it[T \ {a}] = f[x] + it[(T \ {x}) \ {a}]
      BY <3>1, <3>3
    <3> DEFINE rest == it[(T \ {x}) \ {a}]
    <3>6. it[T] = f[a] + (f[x] + rest) /\ it[T \ {x}] = f[a] + rest
      BY <2>1, <3>2, <3>5
    <3> HIDE DEF rest
    <3> QED
      BY <3>4, <3>6 DEF rest
  <2> QED
    BY <2>2, <2>3
<1>2. SUBSET S \subseteq G
  <2>1. IsFiniteSet(S)
    BY DEF Summable
  <2> HIDE DEF G
  <2> QED
    BY <1>1, <2>1, SubsetInduction
<1> QED
  BY <1>2

\* A sum is any of its summands and the sum of the others.
LEMMA SumRemove ==
    ASSUME NEW f, NEW S, Summable(f, S), NEW x \in S
    PROVE  SumFunctionOnSet(f, S) = f[x] + SumFunctionOnSet(f, S \ {x})
<1>1. PICK it : SumsBy(it, f, S) /\ SumFunctionOnSet(f, S) = it[S]
  BY SumIsSum
<1>2. Summable(f, S \ {x}) /\ IsFiniteSet(S \ {x})
  BY FS_RemoveElement DEF Summable
<1>3. PICK jt : SumsBy(jt, f, S \ {x}) /\ SumFunctionOnSet(f, S \ {x}) = jt[S \ {x}]
  BY <1>2, SumIsSum
<1>4. it[S \ {x}] = jt[S \ {x}]
  <2>1. S \ {x} \in SUBSET S
    OBVIOUS
  <2> QED
    BY <1>1, <1>2, <1>3, <2>1, SumsAgree
<1>5. it[S] = f[x] + it[S \ {x}]
  BY <1>1, SumsInAnyOrder
<1> QED
  BY <1>1, <1>3, <1>4, <1>5

\* One summand more.
LEMMA SumAdd ==
    ASSUME NEW f, NEW S, Summable(f, S), NEW x, x \notin S, f[x] \in Int
    PROVE  /\ Summable(f, S \cup {x})
           /\ SumFunctionOnSet(f, S \cup {x}) = f[x] + SumFunctionOnSet(f, S)
<1>1. Summable(f, S \cup {x})
  BY FS_AddElement DEF Summable
<1>2. (S \cup {x}) \ {x} = S /\ x \in S \cup {x}
  OBVIOUS
<1> QED
  BY <1>1, <1>2, SumRemove

\* Two functions that differ at one point only.
ChangedAt(f, g, S, x) == \A y \in S \ {x} : f[y] = g[y]

\* One summand changes, the others stay.
LEMMA SumChange ==
    ASSUME NEW f, NEW g, NEW S, Summable(f, S), NEW x \in S, g[x] \in Int, ChangedAt(f, g, S, x)
    PROVE  /\ Summable(g, S)
           /\ SumFunctionOnSet(g, S) = SumFunctionOnSet(f, S) - f[x] + g[x]
<1>1. Summable(g, S)
  BY DEF Summable, ChangedAt
<1>2. Summable(f, S \ {x}) /\ f[x] \in Int
  BY FS_RemoveElement DEF Summable
<1>3. SumFunctionOnSet(f, S \ {x}) = SumFunctionOnSet(g, S \ {x})
  BY <1>2, SumSame DEF ChangedAt
<1>4. SumFunctionOnSet(f, S) = f[x] + SumFunctionOnSet(f, S \ {x})
  BY SumRemove
<1>5. SumFunctionOnSet(g, S) = g[x] + SumFunctionOnSet(g, S \ {x})
  BY <1>1, SumRemove
<1>6. SumFunctionOnSet(f, S \ {x}) \in Int
  BY <1>2, SumInt
<1> QED
  BY <1>1, <1>2, <1>3, <1>4, <1>5, <1>6

\* The sum of sums.
LEMMA SumPlus ==
    ASSUME NEW f, NEW g, NEW h, NEW S, Summable(f, S), Summable(g, S),
           \A x \in S : h[x] = f[x] + g[x]
    PROVE  /\ Summable(h, S)
           /\ SumFunctionOnSet(h, S) = SumFunctionOnSet(f, S) + SumFunctionOnSet(g, S)
<1>1. Summable(h, S)
  BY DEF Summable
<1>2. PICK it : SumsBy(it, f, S) /\ SumFunctionOnSet(f, S) = it[S]
  BY SumIsSum
<1>3. PICK jt : SumsBy(jt, g, S) /\ SumFunctionOnSet(g, S) = jt[S]
  BY SumIsSum
<1>4. PICK kt : SumsBy(kt, h, S) /\ SumFunctionOnSet(h, S) = kt[S]
  BY <1>1, SumIsSum
<1> DEFINE G == {T \in SUBSET S : kt[T] = it[T] + jt[T]}
<1>5. ASSUME NEW T \in SUBSET S, \A x \in T : T \ {x} \in G PROVE T \in G
  <2>1. CASE T = {}
    <3>1. kt[T] = 0 /\ it[T] = 0 /\ jt[T] = 0
      BY <1>2, <1>3, <1>4, <2>1 DEF SumsBy
    <3> QED
      BY <3>1
  <2>2. CASE T # {}
    <3>1. AnyOf(T) \in T
      BY <2>2 DEF AnyOf
    <3> DEFINE a == AnyOf(T)
               R == T \ {a}
    <3>2. it[T] = f[a] + it[R] /\ jt[T] = g[a] + jt[R] /\ kt[T] = h[a] + kt[R]
      BY <1>2, <1>3, <1>4, <2>2 DEF SumsBy
    <3>3. kt[R] = it[R] + jt[R] /\ it[R] \in Int /\ jt[R] \in Int
      BY <1>2, <1>3, <1>5, <3>1 DEF SumsBy
    <3>4. h[a] = f[a] + g[a] /\ f[a] \in Int /\ g[a] \in Int
      BY <3>1 DEF Summable
    <3> HIDE DEF a, R
    <3> QED
      BY <3>2, <3>3, <3>4
  <2> QED
    BY <2>1, <2>2
<1>6. SUBSET S \subseteq G
  <2>1. IsFiniteSet(S)
    BY DEF Summable
  <2> HIDE DEF G
  <2> QED
    BY ONLY <1>5, <2>1, SubsetInduction
<1> QED
  BY <1>1, <1>2, <1>3, <1>4, <1>6

\* A sum of natural numbers is one.
LEMMA SumNotNegative ==
    ASSUME NEW f, NEW S, IsFiniteSet(S), \A x \in S : f[x] \in Nat
    PROVE  SumFunctionOnSet(f, S) \in Nat
<1>1. Summable(f, S)
  BY DEF Summable
<1>2. PICK it : SumsBy(it, f, S) /\ SumFunctionOnSet(f, S) = it[S]
  BY <1>1, SumIsSum
<1> DEFINE G == {T \in SUBSET S : it[T] \in Nat}
<1>3. ASSUME NEW T \in SUBSET S, \A x \in T : T \ {x} \in G PROVE T \in G
  <2>1. CASE T = {}
    <3>1. it[T] = 0
      BY <1>2, <2>1 DEF SumsBy
    <3> QED
      BY <3>1
  <2>2. CASE T # {}
    <3>1. AnyOf(T) \in T
      BY <2>2 DEF AnyOf
    <3>2. it[T] = f[AnyOf(T)] + it[T \ {AnyOf(T)}]
      BY <1>2, <2>2 DEF SumsBy
    <3> QED
      BY <1>3, <3>1, <3>2
  <2> QED
    BY <2>1, <2>2
<1>4. SUBSET S \subseteq G
  <2> HIDE DEF G
  <2> QED
    BY ONLY <1>3, IsFiniteSet(S), SubsetInduction
<1> QED
  BY <1>2, <1>4

\* A summand is part of the sum.
LEMMA SumIncludes ==
    ASSUME NEW f, NEW S, IsFiniteSet(S), \A x \in S : f[x] \in Nat, NEW x \in S
    PROVE  f[x] <= SumFunctionOnSet(f, S)
<1>1. SumFunctionOnSet(f, S) = f[x] + SumFunctionOnSet(f, S \ {x})
  BY SumRemove DEF Summable
<1>2. SumFunctionOnSet(f, S \ {x}) \in Nat
  BY FS_RemoveElement, SumNotNegative
<1> QED
  BY <1>1, <1>2

\* Numbers that are all zero have the sum zero.
LEMMA SumOfZeros ==
    ASSUME NEW f, NEW S, IsFiniteSet(S), \A x \in S : f[x] = 0
    PROVE  SumFunctionOnSet(f, S) = 0
<1>1. Summable(f, S) /\ \A x \in S : f[x] = f[x] + f[x]
  BY DEF Summable
<1>2. SumFunctionOnSet(f, S) = SumFunctionOnSet(f, S) + SumFunctionOnSet(f, S)
  BY ONLY <1>1, SumPlus
<1>3. PICK sum \in Int : sum = SumFunctionOnSet(f, S)
  BY <1>1, SumInt
<1>4. sum = sum + sum
  BY <1>2, <1>3
<1>5. sum = 0
  BY <1>4
<1> QED
  BY <1>3, <1>5

-----------------------------------------------------------------------------
(* Loops over a sequence, which FoldLeft takes by their last index.        *)

\* A set of numbers that is not empty has a greatest one.
LEMMA Greatest ==
    ASSUME NEW n \in Nat, NEW R \in SUBSET (1..n), R # {}
    PROVE  \E m \in R : \A y \in R : m >= y
<1> DEFINE G == {T \in SUBSET (1..n) : T # {} => \E m \in T : \A y \in T : m >= y}
<1>1. ASSUME NEW T \in SUBSET (1..n), \A x \in T : T \ {x} \in G PROVE T \in G
  <2> SUFFICES ASSUME NEW x \in T PROVE \E m \in T : \A y \in T : m >= y
    OBVIOUS
  <2>1. CASE T = {x}
    BY <2>1
  <2>2. CASE T # {x}
    <3>1. PICK m \in T \ {x} : \A y \in T \ {x} : m >= y
      BY <1>1, <2>2
    <3>2. CASE m >= x
      BY <3>1, <3>2
    <3>3. CASE x > m
      BY <3>1, <3>3
    <3> QED
      BY <3>2, <3>3
  <2> QED
    BY <2>1, <2>2
<1>2. SUBSET (1..n) \subseteq G
  <2>1. IsFiniteSet(1..n)
    BY FS_Interval
  <2>2. \A T \in SUBSET (1..n) : (\A x \in T : T \ {x} \in G) => T \in G
    BY <1>1
  <2> HIDE DEF G
  <2>3. PICK S : S = 1..n
    OBVIOUS
  <2>4. IsFiniteSet(S) /\ \A T \in SUBSET S : (\A x \in T : T \ {x} \in G) => T \in G
    BY ONLY <2>1, <2>2, <2>3
  <2>5. SUBSET S \subseteq G
    BY ONLY <2>4, SubsetInduction
  <2> QED
    BY <2>3, <2>5
<1> QED
  BY <1>2

\* The maximum and the minimum of such a set.
LEMMA MaxIsIn ==
    ASSUME NEW n \in Nat, NEW R \in SUBSET (1..n), R # {}
    PROVE  Max(R) \in R /\ \A y \in R : Max(R) >= y
BY Greatest DEF Max

LEMMA MinIsIn ==
    ASSUME NEW n \in Nat, NEW R \in SUBSET (1..n), R # {}
    PROVE  Min(R) \in R /\ \A y \in R : Min(R) <= y
<1> DEFINE T == {n + 1 - x : x \in R}
<1>1. T \in SUBSET (1..n) /\ T # {}
  <2>1. \A x \in R : n + 1 - x \in 1..n
    OBVIOUS
  <2>2. PICK x \in R : TRUE
    OBVIOUS
  <2>3. n + 1 - x \in T
    OBVIOUS
  <2> QED
    BY <2>1, <2>3
<1>2. PICK m \in T : \A y \in T : m >= y
  <2> HIDE DEF T
  <2> QED
    BY <1>1, Greatest
<1>3. PICK x \in R : m = n + 1 - x
  OBVIOUS
<1>4. \A y \in R : x <= y
  BY <1>2, <1>3
<1> QED
  BY <1>4 DEF Min

\* The function in FoldLeft, for a step that takes the index and what there is.
LoopBy(it, n, D, base, step) ==
    /\ it \in [SUBSET (1..n) -> D]
    /\ \A T \in SUBSET (1..n) :
          it[T] = IF T = {} THEN base ELSE step[<<Max(T), it[T \ {Max(T)}]>>]

LEMMA LoopIsDefined ==
    ASSUME NEW n \in Nat, NEW D, NEW base \in D, NEW step \in [(1..n) \X D -> D]
    PROVE  \E it : LoopBy(it, n, D, base, step)
<1> DEFINE pick == [T \in SUBSET (1..n) |-> Max(T)]
<1>1. IsFiniteSet(1..n) /\ \A T \in SUBSET (1..n) : T # {} => pick[T] \in T
  <2>1. IsFiniteSet(1..n)
    BY FS_Interval
  <2>2. ASSUME NEW T \in SUBSET (1..n), T # {} PROVE pick[T] \in T
    BY <2>2, MaxIsIn
  <2> QED
    BY <2>1, <2>2
<1>2. PICK it : FoldsBy(it, 1..n, D, base, step, pick)
  <2> HIDE DEF pick
  <2> QED
    BY <1>1, FoldIsDefined
<1>3. LoopBy(it, n, D, base, step)
  BY <1>2 DEF FoldsBy, LoopBy
<1> QED
  BY <1>3

\* A function that takes this step, as far as its values are in D.
Loops(loop, n, D, base, step) ==
    /\ loop[{}] = base
    /\ \A T \in SUBSET (1..n) : T # {} /\ loop[T \ {Max(T)}] \in D
          => loop[T] = step[<<Max(T), loop[T \ {Max(T)}]>>]

\* What a loop has after each of its steps.
StepsOf(it, n, D, base, step, last) ==
    /\ it \in [0..n -> D] /\ it[0] = base /\ it[n] = last
    /\ \A k \in 1..n : it[k] = step[<<k, it[k - 1]>>]

LEMMA LoopSteps ==
    ASSUME NEW n \in Nat, NEW D, NEW base \in D, NEW step \in [(1..n) \X D -> D],
           NEW loop, Loops(loop, n, D, base, step)
    PROVE  \E it : StepsOf(it, n, D, base, step, loop[1..n])
<1> DEFINE it == [k \in 0..n |-> loop[1..k]]
           G == {k \in 0..n : loop[1..k] \in D}
<1>1. loop[1..0] = base
  <2>1. 1..0 = {}
    OBVIOUS
  <2> QED
    BY <2>1 DEF Loops
<1>2. ASSUME NEW k \in 1..n, loop[1..(k - 1)] \in D
      PROVE  loop[1..k] = step[<<k, loop[1..(k - 1)]>>] /\ loop[1..k] \in D
  <2>1. 1..k \in SUBSET (1..n) /\ k \in 1..k
    OBVIOUS
  <2>2. Max(1..k) = k
    <3>1. Max(1..k) \in 1..k /\ Max(1..k) >= k
      BY <2>1, MaxIsIn
    <3> QED
      BY <3>1
  <2>3. (1..k) \ {k} = 1..(k - 1)
    OBVIOUS
  <2> QED
    BY <1>2, <2>1, <2>2, <2>3 DEF Loops
<1>3. 0..n \subseteq G
  <2>1. 0 \in G
    BY <1>1
  <2>2. ASSUME NEW k \in 0..(n - 1), k \in G PROVE k + 1 \in G
    <3>1. k + 1 \in 1..n /\ k + 1 \in 0..n /\ (k + 1) - 1 = k /\ loop[1..k] \in D
      BY <2>2
    <3>2. loop[1..((k + 1) - 1)] \in D
      BY <3>1
    <3>3. loop[1..(k + 1)] \in D
      BY <1>2, <3>1, <3>2
    <3> QED
      BY <3>1, <3>3
  <2> HIDE DEF G
  <2> QED
    BY <2>1, <2>2, UpToInduction
<1>4. it \in [0..n -> D] /\ it[0] = base /\ it[n] = loop[1..n]
  BY <1>1, <1>3
<1>5. ASSUME NEW k \in 1..n PROVE it[k] = step[<<k, it[k - 1]>>]
  <2>1. k - 1 \in 0..n /\ k \in 0..n
    OBVIOUS
  <2>2. loop[1..(k - 1)] \in D
    BY <1>3, <2>1
  <2>3. it[k] = loop[1..k] /\ it[k - 1] = loop[1..(k - 1)]
    BY <2>1
  <2> QED
    BY <1>2, <2>2, <2>3
<1> QED
  BY <1>4, <1>5 DEF StepsOf
=============================================================================
