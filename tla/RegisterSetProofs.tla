-------------------------- MODULE RegisterSetProofs --------------------------
(***************************************************************************)
(* Theorems about RegisterSet, for all ranges and registers.               *)
(***************************************************************************)
EXTENDS RegisterSet, FiniteSetTheorems, SequenceTheorems, TLAPS

-----------------------------------------------------------------------------
(* Integers                                                                *)

\* A set of naturals that is not empty has a least member.
LEMMA NatLeast ==
  ASSUME NEW S \in SUBSET Nat, S # {}
  PROVE  \E least \in S : \A n \in S : least <= n
<1>1. PICK least \in S : \A n \in S : <<n, least>> \notin OpToRel(<, Nat)
  BY NatLessThanWellFounded, WFMin
<1>2. \A n \in S : ~ n < least
  BY <1>1 DEF OpToRel
<1> QED
  BY <1>2

\* Induction, for a set of naturals.
LEMMA NatSetInduction ==
  ASSUME NEW T, 0 \in T, \A n \in Nat : n \in T => n + 1 \in T
  PROVE  \A n \in Nat : n \in T
<1> SUFFICES ASSUME Nat \ T # {} PROVE FALSE
  OBVIOUS
<1>1. PICK least \in Nat \ T : \A n \in Nat \ T : least <= n
  BY NatLeast
<1>2. least - 1 \in Nat /\ least - 1 \notin Nat \ T
  BY <1>1
<1> QED
  BY <1>1, <1>2

\* A set of integers that is bounded below, and not empty, has a minimum.
LEMMA MinOfInts ==
  ASSUME NEW S \in SUBSET Int, S # {}, NEW bound \in Int, \A n \in S : bound <= n
  PROVE  Min(S) \in S /\ \A n \in S : Min(S) <= n
<1> DEFINE T == {n - bound : n \in S}
<1>1. T \in SUBSET Nat /\ T # {}
  <2>1. \A n \in S : n - bound \in Nat
    OBVIOUS
  <2> QED
    BY <2>1
<1>2. PICK least \in T : \A n \in T : least <= n
  <2> HIDE DEF T
  <2> QED
    BY <1>1, NatLeast
<1>3. PICK min \in S : least = min - bound
  OBVIOUS
<1>4. ASSUME NEW n \in S PROVE min <= n
  <2>1. least <= n - bound
    BY <1>2
  <2> QED
    BY <1>3, <2>1
<1> QED
  BY <1>4 DEF Min

\* One that is bounded above has a maximum.
LEMMA MaxOfInts ==
  ASSUME NEW S \in SUBSET Int, S # {}, NEW bound \in Int, \A n \in S : n <= bound
  PROVE  Max(S) \in S /\ \A n \in S : n <= Max(S)
<1> DEFINE T == {bound - n : n \in S}
<1>1. T \in SUBSET Nat /\ T # {}
  OBVIOUS
<1>2. PICK least \in T : \A n \in T : least <= n
  <2> HIDE DEF T
  <2> QED
    BY <1>1, NatLeast
<1>3. PICK max \in S : least = bound - max
  OBVIOUS
<1>4. ASSUME NEW n \in S PROVE max >= n
  <2>1. least <= bound - n
    BY <1>2
  <2> QED
    BY <1>3, <2>1
<1> QED
  BY <1>4 DEF Max

\* The maximum and the minimum of two integers.
LEMMA MaxOfTwo ==
  ASSUME NEW m \in Int, NEW n \in Int
  PROVE  Max({m, n}) = IF m <= n THEN n ELSE m
BY DEF Max

LEMMA MinOfTwo ==
  ASSUME NEW m \in Int, NEW n \in Int
  PROVE  Min({m, n}) = IF m <= n THEN m ELSE n
BY DEF Min

-----------------------------------------------------------------------------
(* The binary search                                                       *)

IsFind(find, set, r) ==
  find = [range \in Iterators(set) \X Iterators(set) |->
            Probe(find, set, r, range[1], range[2])]

\* The middle is between the iterators.
LEMMA Middle ==
  ASSUME NEW lower \in Int, NEW upper \in Int, lower < upper
  PROVE  /\ lower + (upper - lower) \div 2 \in lower .. upper - 1
         /\ (upper - lower) \div 2 \in Int
<1>1. \A d \in Nat \ {0} : d \div 2 \in 0 .. d - 1
  OBVIOUS
<1>2. (upper - lower) \div 2 \in 0 .. upper - lower - 1
  BY <1>1
<1> QED
  BY <1>2

\* The binary search terminates: there is a function which is defined this way.
LEMMA FindExists ==
  ASSUME NEW set, IsRegisterSet(set), NEW r \in Int
  PROVE  \E find : IsFind(find, set, r)
<1> DEFINE D == Iterators(set)
           Correct(find, n) == \A lower, upper \in D :
             upper - lower <= n =>
               find[<<lower, upper>>] = Probe(find, set, r, lower, upper)
           T == {n \in Nat : \E find \in [D \X D -> Int] : Correct(find, n)}
<1>1. Len(set) \in Nat /\ D \subseteq Nat
  BY LenProperties DEF IsRegisterSet, Iterators
<1>2. 0 \in T
  <2>1. Correct([range \in D \X D |-> 0], 0)
    BY <1>1 DEF Probe
  <2> QED
    BY <2>1
<1>3. ASSUME NEW n \in Nat, n \in T PROVE n + 1 \in T
  <2>1. PICK find \in [D \X D -> Int] : Correct(find, n)
    BY <1>3
  <2> DEFINE more == [range \in D \X D |-> Probe(find, set, r, range[1], range[2])]
  <2>2. ASSUME NEW lower \in D, NEW upper \in D, lower < upper
        PROVE  LET middle == lower + (upper - lower) \div 2 IN
               /\ middle \in D /\ middle + 1 \in D
               /\ upper - lower <= n + 1 =>
                    middle - lower <= n /\ upper - (middle + 1) <= n
    BY <1>1, <2>2, Middle DEF Iterators
  <2>3. \A lower, upper \in D : Probe(find, set, r, lower, upper) \in Int
    BY <1>1, <2>2 DEF Probe
  <2>4. more \in [D \X D -> Int]
    BY <2>3
  <2>5. \A lower, upper \in D :
          upper - lower <= n => more[<<lower, upper>>] = find[<<lower, upper>>]
    BY <2>1
  <2>6. Correct(more, n + 1)
    <3> SUFFICES ASSUME NEW lower \in D, NEW upper \in D, upper - lower <= n + 1
                 PROVE  more[<<lower, upper>>] = Probe(more, set, r, lower, upper)
      OBVIOUS
    <3>1. more[<<lower, upper>>] = Probe(find, set, r, lower, upper)
      OBVIOUS
    <3>2. CASE lower >= upper
      BY <3>1, <3>2 DEF Probe
    <3>3. CASE lower < upper
      <4> DEFINE middle == lower + (upper - lower) \div 2
      <4>1. /\ more[<<lower, middle>>] = find[<<lower, middle>>]
            /\ more[<<middle + 1, upper>>] = find[<<middle + 1, upper>>]
        BY <2>2, <2>5, <3>3
      <4> HIDE DEF more, Correct, T, D
      <4> QED
        BY <3>1, <4>1 DEF Probe
    <3> QED
      BY <1>1, <3>2, <3>3
  <2> HIDE DEF Correct, more, D
  <2> QED
    BY <2>4, <2>6
<1>4. Len(set) \in T
  <2> HIDE DEF T
  <2> QED
    BY <1>1, <1>2, <1>3, NatSetInduction
<1>5. PICK find \in [D \X D -> Int] : Correct(find, Len(set))
  BY <1>4
<1>6. \A lower, upper \in D : find[<<lower, upper>>] = Probe(find, set, r, lower, upper)
  <2>1. \A lower, upper \in D : upper - lower <= Len(set)
    BY <1>1 DEF Iterators
  <2> QED
    BY <1>5, <2>1
<1>7. find = [range \in D \X D |-> Probe(find, set, r, range[1], range[2])]
  BY <1>6
<1> QED
  BY <1>7 DEF IsFind

LEMMA IntervalOfFinds ==
  ASSUME NEW set, IsRegisterSet(set), NEW r \in Int
  PROVE  \E find : IsFind(find, set, r) /\ IntervalOf(set, r) = find[<<1, Len(set) + 1>>]
<1> DEFINE search == CHOOSE find : IsFind(find, set, r)
<1>1. IntervalOf(set, r) = search[<<1, Len(set) + 1>>]
  BY DEF IntervalOf, IsFind, Iterators
<1>2. \E find : IsFind(find, set, r)
  BY FindExists
<1>3. IsFind(search, set, r)
  BY <1>2, Zenon
<1> QED
  BY <1>1, <1>3, Zenon

\* The intervals of a set
LEMMA Intervals ==
  ASSUME NEW set, IsRegisterSet(set)
  PROVE  /\ Len(set) \in Nat /\ DOMAIN set = 1 .. Len(set)
         /\ \A i \in DOMAIN set : set[i] \in Int \X Int
         /\ \A i \in DOMAIN set : set[i][1] \in Int /\ set[i][2] \in Int
         /\ \A i \in DOMAIN set : set[i][1] <= set[i][2]
         /\ \A i, j \in DOMAIN set : i < j => set[i][2] + 1 < set[j][1]
<1>1. Len(set) \in Nat /\ DOMAIN set = 1 .. Len(set)
  BY LenProperties DEF IsRegisterSet
<1>2. \A i \in DOMAIN set : set[i] \in Int \X Int
  BY <1>1, ElementOfSeq DEF IsRegisterSet
<1> QED
  BY <1>1, <1>2 DEF IsRegisterSet

\* The register r is in the i-th interval.
Holds(set, i, r) == set[i][1] <= r /\ r <= set[i][2]

\* The binary search is correct: it finds the interval that r is in, if any.
THEOREM SearchCorrect ==
  ASSUME NEW set, IsRegisterSet(set), NEW r \in Int
  PROVE  LET i == IntervalOf(set, r) IN
         \/ i = 0 /\ \A k \in DOMAIN set : ~ Holds(set, k, r)
         \/ i \in DOMAIN set /\ Holds(set, i, r)
<1>1. PICK find : IsFind(find, set, r) /\ IntervalOf(set, r) = find[<<1, Len(set) + 1>>]
  BY IntervalOfFinds
<1> DEFINE D == Iterators(set)
           Found(i) == \/ i = 0 /\ \A k \in DOMAIN set : ~ Holds(set, k, r)
                       \/ i \in DOMAIN set /\ Holds(set, i, r)
           Between(lower, upper) ==
             \A k \in DOMAIN set : Holds(set, k, r) => lower <= k /\ k < upper
           T == {n \in Nat : \A lower, upper \in D :
                   upper - lower <= n /\ Between(lower, upper) =>
                     Found(find[<<lower, upper>>])}
<1>2. \A lower, upper \in D : find[<<lower, upper>>] = Probe(find, set, r, lower, upper)
  BY <1>1 DEF IsFind
<1>3. D \subseteq Nat /\ D = 1 .. Len(set) + 1 /\ DOMAIN set = 1 .. Len(set) /\ Len(set) \in Nat
  BY Intervals DEF Iterators
<1>4. ASSUME NEW lower \in D, NEW upper \in D, Between(lower, upper), lower >= upper
      PROVE  Found(find[<<lower, upper>>])
  <2>1. find[<<lower, upper>>] = 0
    BY <1>2, <1>4 DEF Probe
  <2>2. \A k \in DOMAIN set : ~ Holds(set, k, r)
    BY <1>3, <1>4
  <2> QED
    BY <2>1, <2>2
<1>5. 0 \in T
  BY <1>3, <1>4
<1>6. ASSUME NEW n \in Nat, n \in T PROVE n + 1 \in T
  <2> SUFFICES ASSUME NEW lower \in D, NEW upper \in D, upper - lower <= n + 1,
                      Between(lower, upper), lower < upper
               PROVE  Found(find[<<lower, upper>>])
    BY <1>3, <1>4
  <2> DEFINE middle == lower + (upper - lower) \div 2
  <2>1. middle \in lower .. upper - 1
    BY <1>3, Middle
  <2>2. middle \in DOMAIN set /\ middle \in D /\ middle + 1 \in D
    BY <1>3, <2>1
  <2>3. set[middle][1] \in Int /\ set[middle][2] \in Int
    BY <2>2, Intervals
  <2>4. \A i, j \in DOMAIN set : i < j => set[i][2] < set[j][1]
    BY Intervals
  <2>5. \A i \in DOMAIN set : /\ set[i][1] \in Int /\ set[i][2] \in Int
                              /\ set[i][1] <= set[i][2]
    BY Intervals
  <2>6. \A i, j \in D : upper - lower <= n + 1 /\ Between(i, j) /\ j - i <= n =>
          Found(find[<<i, j>>])
    BY <1>6
  <2> HIDE DEF middle, T, Found
  <2>7. find[<<lower, upper>>] =
          CASE r < set[middle][1] -> find[<<lower, middle>>]
            [] r > set[middle][2] -> find[<<middle + 1, upper>>]
            [] OTHER -> middle
    BY <1>2, <1>3 DEF Probe, middle
  <2>8. CASE r < set[middle][1]
    <3>1. Between(lower, middle)
      <4> SUFFICES ASSUME NEW k \in DOMAIN set, Holds(set, k, r) PROVE lower <= k /\ k < middle
        OBVIOUS
      <4>1. k <= middle
        <5> SUFFICES ASSUME middle < k PROVE FALSE
          BY <1>3, <2>2
        <5>1. set[middle][2] < set[k][1]
          BY <2>2, <2>4
        <5> QED
          BY <2>2, <2>5, <2>8, <5>1 DEF Holds
      <4> QED
        BY <1>3, <2>1, <2>5, <2>8, <4>1 DEF Holds
    <3>2. middle - lower <= n
      BY <1>3, <2>1
    <3>3. find[<<lower, upper>>] = find[<<lower, middle>>]
      BY <2>2, <2>3, <2>5, <2>7, <2>8
    <3> QED
      BY <2>2, <2>6, <3>1, <3>2, <3>3
  <2>9. CASE r > set[middle][2]
    <3>1. Between(middle + 1, upper)
      <4> SUFFICES ASSUME NEW k \in DOMAIN set, Holds(set, k, r)
                   PROVE  middle + 1 <= k /\ k < upper
        OBVIOUS
      <4>1. k >= middle
        <5> SUFFICES ASSUME k < middle PROVE FALSE
          BY <1>3, <2>2
        <5>1. set[k][2] < set[middle][1]
          BY <2>2, <2>4
        <5> QED
          BY <2>2, <2>5, <2>9, <5>1 DEF Holds
      <4> QED
        BY <1>3, <2>1, <2>5, <2>9, <4>1 DEF Holds
    <3>2. upper - (middle + 1) <= n
      BY <1>3, <2>1
    <3>3. find[<<lower, upper>>] = find[<<middle + 1, upper>>]
      BY <2>3, <2>5, <2>7, <2>9, <2>2
    <3> QED
      BY <2>2, <2>6, <3>1, <3>2, <3>3
  <2>10. CASE ~ r < set[middle][1] /\ ~ r > set[middle][2]
    <3>1. find[<<lower, upper>>] = middle
      BY <2>7, <2>10
    <3>2. Holds(set, middle, r)
      BY <2>3, <2>10 DEF Holds
    <3> QED
      BY <2>2, <3>1, <3>2 DEF Found
  <2> QED
    BY <2>8, <2>9, <2>10
<1>7. Len(set) \in T
  <2> HIDE DEF T
  <2> QED
    BY <1>3, <1>5, <1>6, NatSetInduction
<1>8. Between(1, Len(set) + 1)
  BY <1>3
<1>9. Found(find[<<1, Len(set) + 1>>])
  BY <1>3, <1>7, <1>8
<1> QED
  BY <1>1, <1>9

\* contains is right: a register is in the set if it is in one of the intervals.
THEOREM ContainsCorrect ==
  ASSUME NEW set, IsRegisterSet(set), NEW r \in Int
  PROVE  contains(set, r) <=> r \in Registers(ToSet(set))
<1>1. r \in Registers(ToSet(set)) <=> \E k \in DOMAIN set : Holds(set, k, r)
  <2>1. r \in Registers(ToSet(set)) <=> \E k \in DOMAIN set : r \in set[k][1] .. set[k][2]
    BY DEF Registers, ToSet
  <2> QED
    BY <2>1, Intervals DEF Holds
<1>2. 0 \notin DOMAIN set
  BY Intervals
<1> QED
  BY <1>1, <1>2, SearchCorrect DEF contains

\* endOfRange is right: it returns the last of the consecutive registers from r on
\* that are in the set ("Returns the maximal r2 such that r1,...,r2 are members of
\* the set", RegisterSet.hpp:42-43), or r - 1.
THEOREM EndOfRangeCorrect ==
  ASSUME NEW set, IsRegisterSet(set), NEW r \in Int
  PROVE  LET end == endOfRange(set, r) IN
         /\ end \in Int /\ end >= r - 1
         /\ r .. end \subseteq Registers(ToSet(set))
         /\ end + 1 \notin Registers(ToSet(set))
<1> DEFINE i == IntervalOf(set, r)  end == endOfRange(set, r)
<1>1. \A n \in Int :
        n \in Registers(ToSet(set)) <=> \E k \in DOMAIN set : Holds(set, k, n)
  <2> SUFFICES ASSUME NEW n \in Int
               PROVE  n \in Registers(ToSet(set)) <=> \E k \in DOMAIN set : Holds(set, k, n)
    OBVIOUS
  <2>1. n \in Registers(ToSet(set)) <=> \E k \in DOMAIN set : n \in set[k][1] .. set[k][2]
    BY DEF Registers, ToSet
  <2> QED
    BY <2>1, Intervals DEF Holds
<1>2. 0 \notin DOMAIN set
  BY Intervals
<1>3. CASE i = 0
  <2>1. end = r - 1
    BY <1>3 DEF endOfRange
  <2>2. r \notin Registers(ToSet(set))
    BY <1>1, <1>2, <1>3, SearchCorrect
  <2> QED
    BY <2>1, <2>2
<1>4. CASE i \in DOMAIN set /\ Holds(set, i, r)
  <2>1. end = set[i][2] /\ end \in Int /\ set[i][1] \in Int /\ set[i][1] <= r /\ r <= end
    BY <1>2, <1>4, Intervals DEF endOfRange, Holds
  <2>2. \A n \in r .. end : Holds(set, i, n)
    BY <2>1 DEF Holds
  <2>3. r .. end \subseteq Registers(ToSet(set))
    BY <1>1, <1>4, <2>1, <2>2
  <2>4. ASSUME NEW k \in DOMAIN set PROVE ~ Holds(set, k, end + 1)
    <3>1. CASE k < i
      BY <1>4, <2>1, <3>1, Intervals DEF Holds
    <3>2. CASE k = i
      BY <2>1, <3>2 DEF Holds
    <3>3. CASE i < k
      BY <1>4, <2>1, <3>3, Intervals DEF Holds
    <3> QED
      BY <1>4, <3>1, <3>2, <3>3, Intervals
  <2> QED
    BY <1>1, <2>1, <2>3, <2>4
<1> QED
  BY <1>3, <1>4, SearchCorrect

-----------------------------------------------------------------------------
(* The intervals are those of the configured ranges                        *)

\* `fold' is the recursion over the subsets of L that takes out one element at a time.
Takes(choose, L) == \A s \in SUBSET L : s # {} => choose[s] \in s

Folds(fold, L, V, base, step, choose) ==
  /\ fold \in [SUBSET L -> V]
  /\ fold[{}] = base
  /\ \A s \in SUBSET L :
       s # {} => fold[s] = step[<<fold[s \ {choose[s]}], choose[s]>>]

StepsFor(V, L) == [V \X L -> V]

\* There is such a function if the set is finite.
LEMMA FoldExists ==
  ASSUME NEW L, IsFiniteSet(L), NEW V, NEW base \in V, NEW step \in StepsFor(V, L),
         NEW choose, Takes(choose, L)
  PROVE  \E fold : Folds(fold, L, V, base, step, choose)
<1> USE DEF Takes, StepsFor
<1> DEFINE Next(fold, s) == IF s = {} THEN base
                            ELSE step[<<fold[s \ {choose[s]}], choose[s]>>]
           Correct(fold, n) ==
             \A s \in SUBSET L : Cardinality(s) <= n => fold[s] = Next(fold, s)
           T == {n \in Nat : \E fold \in [SUBSET L -> V] : Correct(fold, n)}
<1>1. \A s \in SUBSET L : IsFiniteSet(s) /\ Cardinality(s) \in Nat
  BY FS_Subset, FS_CardinalityType
<1>2. 0 \in T
  <2>1. \A s \in SUBSET L : Cardinality(s) <= 0 => s = {}
    BY <1>1, FS_EmptySet
  <2>2. Correct([s \in SUBSET L |-> base], 0)
    BY <2>1
  <2> QED
    BY <2>2
<1>3. ASSUME NEW n \in Nat, n \in T PROVE n + 1 \in T
  <2>1. PICK fold \in [SUBSET L -> V] : Correct(fold, n)
    BY <1>3
  <2> DEFINE more == [s \in SUBSET L |-> Next(fold, s)]
  <2>2. more \in [SUBSET L -> V]
    BY DEF Next
  <2>3. ASSUME NEW s \in SUBSET L, Cardinality(s) <= n + 1
        PROVE  more[s] = Next(more, s)
    <3>1. CASE s = {}
      BY <3>1
    <3>2. CASE s # {}
      <4> DEFINE t == s \ {choose[s]}
      <4>1. t \in SUBSET L /\ Cardinality(t) <= n
        <5>1. choose[s] \in s /\ IsFiniteSet(s) /\ Cardinality(s) \in Nat
          BY <1>1, <3>2
        <5>2. Cardinality(t) = Cardinality(s) - 1
          <6>1. \A x \in s : Cardinality(s \ {x}) = Cardinality(s) - 1
            BY <5>1, FS_RemoveElement
          <6> QED
            BY <5>1, <6>1
        <5> QED
          BY <2>3, <5>1, <5>2
      <4>2. more[t] = fold[t]
        BY <2>1, <4>1
      <4> QED
        BY <3>2, <4>2
    <3> QED
      BY <3>1, <3>2
  <2>4. Correct(more, n + 1)
    BY <2>3
  <2> HIDE DEF more, Correct
  <2> QED
    BY <2>2, <2>4
<1>4. Cardinality(L) \in T
  <2> HIDE DEF T
  <2> QED
    BY <1>1, <1>2, <1>3, NatSetInduction
<1>5. PICK fold \in [SUBSET L -> V] : Correct(fold, Cardinality(L))
  BY <1>4
<1>6. \A s \in SUBSET L : Cardinality(s) <= Cardinality(L)
  BY FS_Subset
<1> QED
  BY <1>5, <1>6 DEF Folds

\* The ranges of a configuration
Ranges == {range \in Int \X Int : range[1] <= range[2]}

\* Merging a range that begins no earlier than the intervals adds its registers.
LEMMA MergeCorrect ==
  ASSUME NEW set, IsRegisterSet(set), NEW range \in Ranges,
         \A i \in DOMAIN set : set[i][1] <= range[1]
  PROVE  LET merged == Merge(set, range) IN
         /\ IsRegisterSet(merged)
         /\ Registers(ToSet(merged)) =
              Registers(ToSet(set)) \cup range[1] .. range[2]
         /\ \A i \in DOMAIN merged : merged[i][1] <= range[1]
<1> DEFINE merged == Merge(set, range)  n == Len(set)  last == set[n]
<1>1. n \in Nat /\ DOMAIN set = 1 .. n /\ set \in Seq(Int \X Int)
  BY Intervals DEF IsRegisterSet
<1>2. \A i \in 1 .. n : /\ set[i] \in Int \X Int /\ set[i][1] \in Int /\ set[i][2] \in Int
                        /\ set[i][1] <= set[i][2] /\ set[i][1] <= range[1]
  BY <1>1, Intervals
<1>3. \A i, j \in 1 .. n : i < j => set[i][2] + 1 < set[j][1]
  BY <1>1, Intervals
<1>4. range[1] \in Int /\ range[2] \in Int /\ range[1] <= range[2] /\ range \in Int \X Int
  BY DEF Ranges
<1>5. \A s \in Seq(Int \X Int) : \A r :
        r \in Registers(ToSet(s)) <=> \E i \in 1 .. Len(s) : r \in s[i][1] .. s[i][2]
  BY DEF Registers, ToSet
<1>6. CASE set # <<>> /\ range[1] <= last[2] + 1
  <2> DEFINE end == IF last[2] <= range[2] THEN range[2] ELSE last[2]
             grown == <<last[1], end>>
  <2>1. n \in 1 .. n /\ last \in Int \X Int
    BY <1>1, <1>2, <1>6, EmptySeq
  <2>2. end \in Int /\ last[1] \in Int /\ last[2] \in Int /\ last[2] <= end
        /\ last[1] <= end /\ range[2] <= end /\ last[1] <= range[1]
    BY <1>2, <1>4, <2>1
  <2>3. Max({last[2], range[2]}) = end
    BY <1>4, <2>2, MaxOfTwo
  <2>4. merged = Append(SubSeq(set, 1, n - 1), grown)
    BY <1>6, <2>3 DEF Merge, Front, Last
  <2>5. /\ merged \in Seq(Int \X Int) /\ Len(merged) = n
        /\ merged[n] = grown /\ \A i \in 1 .. n - 1 : merged[i] = set[i]
    <3>1. grown \in Int \X Int
      BY <2>2
    <3> HIDE DEF merged, grown, n
    <3>2. /\ SubSeq(set, 1, n - 1) \in Seq(Int \X Int) /\ Len(SubSeq(set, 1, n - 1)) = n - 1
          /\ \A i \in 1 .. n - 1 : SubSeq(set, 1, n - 1)[i] = set[i]
      BY <1>1, <2>1 DEF n
    <3> QED
      BY <1>1, <2>1, <2>4, <3>1, <3>2
  <2> HIDE DEF merged, n, last, end
  <2>0. /\ \A i \in 1 .. n : i # n => i \in 1 .. n - 1
        /\ \A i \in 1 .. n - 1 : i \in 1 .. n
    <3>1. n \in Nat
      BY <1>1
    <3> QED
      BY <3>1
  <2>6. IsRegisterSet(merged)
    <3>1. DOMAIN merged = 1 .. n
      BY <2>5, LenProperties
    <3>2. \A i \in 1 .. n : merged[i][1] = set[i][1] /\ merged[i][1] <= merged[i][2]
      BY <1>1, <1>2, <2>2, <2>5 DEF last
    <3>3. \A i, j \in 1 .. n : i < j => merged[i][2] = set[i][2]
      BY <1>1, <2>5
    <3>4. \A i, j \in 1 .. n : i < j => merged[i][2] + 1 < merged[j][1]
      BY <1>3, <3>2, <3>3
    <3> QED
      BY <2>5, <3>1, <3>2, <3>4 DEF IsRegisterSet
  <2>7. ASSUME NEW r
        PROVE  r \in Registers(ToSet(merged)) <=>
                 r \in Registers(ToSet(set)) \/ r \in range[1] .. range[2]
    <3>1. r \in Registers(ToSet(merged)) <=>
            \/ \E i \in 1 .. n - 1 : r \in set[i][1] .. set[i][2]
            \/ r \in last[1] .. end
      <4>1. r \in Registers(ToSet(merged)) <=>
              \E i \in 1 .. n : r \in merged[i][1] .. merged[i][2]
        BY <1>5, <2>5
      <4>2. r \in merged[n][1] .. merged[n][2] <=> r \in last[1] .. end
        BY <2>5
      <4> QED
        BY <2>0, <2>1, <2>5, <4>1, <4>2
    <3>2. r \in Registers(ToSet(set)) <=>
            \/ \E i \in 1 .. n - 1 : r \in set[i][1] .. set[i][2]
            \/ r \in last[1] .. last[2]
      <4>1. r \in Registers(ToSet(set)) <=> \E i \in 1 .. n : r \in set[i][1] .. set[i][2]
        BY <1>1, <1>5 DEF n
      <4> QED
        BY <2>0, <2>1, <4>1 DEF last
    <3>3. r \in last[1] .. end <=> r \in last[1] .. last[2] \/ r \in range[1] .. range[2]
      BY <1>4, <1>6, <2>2 DEF end
    <3> QED
      BY <3>1, <3>2, <3>3
  <2>8. \A i \in DOMAIN merged : merged[i][1] <= range[1]
    <3> SUFFICES ASSUME NEW i \in DOMAIN merged PROVE merged[i][1] <= range[1]
      OBVIOUS
    <3>1. i \in 1 .. n
      BY <2>5, LenProperties
    <3>2. merged[i][1] = set[i][1]
      <4>1. CASE i = n
        BY <2>5, <4>1 DEF last, n
      <4>2. CASE i # n
        <5>1. i \in 1 .. n - 1
          BY <2>0, <3>1, <4>2
        <5> QED
          BY <2>5, <5>1 DEF n
      <4> QED
        BY <4>1, <4>2
    <3> QED
      BY <1>2, <3>1, <3>2 DEF n
  <2> QED
    BY <2>6, <2>7, <2>8 DEF merged
<1>7. CASE ~ (set # <<>> /\ range[1] <= last[2] + 1)
  <2>1. merged = Append(set, range)
    BY <1>7 DEF Merge, Last
  <2>2. /\ merged \in Seq(Int \X Int) /\ Len(merged) = n + 1 /\ DOMAIN merged = 1 .. n + 1
        /\ merged[n + 1] = range /\ \A i \in 1 .. n : merged[i] = set[i]
    BY <1>1, <1>4, <2>1
  <2>3. \A i \in 1 .. n : set[i][2] + 1 < range[1]
    <3> SUFFICES ASSUME NEW i \in 1 .. n PROVE set[i][2] + 1 < range[1]
      OBVIOUS
    <3>1. set # <<>> /\ n \in 1 .. n
      BY <1>1
    <3>2. last[2] \in Int /\ last[2] + 1 < range[1]
      BY <1>2, <1>4, <1>7, <3>1
    <3>3. i = n \/ (set[i][2] + 1 < last[1] /\ last[1] <= last[2])
      <4>1. i = n \/ i < n
        BY <1>1
      <4>2. i < n => set[i][2] + 1 < last[1]
        BY <1>3, <3>1
      <4>3. last[1] <= last[2]
        BY <1>2, <3>1
      <4> QED
        BY <4>1, <4>2, <4>3
    <3> QED
      BY <1>2, <1>4, <3>1, <3>2, <3>3
  <2> HIDE DEF merged, n
  <2>4. IsRegisterSet(merged)
    <3>1. \A i \in 1 .. n + 1 : i \in 1 .. n \/ i = n + 1
      BY <1>1 DEF n
    <3>2. \A i \in 1 .. n + 1 : merged[i][1] <= merged[i][2]
      BY <1>2, <1>4, <2>2, <3>1 DEF n
    <3>3. ASSUME NEW i \in 1 .. n + 1, NEW j \in 1 .. n + 1, i < j
          PROVE  merged[i][2] + 1 < merged[j][1]
      <4>1. i \in 1 .. n
        BY <1>1, <3>3 DEF n
      <4>2. CASE j \in 1 .. n
        BY <1>3, <2>2, <3>3, <4>1, <4>2 DEF n
      <4>3. CASE j = n + 1
        BY <2>2, <2>3, <4>1, <4>3 DEF n
      <4> QED
        BY <3>1, <4>2, <4>3
    <3> QED
      BY <2>2, <3>2, <3>3 DEF IsRegisterSet
  <2>5. ASSUME NEW r
        PROVE  r \in Registers(ToSet(merged)) <=>
                 r \in Registers(ToSet(set)) \/ r \in range[1] .. range[2]
    <3>1. r \in Registers(ToSet(set)) <=> \E i \in 1 .. n : r \in set[i][1] .. set[i][2]
      BY <1>1, <1>5 DEF n
    <3>2. r \in Registers(ToSet(merged)) <=>
            \E i \in 1 .. n + 1 : r \in merged[i][1] .. merged[i][2]
      BY <1>5, <2>2
    <3>3. \A i \in 1 .. n + 1 : i \in 1 .. n \/ i = n + 1
      BY <1>1 DEF n
    <3>4. n + 1 \in 1 .. n + 1 /\ \A i \in 1 .. n : i \in 1 .. n + 1
      BY <1>1 DEF n
    <3> QED
      BY <2>2, <3>1, <3>2, <3>3, <3>4
  <2>6. \A i \in DOMAIN merged : merged[i][1] <= range[1]
    BY <1>1, <1>2, <1>4, <2>2
  <2> QED
    BY <2>4, <2>5, <2>6 DEF merged
<1> QED
  BY <1>6, <1>7

\* Of finitely many integers, one is the greatest.
LEMMA GreatestOfFinite ==
  ASSUME NEW S, IsFiniteSet(S), S # {}, NEW f, \A x \in S : f[x] \in Int
  PROVE  \E x \in S : \A y \in S : f[y] <= f[x]
<1> DEFINE T == {n \in Nat : \A s \in SUBSET S :
                   s # {} /\ Cardinality(s) = n => \E x \in s : \A y \in s : f[y] <= f[x]}
<1>1. \A s \in SUBSET S : IsFiniteSet(s) /\ Cardinality(s) \in Nat
  BY FS_Subset, FS_CardinalityType
<1>2. 0 \in T
  BY <1>1, FS_EmptySet
<1>3. ASSUME NEW n \in Nat, n \in T PROVE n + 1 \in T
  <2> SUFFICES ASSUME NEW s \in SUBSET S, s # {}, Cardinality(s) = n + 1
               PROVE  \E x \in s : \A y \in s : f[y] <= f[x]
    OBVIOUS
  <2>1. PICK z \in s : TRUE
    OBVIOUS
  <2>2. s \ {z} \in SUBSET S /\ Cardinality(s \ {z}) = n
    <3>1. Cardinality(s \ {z}) = Cardinality(s) - 1
      BY <1>1, <2>1, FS_RemoveElement
    <3> QED
      BY <3>1
  <2>3. CASE s \ {z} = {}
    BY <2>1, <2>3
  <2>4. CASE s \ {z} # {}
    <3>1. PICK x \in s \ {z} : \A y \in s \ {z} : f[y] <= f[x]
      BY <1>3, <2>2, <2>4
    <3>2. CASE f[z] <= f[x]
      BY <3>1, <3>2
    <3>3. CASE f[x] <= f[z]
      <4>1. \A y \in s : f[y] <= f[z]
        BY <2>1, <3>1, <3>3
      <4> QED
        BY <2>1, <4>1
    <3> QED
      BY <2>1, <3>2, <3>3
  <2> QED
    BY <2>3, <2>4
<1>4. Cardinality(S) \in T
  <2> HIDE DEF T
  <2> QED
    BY <1>1, <1>2, <1>3, NatSetInduction
<1> QED
  BY <1>4

\* One of a finite set of ranges begins last.
LEMMA LastRangeExists ==
  ASSUME NEW ranges \in SUBSET Ranges, IsFiniteSet(ranges), ranges # {}
  PROVE  /\ LastRange(ranges) \in ranges
         /\ \A other \in ranges : other[1] <= LastRange(ranges)[1]
<1> DEFINE begin == [r \in ranges |-> r[1]]
<1>1. \A r \in ranges : begin[r] \in Int
  BY DEF Ranges
<1>2. PICK r \in ranges : \A other \in ranges : begin[other] <= begin[r]
  <2> HIDE DEF begin
  <2> QED
    BY <1>1, GreatestOfFinite
<1>3. \A other \in ranges : other[1] <= r[1]
  BY <1>2
<1> QED
  BY <1>3 DEF LastRange

\* The ranges that are kept have all the registers.
LEMMA LongestRangesFacts ==
  ASSUME NEW ranges \in SUBSET Ranges, IsFiniteSet(ranges)
  PROVE  /\ LongestRanges(ranges) \in SUBSET ranges
         /\ Registers(LongestRanges(ranges)) = Registers(ranges)
<1>1. LongestRanges(ranges) \in SUBSET ranges
  BY DEF LongestRanges
<1>2. ASSUME NEW r \in ranges
      PROVE  \E longest \in LongestRanges(ranges) : r[1] .. r[2] \subseteq longest[1] .. longest[2]
  <2> DEFINE S == {other \in ranges : other[1] = r[1]}
             end == [other \in S |-> other[2]]
  <2>1. IsFiniteSet(S) /\ S # {} /\ \A x \in S : end[x] \in Int
    <3>1. S \subseteq ranges /\ r \in S
      OBVIOUS
    <3> QED
      BY <3>1, FS_Subset DEF Ranges
  <2>2. PICK x \in S : \A y \in S : end[y] <= end[x]
    <3> HIDE DEF S, end
    <3> QED
      BY <2>1, GreatestOfFinite
  <2>3. x \in LongestRanges(ranges)
    BY <2>2 DEF LongestRanges
  <2>4. r[1] \in Int /\ r[2] \in Int /\ x[1] = r[1] /\ x[2] \in Int /\ r[2] <= x[2]
    BY <2>2 DEF Ranges
  <2> QED
    BY <2>3, <2>4
<1> QED
  BY <1>1, <1>2 DEF Registers

\* The constructor is right: the intervals of any configured ranges are sorted and
\* neither overlap nor touch, and together they have the registers of the ranges.
THEOREM IntervalsOfRangesCorrect ==
  ASSUME NEW ranges \in SUBSET Ranges, IsFiniteSet(ranges)
  PROVE  /\ IsRegisterSet(IntervalsOfRanges(ranges))
         /\ Registers(ToSet(IntervalsOfRanges(ranges))) = Registers(ranges)
<1> DEFINE L == LongestRanges(ranges)
           V == Seq(Int \X Int)
           choose == [s \in SUBSET L |-> LastRange(s)]
           step == [vr \in V \X L |-> Merge(vr[1], vr[2])]
           IsFold(fold) == fold = [s \in SUBSET L |->
             IF s = {} THEN <<>> ELSE Merge(fold[s \ {LastRange(s)}], LastRange(s))]
<1>1. L \in SUBSET ranges /\ IsFiniteSet(L) /\ Registers(L) = Registers(ranges)
  BY LongestRangesFacts, FS_Subset
<1>2. ASSUME NEW s \in SUBSET L, s # {}
      PROVE  /\ LastRange(s) \in s
             /\ \A other \in s : other[1] <= LastRange(s)[1]
  <2>1. s \in SUBSET Ranges /\ IsFiniteSet(s)
    BY <1>1, FS_Subset
  <2> QED
    BY <1>2, <2>1, LastRangeExists
<1> HIDE DEF L
<1>3. \E fold : IsFold(fold)
  <2>1. \A v \in V, r \in L : Merge(v, r) \in V
    <3> SUFFICES ASSUME NEW v \in V, NEW r \in L PROVE Merge(v, r) \in V
      OBVIOUS
    <3>1. r \in Int \X Int /\ r[1] \in Int /\ r[2] \in Int
      BY <1>1 DEF Ranges
    <3>2. CASE v # <<>> /\ r[1] <= v[Len(v)][2] + 1
      <4>1. Len(v) \in 1 .. Len(v) /\ Len(v) \in Nat
        BY <3>2, EmptySeq, LenProperties
      <4>2. v[Len(v)] \in Int \X Int
        BY <4>1, ElementOfSeq
      <4>3. Max({v[Len(v)][2], r[2]}) \in Int
        BY <3>1, <4>2, MaxOfTwo
      <4>4. SubSeq(v, 1, Len(v) - 1) \in V
        BY <4>1
      <4> QED
        BY <3>2, <4>2, <4>3, <4>4 DEF Merge, Last, Front
    <3>3. CASE ~ (v # <<>> /\ r[1] <= v[Len(v)][2] + 1)
      BY <3>1, <3>3 DEF Merge, Last
    <3> QED
      BY <3>2, <3>3
  <2>2. step \in [V \X L -> V]
    BY <2>1
  <2>3. \A s \in SUBSET L : s # {} => choose[s] \in s
    BY <1>2
  <2>4. <<>> \in V
    OBVIOUS
  <2>5. PICK fold : Folds(fold, L, V, <<>>, step, choose)
    <3>1. step \in StepsFor(V, L) /\ Takes(choose, L)
      BY <2>2, <2>3 DEF StepsFor, Takes
    <3> HIDE DEF V, choose, step, IsFold
    <3> QED
      BY <1>1, <2>4, <3>1, FoldExists, Zenon
  <2>6. ASSUME NEW s \in SUBSET L
        PROVE  fold[s] =
                 IF s = {} THEN <<>> ELSE Merge(fold[s \ {LastRange(s)}], LastRange(s))
    <3>1. CASE s = {}
      BY <2>5, <3>1 DEF Folds
    <3>2. CASE s # {}
      <4>1. LastRange(s) \in L /\ fold[s \ {LastRange(s)}] \in V
        BY <1>2, <2>5, <3>2 DEF Folds
      <4>2. step[<<fold[s \ {LastRange(s)}], LastRange(s)>>] =
              Merge(fold[s \ {LastRange(s)}], LastRange(s))
        BY <4>1
      <4> HIDE DEF step
      <4> QED
        BY <2>5, <3>2, <4>2 DEF Folds
    <3> QED
      BY <3>1, <3>2
  <2>7. IsFold(fold)
    <3>1. fold \in [SUBSET L -> V]
      BY <2>5 DEF Folds
    <3> HIDE DEF V
    <3> QED
      BY <2>6, <3>1
  <2> HIDE DEF IsFold
  <2> QED
    BY <2>7
<1> DEFINE iter == CHOOSE fold : IsFold(fold)
<1>4. IntervalsOfRanges(ranges) = iter[L]
  BY DEF IntervalsOfRanges, MapThenFoldSet, L
<1>5. IsFold(iter)
  <2> HIDE DEF IsFold
  <2> QED
    BY <1>3, Zenon
<1>6. \A s \in SUBSET L : iter[s] =
        IF s = {} THEN <<>> ELSE Merge(iter[s \ {LastRange(s)}], LastRange(s))
  BY <1>5
<1> HIDE DEF iter
<1> DEFINE Right(s) == /\ IsRegisterSet(iter[s])
                       /\ Registers(ToSet(iter[s])) = Registers(s)
                       /\ \A i \in DOMAIN iter[s] : \E r \in s : iter[s][i][1] <= r[1]
           T == {n \in Nat : \A s \in SUBSET L : Cardinality(s) = n => Right(s)}
<1>7. \A s \in SUBSET L : IsFiniteSet(s) /\ Cardinality(s) \in Nat
  BY <1>1, FS_Subset, FS_CardinalityType
<1>8. Right({})
  <2>1. iter[{}] = <<>>
    BY <1>6
  <2>2. IsRegisterSet(<<>>) /\ Registers(ToSet(<<>>)) = Registers({})
    BY DEF IsRegisterSet, Registers, ToSet
  <2> QED
    BY <2>1, <2>2
<1>9. 0 \in T
  BY <1>7, <1>8, FS_EmptySet
<1>10. ASSUME NEW n \in Nat, n \in T PROVE n + 1 \in T
  <2> SUFFICES ASSUME NEW s \in SUBSET L, Cardinality(s) = n + 1
               PROVE  Right(s)
    OBVIOUS
  <2> DEFINE last == LastRange(s)  rest == s \ {last}
  <2>1. s # {}
    BY FS_EmptySet
  <2>2. last \in s /\ \A other \in s : other[1] <= last[1]
    BY <1>2, <2>1
  <2>3. rest \in SUBSET L /\ Cardinality(rest) = n
    <3>1. \A x \in s : Cardinality(s \ {x}) = Cardinality(s) - 1
      BY <1>7, FS_RemoveElement
    <3> QED
      BY <2>2, <3>1
  <2>4. Right(rest)
    BY <1>10, <2>3
  <2>5. iter[s] = Merge(iter[rest], last)
    BY <1>6, <2>1
  <2>6. last \in Ranges /\ \A r \in s : r[1] \in Int
    BY <1>1, <2>2 DEF Ranges
  <2>7. \A i \in DOMAIN iter[rest] : iter[rest][i][1] <= last[1]
    <3>1. \A i \in DOMAIN iter[rest] : iter[rest][i][1] \in Int
      BY <2>4, Intervals
    <3> SUFFICES ASSUME NEW i \in DOMAIN iter[rest] PROVE iter[rest][i][1] <= last[1]
      OBVIOUS
    <3>2. PICK r \in rest : iter[rest][i][1] <= r[1]
      BY <2>4
    <3>3. r[1] <= last[1] /\ r[1] \in Int /\ last[1] \in Int
      BY <2>2, <2>6, <3>2
    <3>4. iter[rest][i][1] \in Int
      BY <3>1
    <3> QED
      BY <3>2, <3>3, <3>4
  <2>8. Registers(s) = Registers(rest) \cup last[1] .. last[2]
    BY <2>2 DEF Registers
  <2> HIDE DEF last, rest
  <2>9. /\ IsRegisterSet(iter[s])
        /\ Registers(ToSet(iter[s])) = Registers(s)
        /\ \A i \in DOMAIN iter[s] : iter[s][i][1] <= last[1]
    BY <2>4, <2>5, <2>6, <2>7, <2>8, MergeCorrect
  <2> QED
    BY <2>2, <2>9
<1>11. Cardinality(L) \in T
  <2> HIDE DEF T
  <2> QED
    BY <1>7, <1>9, <1>10, NatSetInduction
<1>12. Right(L)
  BY <1>11
<1> QED
  BY <1>1, <1>4, <1>12

-----------------------------------------------------------------------------
(* The subset relation                                                     *)

\* The i-th interval of `other' contains the k-th of `set'.
Covers(other, i, set, k) == other[i][1] <= set[k][1] /\ set[k][2] <= other[i][2]

\* Because intervals do not touch, consecutive registers are in a single one.
LEMMA SubsetIsCovered ==
  ASSUME NEW set, IsRegisterSet(set), NEW other, IsRegisterSet(other)
  PROVE  Registers(ToSet(set)) \subseteq Registers(ToSet(other)) <=>
           \A k \in DOMAIN set : \E i \in DOMAIN other : Covers(other, i, set, k)
<1> DEFINE In(s, i, r) == s[i][1] <= r /\ r <= s[i][2]
<1>1. \A s : \A r : IsRegisterSet(s) =>
        (r \in Registers(ToSet(s)) <=> \E i \in DOMAIN s : r \in s[i][1] .. s[i][2])
  BY DEF Registers, ToSet
<1>2. ASSUME Registers(ToSet(set)) \subseteq Registers(ToSet(other)), NEW k \in DOMAIN set
      PROVE  \E i \in DOMAIN other : Covers(other, i, set, k)
  <2>1. set[k][1] \in Int /\ set[k][2] \in Int /\ set[k][1] <= set[k][2]
    BY Intervals
  <2>2. set[k][1] .. set[k][2] \subseteq Registers(ToSet(other))
    BY <1>1, <1>2
  <2>3. PICK i \in DOMAIN other : set[k][1] \in other[i][1] .. other[i][2]
    BY <1>1, <2>1, <2>2
  <2>4. other[i][1] \in Int /\ other[i][2] \in Int
    BY Intervals
  <2>5. ASSUME other[i][2] < set[k][2] PROVE FALSE
    <3>1. other[i][2] + 1 \in set[k][1] .. set[k][2]
      BY <2>1, <2>3, <2>4, <2>5
    <3>2. PICK j \in DOMAIN other : other[i][2] + 1 \in other[j][1] .. other[j][2]
      BY <1>1, <2>2, <3>1
    <3>3. other[j][1] \in Int /\ other[j][2] \in Int
      BY Intervals
    <3>4. i < j => other[i][2] + 1 < other[j][1]
      BY Intervals
    <3>5. j < i => other[j][2] + 1 < other[i][1]
      BY Intervals
    <3>6. i \in Int /\ j \in Int
      BY Intervals
    <3> QED
      BY <2>3, <2>4, <3>2, <3>3, <3>4, <3>5, <3>6
  <2> QED
    BY <2>1, <2>3, <2>4, <2>5 DEF Covers
<1>3. ASSUME \A k \in DOMAIN set : \E i \in DOMAIN other : Covers(other, i, set, k),
             NEW r \in Registers(ToSet(set))
      PROVE  r \in Registers(ToSet(other))
  <2>1. PICK k \in DOMAIN set : r \in set[k][1] .. set[k][2]
    BY <1>1
  <2>2. PICK i \in DOMAIN other : Covers(other, i, set, k)
    BY <1>3
  <2>3. r \in other[i][1] .. other[i][2]
    BY <2>1, <2>2, Intervals DEF Covers
  <2> QED
    BY <1>1, <2>3
<1> QED
  BY <1>2, <1>3

\* What the sweep through the other set has found out after k intervals
Swept(set, other, k, i) ==
  /\ i \in 0 .. Len(other) + 1
  /\ i = 0 => \E j \in 1 .. k : \A m \in DOMAIN other : ~ Covers(other, m, set, j)
  /\ i # 0 => \A j \in 1 .. k : \E m \in DOMAIN other : Covers(other, m, set, j)
  /\ i # 0 => \A m \in DOMAIN other : \A j \in DOMAIN set :
                m < i /\ k < j => other[m][2] < set[j][2]

LEMMA SweepCorrect ==
  ASSUME NEW set, IsRegisterSet(set), NEW other, IsRegisterSet(other),
         NEW k \in DOMAIN set, NEW i, Swept(set, other, k - 1, i)
  PROVE  Swept(set, other, k, Sweep(other, i, set[k]))
<1> DEFINE later == {m \in i .. Len(other) : other[m][2] >= set[k][2]}
<1>1. /\ DOMAIN set = 1 .. Len(set) /\ Len(set) \in Nat /\ k \in 1 .. Len(set)
      /\ DOMAIN other = 1 .. Len(other) /\ Len(other) \in Nat
  BY Intervals
<1>2. \A j \in DOMAIN set : set[j][1] \in Int /\ set[j][2] \in Int /\ set[j][1] <= set[j][2]
  BY Intervals
<1>3. \A m \in DOMAIN other : other[m][1] \in Int /\ other[m][2] \in Int
  BY Intervals
<1>4. \A j \in DOMAIN set : k < j => set[k][2] < set[j][2]
  BY <1>2, Intervals
<1>5. \A m, n \in DOMAIN other : m < n => other[m][1] < other[n][1]
  BY <1>3, Intervals
<1>6. i \in 0 .. Len(other) + 1
  BY DEF Swept
<1>7. \A j \in 1 .. k - 1 : j \in 1 .. k
  BY <1>1
<1>8. k \in 1 .. k /\ \A j \in 1 .. k : j = k \/ j \in 1 .. k - 1
  BY <1>1
<1>9. CASE i = 0
  <2>1. Sweep(other, i, set[k]) = 0
    BY <1>9 DEF Sweep
  <2> QED
    BY <1>1, <1>7, <1>9, <2>1 DEF Swept
<1>10. CASE i # 0
  <2>1. \A m \in DOMAIN other : m < i => other[m][2] < set[k][2]
    BY <1>1, <1>10 DEF Swept
  <2>2. later \subseteq DOMAIN other
    BY <1>1, <1>6, <1>10
  <2>3. \A m \in DOMAIN other : Covers(other, m, set, k) => m \in later
    <3> SUFFICES ASSUME NEW m \in DOMAIN other, Covers(other, m, set, k) PROVE m \in later
      OBVIOUS
    <3>1. other[m][2] >= set[k][2] /\ ~ m < i
      BY <1>2, <1>3, <2>1 DEF Covers
    <3> QED
      BY <1>1, <1>6, <3>1
  <2>4. CASE later = {}
    <3>1. Sweep(other, i, set[k]) = 0
      BY <2>4 DEF Sweep
    <3>2. \A m \in DOMAIN other : ~ Covers(other, m, set, k)
      BY <2>3, <2>4
    <3> QED
      BY <1>1, <1>8, <3>1, <3>2 DEF Swept
  <2>5. CASE later # {}
    <3>1. Min(later) \in later /\ \A m \in later : Min(later) <= m
      <4>1. later \in SUBSET Int /\ \A m \in later : i <= m
        BY <1>6
      <4>2. i \in Int
        BY <1>6
      <4> HIDE DEF later
      <4> QED
        BY <2>5, <4>1, <4>2, MinOfInts
    <3>2. Min(later) \in DOMAIN other /\ i <= Min(later) /\ other[Min(later)][2] >= set[k][2]
      BY <2>2, <3>1
    <3>3. CASE other[Min(later)][1] <= set[k][1]
      <4>1. Sweep(other, i, set[k]) = Min(later)
        BY <1>10, <2>5, <3>3 DEF Sweep
      <4>2. Covers(other, Min(later), set, k)
        BY <1>2, <1>3, <3>2, <3>3 DEF Covers
      <4>3. \A m \in DOMAIN other : m < Min(later) => other[m][2] < set[k][2]
        <5> SUFFICES ASSUME NEW m \in DOMAIN other, m < Min(later) PROVE other[m][2] < set[k][2]
          OBVIOUS
        <5>1. m \notin later
          BY <1>1, <3>1, <3>2
        <5>2. m < i \/ ~ other[m][2] >= set[k][2]
          BY <1>1, <1>6, <5>1
        <5> QED
          BY <1>2, <1>3, <2>1, <5>2
      <4>4. \A m \in DOMAIN other : \A j \in DOMAIN set :
              m < Min(later) /\ k < j => other[m][2] < set[j][2]
        BY <1>2, <1>3, <1>4, <4>3
      <4>5. \A j \in 1 .. k : \E m \in DOMAIN other : Covers(other, m, set, j)
        BY <1>8, <1>10, <3>2, <4>2 DEF Swept
      <4>6. Min(later) \in 0 .. Len(other) + 1 /\ Min(later) # 0
        BY <1>1, <3>2
      <4> HIDE DEF later
      <4> QED
        BY <4>1, <4>4, <4>5, <4>6 DEF Swept
    <3>4. CASE ~ other[Min(later)][1] <= set[k][1]
      <4>1. Sweep(other, i, set[k]) = 0
        BY <1>10, <3>4 DEF Sweep
      <4>2. ASSUME NEW m \in DOMAIN other, Covers(other, m, set, k) PROVE FALSE
        <5>1. m \in later /\ Min(later) <= m
          BY <2>3, <3>1, <4>2
        <5>2. other[Min(later)][1] <= other[m][1]
          BY <1>1, <1>3, <1>5, <3>2, <5>1
        <5> QED
          BY <1>2, <1>3, <3>2, <3>4, <4>2, <5>2 DEF Covers
      <4> QED
        BY <1>1, <1>8, <4>1, <4>2 DEF Swept
    <3> QED
      BY <3>3, <3>4
  <2> QED
    BY <2>4, <2>5
<1> QED
  BY <1>9, <1>10

\* operator<= is right, which PortFinderPlan orders the buses by: it holds if and only if
\* each register of the one set is in the other.
THEOREM SubsetOfCorrect ==
  ASSUME NEW set, IsRegisterSet(set), NEW other, IsRegisterSet(other)
  PROVE  SubsetOf(set, other) <=> Registers(ToSet(set)) \subseteq Registers(ToSet(other))
<1> DEFINE L == DOMAIN set
           V == 0 .. Len(other) + 1
           choose == [s \in SUBSET L |-> Max(s)]
           step == [ik \in V \X L |-> Sweep(other, ik[1], set[ik[2]])]
           IsFold(fold) == fold = [s \in SUBSET L |->
             IF s = {} THEN 1 ELSE Sweep(other, fold[s \ {Max(s)}], set[Max(s)])]
<1>1. /\ L = 1 .. Len(set) /\ Len(set) \in Nat
      /\ DOMAIN other = 1 .. Len(other) /\ Len(other) \in Nat
  BY Intervals
<1>2. IsFiniteSet(L)
  BY <1>1, FS_Interval
<1>3. ASSUME NEW s \in SUBSET L, s # {} PROVE Max(s) \in s /\ \A n \in s : n <= Max(s)
  <2>1. s \in SUBSET Int /\ \A n \in s : n <= Len(set)
    BY <1>1
  <2>2. s # {} /\ Len(set) \in Int
    BY <1>1, <1>3
  <2> HIDE DEF L
  <2> QED
    BY <2>1, <2>2, MaxOfInts
<1>4. \A i \in V, k \in L : Sweep(other, i, set[k]) \in V
  <2> SUFFICES ASSUME NEW i \in V, NEW k \in L PROVE Sweep(other, i, set[k]) \in V
    OBVIOUS
  <2> DEFINE later == {m \in i .. Len(other) : other[m][2] >= set[k][2]}
  <2>1. ASSUME later # {} PROVE Min(later) \in V
    <3>1. later \in SUBSET Int /\ later \subseteq V /\ \A m \in later : i <= m
      BY <1>1
    <3>2. i \in Int
      BY <1>1
    <3> HIDE DEF later
    <3>3. Min(later) \in later
      BY <2>1, <3>1, <3>2, MinOfInts
    <3> QED
      BY <3>1, <3>3
  <2> QED
    BY <1>1, <2>1 DEF Sweep
<1>5. \E fold : IsFold(fold)
  <2>1. step \in StepsFor(V, L) /\ Takes(choose, L) /\ 1 \in V
    BY <1>1, <1>3, <1>4 DEF StepsFor, Takes
  <2>2. PICK fold : Folds(fold, L, V, 1, step, choose)
    <3> HIDE DEF V, choose, step, IsFold, L
    <3> QED
      BY <1>2, <2>1, FoldExists
  <2>3. ASSUME NEW s \in SUBSET L
        PROVE  fold[s] = IF s = {} THEN 1 ELSE Sweep(other, fold[s \ {Max(s)}], set[Max(s)])
    <3>1. CASE s = {}
      BY <2>2, <3>1 DEF Folds
    <3>2. CASE s # {}
      <4>1. Max(s) \in L /\ fold[s \ {Max(s)}] \in V
        BY <1>3, <2>2, <3>2 DEF Folds
      <4>2. step[<<fold[s \ {Max(s)}], Max(s)>>] =
              Sweep(other, fold[s \ {Max(s)}], set[Max(s)])
        BY <4>1
      <4> HIDE DEF step
      <4> QED
        BY <2>2, <3>2, <4>2 DEF Folds
    <3> QED
      BY <3>1, <3>2
  <2>4. fold \in [SUBSET L -> V]
    BY <2>2 DEF Folds
  <2> HIDE DEF V, L
  <2> QED
    BY <2>3, <2>4
<1> DEFINE iter == CHOOSE fold : IsFold(fold)
<1>6. SubsetOf(set, other) <=> iter[L] # 0
  BY DEF SubsetOf, FoldLeft, MapThenFoldSet
<1>7. IsFold(iter)
  <2> HIDE DEF IsFold
  <2> QED
    BY <1>5, Zenon
<1>8. \A s \in SUBSET L : iter[s] =
        IF s = {} THEN 1 ELSE Sweep(other, iter[s \ {Max(s)}], set[Max(s)])
  BY <1>7
<1> HIDE DEF iter
<1> DEFINE T == {k \in Nat : k <= Len(set) => Swept(set, other, k, iter[1 .. k])}
<1>9. 0 \in T
  <2>1. iter[{}] = 1 /\ 1 .. 0 = {}
    BY <1>8
  <2> QED
    BY <1>1, <2>1 DEF Swept
<1>10. ASSUME NEW k \in Nat, k \in T PROVE k + 1 \in T
  <2> SUFFICES ASSUME k + 1 <= Len(set) PROVE Swept(set, other, k + 1, iter[1 .. k + 1])
    OBVIOUS
  <2> DEFINE s == 1 .. k + 1
  <2>1. s \in SUBSET L /\ s # {} /\ k + 1 \in s /\ k + 1 \in DOMAIN set
    BY <1>1
  <2>2. Max(s) = k + 1
    <3>1. Max(s) \in s /\ k + 1 <= Max(s)
      BY <1>3, <2>1
    <3> QED
      BY <3>1
  <2>3. s \ {k + 1} = 1 .. k
    OBVIOUS
  <2>4. iter[s] = Sweep(other, iter[1 .. k], set[k + 1])
    BY <1>8, <2>1, <2>2, <2>3
  <2>5. Swept(set, other, (k + 1) - 1, iter[1 .. k])
    BY <1>10
  <2> HIDE DEF T
  <2> QED
    BY <2>1, <2>4, <2>5, SweepCorrect
<1>11. Len(set) \in T
  <2> HIDE DEF T
  <2> QED
    BY <1>1, <1>9, <1>10, NatSetInduction
<1>12. Swept(set, other, Len(set), iter[L])
  BY <1>1, <1>11
<1>13. iter[L] # 0 <=> \A k \in DOMAIN set : \E i \in DOMAIN other : Covers(other, i, set, k)
  BY <1>1, <1>12 DEF Swept
<1> QED
  BY <1>6, <1>13, SubsetIsCovered

=============================================================================
