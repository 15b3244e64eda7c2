--------------------------- MODULE BurstPlanProofs ---------------------------
(***************************************************************************)
(* Theorems about BurstPlan, for any sets of registers of a device, any    *)
(* task and any burst size: the plan is optimal.                           *)
(***************************************************************************)
EXTENDS BurstPlan, RegisterSetProofs

-----------------------------------------------------------------------------
(* The inputs                                                              *)

\* With what the constructor is called
Inputs ==
  /\ IsRegisterSet(holding) /\ IsRegisterSet(input)
  /\ task \in Seq(Ints \ {-INT_MAX - 1}) /\ max_burst_size \in Sizes

\* The registers of the task are finitely many.
LEMMA UsedFacts ==
  ASSUME Inputs
  PROVE  /\ used_registers \in SUBSET (Ints \ {-INT_MAX - 1}) /\ used_registers \in SUBSET Int
         /\ IsFiniteSet(used_registers)
         /\ DOMAIN task = 1 .. Len(task) /\ Len(task) \in Nat
         /\ \A i \in DOMAIN task : task[i] \in used_registers
         /\ used_registers = {} <=> task = <<>>
<1>1. DOMAIN task = 1 .. Len(task) /\ Len(task) \in Nat
  BY LenProperties DEF Inputs
<1>2. \A i \in DOMAIN task : task[i] \in Ints \ {-INT_MAX - 1}
  BY <1>1, ElementOfSeq DEF Inputs
<1>3. used_registers \in SUBSET (Ints \ {-INT_MAX - 1})
  BY <1>2 DEF used_registers, ToSet
<1>4. Ints \in SUBSET Int /\ IsFiniteSet(Ints)
  BY WidthsType, FS_Interval DEF Ints
<1>5. IsFiniteSet(used_registers)
  BY <1>3, <1>4, FS_Subset
<1>6. \A i \in DOMAIN task : task[i] \in used_registers
  BY DEF used_registers, ToSet
<1>7. used_registers = {} <=> task = <<>>
  <2>1. ASSUME task # <<>> PROVE used_registers # {}
    <3>1. 1 \in DOMAIN task
      BY <1>1, <2>1, EmptySeq DEF Inputs
    <3> QED
      BY <1>6, <3>1
  <2>2. ASSUME task = <<>> PROVE used_registers = {}
    BY <2>2 DEF used_registers, ToSet
  <2> QED
    BY <2>1, <2>2
<1> QED
  BY <1>1, <1>3, <1>4, <1>5, <1>6, <1>7

\* Some of them have a first and a last register.
LEMMA MinMaxUsed ==
  ASSUME Inputs, NEW S \in SUBSET used_registers, S # {}
  PROVE  /\ Min(S) \in S /\ \A u \in S : Min(S) <= u
         /\ Max(S) \in S /\ \A u \in S : u <= Max(S)
<1>1. S \in SUBSET Int /\ \A u \in S : -INT_MAX - 1 <= u /\ u <= INT_MAX
  BY UsedFacts, WidthsType DEF Ints
<1>2. INT_MAX \in Int /\ -INT_MAX - 1 \in Int
  BY WidthsType
<1>3. Min(S) \in S /\ \A u \in S : Min(S) <= u
  BY <1>1, <1>2, MinOfInts
<1>4. Max(S) \in S /\ \A u \in S : u <= Max(S)
  BY <1>1, <1>2, MaxOfInts
<1> QED
  BY <1>3, <1>4

\* The conversion to int
LEMMA ToIntFacts ==
  ASSUME NEW n \in Int, n >= -INT_MAX - 1
  PROVE  /\ ToInt(n) \in Ints /\ ToInt(n) <= n
         /\ n <= INT_MAX => ToInt(n) = n
<1> DEFINE m == n + INT_MAX + 1  M == 2 * INT_MAX + 2
<1>1. m \in Nat /\ M \in Nat \ {0}
  BY WidthsType
<1>2. m < M => m % M = m
  <2> HIDE DEF m, M
  <2> QED
    BY <1>1
<1>3. m % M \in 0 .. M - 1
  <2> HIDE DEF m, M
  <2> QED
    BY <1>1
<1>4. m % M <= m
  <2> HIDE DEF m, M
  <2> QED
    BY <1>1, <1>2, <1>3
<1>5. ToInt(n) = (m % M) - INT_MAX - 1
  BY DEF ToInt
<1>6. INT_MAX \in Nat
  BY WidthsType
<1> DEFINE x == m % M
<1>7. x \in Int /\ x <= m /\ x \in 0 .. M - 1 /\ (m < M => x = m) /\ ToInt(n) = x - INT_MAX - 1
  BY <1>2, <1>3, <1>4, <1>5, <1>1
<1> HIDE DEF x
<1> QED
  BY <1>6, <1>7 DEF Ints

\* The largest burst that is allowed
Limited == Max({max_burst_size, 1})

NoOverflow == \A r \in used_registers : r + max_burst_size - 1 <= INT_MAX

LEMMA LimitedFacts ==
  ASSUME Inputs
  PROVE  /\ max_burst_size \in Nat /\ Limited \in Nat \ {0}
         /\ Limited = IF max_burst_size <= 1 THEN 1 ELSE max_burst_size
<1>1. max_burst_size \in Nat
  BY WidthsType DEF Inputs, Sizes
<1> QED
  BY <1>1, MaxOfTwo DEF Limited

\* The registers from r on that can be read as the type of r; and no type goes further.
LEMMA EndOfType ==
  ASSUME Inputs, NEW r \in Int
  PROVE  LET end == Max({endOfRange(holding, r), endOfRange(input, r)}) IN
         /\ end \in Int /\ end >= r - 1
         /\ r .. end \subseteq RegistersOf(Type(r)) /\ Type(r) \in {"holding", "input"}
         /\ Readable(r) <=> end >= r
         /\ \A type \in {"holding", "input"} : \A e \in Int :
              r <= e /\ r .. e \subseteq RegistersOf(type) => e <= end
<1> DEFINE h == endOfRange(holding, r)  i == endOfRange(input, r)  end == Max({h, i})
<1>1. /\ h \in Int /\ h >= r - 1 /\ r .. h \subseteq Registers(ToSet(holding))
      /\ h + 1 \notin Registers(ToSet(holding))
  BY EndOfRangeCorrect DEF Inputs
<1>2. /\ i \in Int /\ i >= r - 1 /\ r .. i \subseteq Registers(ToSet(input))
      /\ i + 1 \notin Registers(ToSet(input))
  BY EndOfRangeCorrect DEF Inputs
<1>3. /\ RegistersOf("holding") = Registers(ToSet(holding))
      /\ RegistersOf("input") = Registers(ToSet(input))
  BY DEF RegistersOf
<1>4. Readable(r) <=> r \in Registers(ToSet(holding)) \/ r \in Registers(ToSet(input))
  BY ContainsCorrect DEF Readable, Inputs
<1>5. Type(r) = IF h >= i THEN "holding" ELSE "input"
  BY DEF Type
<1> HIDE DEF h, i
<1>6. end = IF h <= i THEN i ELSE h
  BY <1>1, <1>2, MaxOfTwo
<1> HIDE DEF end
<1>7. end \in Int /\ end >= r - 1 /\ h <= end /\ i <= end
  BY <1>1, <1>2, <1>6
<1>8. r .. end \subseteq RegistersOf(Type(r)) /\ Type(r) \in {"holding", "input"}
  BY <1>1, <1>2, <1>3, <1>5, <1>6
<1>9. Readable(r) <=> end >= r
  <2>1. h >= r <=> r \in Registers(ToSet(holding))
    BY <1>1
  <2>2. i >= r <=> r \in Registers(ToSet(input))
    BY <1>2
  <2> QED
    BY <1>1, <1>2, <1>4, <1>6, <2>1, <2>2
<1>10. ASSUME NEW type \in {"holding", "input"}, NEW e \in Int, r <= e,
              r .. e \subseteq RegistersOf(type)
       PROVE  e <= end
  <2>1. CASE type = "holding"
    <3>1. h + 1 \notin r .. e
      BY <1>1, <1>3, <1>10, <2>1
    <3>2. e <= h
      BY <1>1, <3>1
    <3> QED
      BY <1>1, <1>7, <3>2
  <2>2. CASE type = "input"
    <3>1. i + 1 \notin r .. e
      BY <1>2, <1>3, <1>10, <2>2
    <3>2. e <= i
      BY <1>2, <3>1
    <3> QED
      BY <1>2, <1>7, <3>2
  <2> QED
    BY <2>1, <2>2
<1> QED
  BY <1>7, <1>8, <1>9, <1>10 DEF end, h, i

\* The bursts that are tried can be read, and are all that can.
LEMMA EndsFacts ==
  ASSUME Inputs, NEW r \in used_registers, Readable(r)
  PROVE  /\ Ends(r) \in SUBSET used_registers /\ r \in Ends(r)
         /\ \A e \in Ends(r) : /\ r <= e /\ e - r < Limited
                               /\ r .. e \subseteq RegistersOf(Type(r))
         /\ NoOverflow => \A e \in used_registers : \A type \in {"holding", "input"} :
              r <= e /\ e - r < Limited /\ r .. e \subseteq RegistersOf(type) => e \in Ends(r)
<1> DEFINE end == Max({endOfRange(holding, r), endOfRange(input, r)})
           n == r + max_burst_size - 1
<1>1. r \in Int /\ r >= -INT_MAX /\ used_registers \subseteq Int
  BY UsedFacts, WidthsType DEF Ints
<1>2. /\ end \in Int /\ r <= end
      /\ r .. end \subseteq RegistersOf(Type(r))
      /\ \A type \in {"holding", "input"} : \A e \in Int :
              r <= e /\ r .. e \subseteq RegistersOf(type) => e <= end
  BY <1>1, EndOfType
<1>3. n \in Int /\ n >= -INT_MAX - 1
  BY <1>1, LimitedFacts, WidthsType
<1>4. ToInt(n) \in Int /\ ToInt(n) <= n /\ (NoOverflow => ToInt(n) = n)
  BY <1>3, ToIntFacts, WidthsType DEF Ints, NoOverflow
<1> HIDE DEF end
<1>5. Limit(r) = IF ToInt(n) <= end THEN ToInt(n) ELSE end
  BY <1>2, <1>4, MinOfTwo DEF Limit, end
<1>6. Ends(r) \in SUBSET used_registers /\ r \in Ends(r)
  BY DEF Ends
<1>7. ASSUME NEW e \in Ends(r)
      PROVE  r <= e /\ e - r < Limited /\ r .. e \subseteq RegistersOf(Type(r))
  <2>1. CASE e = r
    BY <1>1, <1>2, <2>1, LimitedFacts
  <2>2. CASE r < e /\ e <= Limit(r)
    <3> DEFINE limit == Limit(r)  size == ToInt(n)
    <3>4. e \in Int
      BY <1>1, <1>6
    <3>5. size \in Int /\ size <= n /\ limit = IF size <= end THEN size ELSE end
      BY <1>4, <1>5
    <3>6. r < e /\ e <= limit
      BY <2>2
    <3>1. e \in Int /\ e <= n /\ e <= end
      <4> HIDE DEF n, limit, size
      <4> QED
        BY <1>2, <1>3, <3>4, <3>5, <3>6
    <3>2. e - r < Limited
      BY <1>1, <2>2, <3>1, LimitedFacts
    <3>3. r .. e \subseteq RegistersOf(Type(r))
      BY <1>1, <1>2, <3>1
    <3> QED
      BY <1>1, <3>1, <3>6, <3>2, <3>3
  <2> QED
    BY <2>1, <2>2 DEF Ends
<1>8. ASSUME NoOverflow, NEW e \in used_registers, NEW type \in {"holding", "input"},
             r <= e, e - r < Limited, r .. e \subseteq RegistersOf(type)
      PROVE  e \in Ends(r)
  <2>1. e \in Int /\ e <= end
    BY <1>1, <1>2, <1>8
  <2>2. CASE e = r
    BY <1>6, <2>2
  <2>3. CASE r < e
    <3>1. e <= n
      BY <1>1, <1>8, <2>1, <2>3, LimitedFacts
    <3>2. e <= Limit(r)
      BY <1>2, <1>4, <1>5, <1>8, <2>1, <3>1
    <3> QED
      BY <2>3, <3>2 DEF Ends
  <2> QED
    BY <1>1, <1>8, <2>1, <2>2, <2>3
<1> QED
  BY <1>6, <1>7, <1>8

-----------------------------------------------------------------------------
(* Which candidate wins                                                    *)

Costs == Nat \X Nat

\* Of several costs, there is a cheapest; the first of them wins.
LEMMA CheapestExists ==
  ASSUME NEW S \in SUBSET Int, S # {}, NEW bound \in Int, \A e \in S : bound <= e,
         NEW cost \in [S -> Costs]
  PROVE  \E e \in S : \A other \in S \ {e} :
           IF other < e THEN Cheaper(cost[e], cost[other]) ELSE ~ Cheaper(cost[other], cost[e])
<1> DEFINE Firsts == {cost[e][1] : e \in S}
<1>0. \A e \in S : cost[e] \in Costs /\ cost[e][1] \in Nat /\ cost[e][2] \in Nat
  BY DEF Costs
<1>1. PICK m \in Firsts : \A n \in Firsts : m <= n
  <2>1. Firsts \in SUBSET Nat /\ Firsts # {}
    BY <1>0
  <2> HIDE DEF Firsts
  <2> QED
    BY <2>1, NatLeast
<1>2. m \in Nat /\ \A e \in S : m <= cost[e][1]
  BY <1>0, <1>1
<1> DEFINE T == {e \in S : cost[e][1] = m}
           Seconds == {cost[e][2] : e \in T}
<1>3. PICK k \in Seconds : \A n \in Seconds : k <= n
  <2>1. Seconds \in SUBSET Nat /\ Seconds # {}
    BY <1>0, <1>1
  <2> HIDE DEF Seconds
  <2> QED
    BY <2>1, NatLeast
<1>4. k \in Nat /\ \A e \in T : k <= cost[e][2]
  BY <1>0, <1>3
<1> DEFINE U == {e \in T : cost[e][2] = k}
<1>5. Min(U) \in U /\ \A e \in U : Min(U) <= e
  <2>1. U \in SUBSET Int /\ U # {} /\ \A e \in U : bound <= e
    BY <1>3
  <2> HIDE DEF U
  <2> QED
    BY <2>1, MinOfInts
<1> DEFINE e == Min(U)
<1>6. e \in S /\ cost[e][1] = m /\ cost[e][2] = k /\ e \in Int
  BY <1>5
<1> HIDE DEF e
<1>7. ASSUME NEW other \in S \ {e}
      PROVE  IF other < e THEN Cheaper(cost[e], cost[other]) ELSE ~ Cheaper(cost[other], cost[e])
  <2> DEFINE first == cost[other][1]  second == cost[other][2]
  <2>1. first \in Nat /\ second \in Nat /\ m <= first /\ (first = m => k <= second)
    BY <1>0, <1>2, <1>4
  <2>2. first = m /\ second = k => ~ other < e
    <3>1. ASSUME other \in U PROVE e <= other
      BY <1>5, <3>1 DEF e
    <3>2. first = m /\ second = k => other \in U
      OBVIOUS
    <3>3. other \in Int
      OBVIOUS
    <3> QED
      BY <1>6, <3>1, <3>2, <3>3
  <2> HIDE DEF first, second
  <2>3. Cheaper(cost[e], cost[other]) <=> m < first \/ (m = first /\ k < second)
    BY <1>6 DEF Cheaper, first, second
  <2>4. Cheaper(cost[other], cost[e]) <=> first < m \/ (m = first /\ second < k)
    BY <1>6 DEF Cheaper, first, second
  <2> QED
    BY <1>2, <1>4, <2>1, <2>2, <2>3, <2>4
<1> QED
  BY <1>6, <1>7

\* What comes after a burst that ends with e
Later(e) == {u \in used_registers : u > e}

Following(e) == IF Later(e) = {} THEN [bursts |-> <<>>, cost |-> <<0, 0>>]
                                 ELSE optima[Min(Later(e))]

\* A candidate puts a burst in front of it.
LEMMA CandidateFacts ==
  ASSUME NEW r, NEW e
  PROVE  /\ Candidate(r, e).bursts
              = <<[begin |-> r, end |-> e, type |-> Type(r)]>> \o Following(e).bursts
         /\ Candidate(r, e).cost = <<1 + Following(e).cost[1], e - r + 1 + Following(e).cost[2]>>
BY DEF Candidate, Following, Later

\* The optimum is a candidate that no other is cheaper than.
LEMMA OptimumFacts ==
  ASSUME Inputs, NEW r \in used_registers, Readable(r),
         \A e \in Ends(r) : Candidate(r, e).cost \in Costs
  PROVE  \E e \in Ends(r) :
           /\ Optimum(r) = Candidate(r, e)
           /\ \A other \in Ends(r) : ~ Cheaper(Candidate(r, other).cost, Candidate(r, e).cost)
<1> DEFINE cost == [e \in Ends(r) |-> Candidate(r, e).cost]
<1>1. /\ Ends(r) \in SUBSET used_registers /\ r \in Ends(r)
      /\ \A e \in Ends(r) : r <= e
  BY EndsFacts
<1>2. Ends(r) \in SUBSET Int /\ r \in Int
  BY <1>1, UsedFacts
<1>3. cost \in [Ends(r) -> Costs]
  OBVIOUS
<1>4. PICK end \in Ends(r) : \A other \in Ends(r) \ {end} :
        IF other < end THEN Cheaper(cost[end], cost[other]) ELSE ~ Cheaper(cost[other], cost[end])
  <2> HIDE DEF cost
  <2> QED
    BY <1>1, <1>2, <1>3, CheapestExists
<1>5. Wins(r, end)
  BY <1>4 DEF Wins
<1> DEFINE e == CHOOSE end1 \in Ends(r) : Wins(r, end1)
<1>6. e \in Ends(r) /\ Wins(r, e)
  BY <1>5
<1>7. Optimum(r) = Candidate(r, e)
  BY DEF Optimum
<1> HIDE DEF e
<1>8. ASSUME NEW other \in Ends(r)
      PROVE  ~ Cheaper(Candidate(r, other).cost, Candidate(r, e).cost)
  <2> DEFINE c == Candidate(r, e).cost  o == Candidate(r, other).cost
  <2>1. c \in Costs /\ o \in Costs
    BY <1>6
  <2>2. other # e => IF other < e THEN Cheaper(c, o) ELSE ~ Cheaper(o, c)
    BY <1>6 DEF Wins
  <2>3. other = e => c = o
    OBVIOUS
  <2> HIDE DEF c, o
  <2>4. ~ (Cheaper(c, o) /\ Cheaper(o, c)) /\ ~ Cheaper(c, c)
    BY <2>1 DEF Cheaper, Costs
  <2>5. ~ Cheaper(o, c)
    BY <2>2, <2>3, <2>4
  <2> QED
    BY <2>5 DEF c, o
<1> QED
  BY <1>6, <1>7, <1>8

-----------------------------------------------------------------------------
(* Other bursts                                                            *)

\* What some bursts read
Reads(ranges) == UNION {{range} \X (range[1] .. range[2]) : range \in ranges}

LEMMA ReadableRangesFacts ==
  ASSUME Inputs, NEW ranges \in SUBSET ReadableRanges(used_registers)
  PROVE  /\ IsFiniteSet(ranges) /\ Cardinality(ranges) \in Nat
         /\ ranges \in SUBSET (Int \X Int)
         /\ IsFiniteSet(Reads(ranges)) /\ TotalSize(ranges) \in Nat
<1>1. ranges \in SUBSET (used_registers \X used_registers)
  BY DEF ReadableRanges
<1>2. used_registers \in SUBSET Int /\ IsFiniteSet(used_registers)
  BY UsedFacts
<1>3. IsFiniteSet(ranges) /\ ranges \in SUBSET (Int \X Int)
  <2>1. IsFiniteSet(used_registers \X used_registers)
    BY <1>2, FS_Product
  <2> QED
    BY <1>1, <1>2, <2>1, FS_Subset
<1>4. IsFiniteSet(Reads(ranges))
  <2>1. used_registers \in SUBSET Ints /\ Ints \in SUBSET Int /\ IsFiniteSet(Ints)
    BY UsedFacts, WidthsType, FS_Interval DEF Ints
  <2>2. IsFiniteSet(ranges \X Ints)
    BY <1>3, <2>1, FS_Product
  <2>3. ASSUME NEW range \in ranges PROVE range[1] .. range[2] \subseteq Ints
    <3>1. range[1] \in Ints /\ range[2] \in Ints
      BY <1>1, <2>1
    <3> QED
      BY <3>1, WidthsType DEF Ints
  <2>4. Reads(ranges) \in SUBSET (ranges \X Ints)
    BY <2>3 DEF Reads
  <2> QED
    BY <2>2, <2>4, FS_Subset
<1>5. Cardinality(ranges) \in Nat /\ TotalSize(ranges) \in Nat
  BY <1>3, <1>4, FS_CardinalityType DEF TotalSize, Reads
<1> QED
  BY <1>3, <1>4, <1>5

\* Without one of them, there is one less, and its registers are not read.
LEMMA WithoutOne ==
  ASSUME Inputs, NEW ranges \in SUBSET ReadableRanges(used_registers), NEW x \in ranges
  PROVE  /\ Cardinality(ranges \ {x}) = Cardinality(ranges) - 1
         /\ TotalSize(ranges \ {x}) = TotalSize(ranges) - (x[2] - x[1] + 1)
<1> DEFINE others == ranges \ {x}
           its == {x} \X (x[1] .. x[2])
<1>1. others \in SUBSET ReadableRanges(used_registers)
  OBVIOUS
<1>2. IsFiniteSet(ranges) /\ IsFiniteSet(Reads(others))
  BY <1>1, ReadableRangesFacts
<1>3. Cardinality(others) = Cardinality(ranges) - 1
  <2>1. \A y \in ranges : Cardinality(ranges \ {y}) = Cardinality(ranges) - 1
    BY <1>2, FS_RemoveElement
  <2> QED
    BY <2>1
<1>4. x[1] \in Int /\ x[2] \in Int /\ x[1] <= x[2]
  BY UsedFacts DEF ReadableRanges
<1>5. IsFiniteSet(its) /\ Cardinality(its) = x[2] - x[1] + 1
  <2>1. IsFiniteSet(x[1] .. x[2]) /\ Cardinality(x[1] .. x[2]) = x[2] - x[1] + 1
    BY <1>4, FS_Interval
  <2>2. IsFiniteSet({x}) /\ Cardinality({x}) = 1
    BY FS_Singleton
  <2>3. IsFiniteSet(its) /\ Cardinality(its) = 1 * (x[2] - x[1] + 1)
    BY <2>1, <2>2, FS_Product
  <2> QED
    BY <1>4, <2>3
<1>6. Reads(ranges) = Reads(others) \cup its /\ Reads(others) \cap its = {}
  BY DEF Reads
<1>7. Cardinality(Reads(ranges)) = Cardinality(Reads(others)) + (x[2] - x[1] + 1)
  <2> HIDE DEF its, others
  <2>1. Cardinality(Reads(others) \cup its)
          = Cardinality(Reads(others)) + Cardinality(its) - Cardinality(Reads(others) \cap its)
    BY <1>2, <1>5, FS_Union
  <2>2. Cardinality(Reads(others)) \in Nat /\ Cardinality(Reads(others) \cap its) = 0
    BY <1>2, <1>6, FS_CardinalityType, FS_EmptySet
  <2> QED
    BY <1>4, <1>5, <1>6, <2>1, <2>2
<1>8. TotalSize(ranges) = Cardinality(Reads(ranges)) /\ TotalSize(others) = Cardinality(Reads(others))
  BY DEF TotalSize, Reads
<1>9. TotalSize(others) \in Nat
  BY <1>1, ReadableRangesFacts
<1> QED
  BY <1>3, <1>4, <1>7, <1>8, <1>9

\* One that contains r ends where also a burst that begins with r may end; the others
\* contain what comes after it.
LEMMA FirstOfOthers ==
  ASSUME Inputs, NEW r \in used_registers, Readable(r),
         NEW ranges \in SUBSET ReadableRanges(used_registers),
         {u \in used_registers : u >= r} \subseteq Registers(ranges)
  PROVE  \E x \in ranges :
           /\ x[1] \in Int /\ x[2] \in Int /\ x[1] <= r /\ r <= x[2]
           /\ NoOverflow => x[2] \in Ends(r)
           /\ Later(x[2]) \subseteq Registers(ranges \ {x})
<1>1. r \in Int /\ used_registers \in SUBSET Int
  BY UsedFacts
<1>2. PICK x \in ranges : r \in x[1] .. x[2]
  BY <1>1 DEF Registers
<1>3. /\ x[1] \in used_registers /\ x[2] \in used_registers
      /\ x[1] <= x[2] /\ x[2] - x[1] < Limited
  BY DEF ReadableRanges, Limited
<1>4. PICK type \in {"holding", "input"} : x[1] .. x[2] \subseteq RegistersOf(type)
  BY DEF ReadableRanges
<1>5. x[1] \in Int /\ x[2] \in Int /\ x[1] <= r /\ r <= x[2]
  <2>1. x[1] \in Int /\ x[2] \in Int
    BY <1>1, <1>3
  <2> QED
    BY <1>1, <1>2, <2>1
<1>6. ASSUME NoOverflow PROVE x[2] \in Ends(r)
  <2>1. x[2] - r < Limited
    BY <1>1, <1>3, <1>5, LimitedFacts
  <2>2. r .. x[2] \subseteq RegistersOf(type)
    BY <1>1, <1>4, <1>5
  <2> QED
    BY <1>3, <1>4, <1>5, <1>6, <2>1, <2>2, EndsFacts
<1>7. ASSUME NEW u \in Later(x[2]) PROVE u \in Registers(ranges \ {x})
  <2>1. u \in used_registers /\ u \in Int /\ u > x[2] /\ u >= r
    BY <1>1, <1>5 DEF Later
  <2>2. PICK y \in ranges : u \in y[1] .. y[2]
    BY <2>1 DEF Registers
  <2>3. y # x
    BY <1>5, <2>1, <2>2
  <2> QED
    BY <2>2, <2>3 DEF Registers
<1> QED
  BY <1>5, <1>6, <1>7

-----------------------------------------------------------------------------
(* Dynamic programming                                                     *)

ReadableBurst(burst) ==
  /\ burst \in Bursts /\ burst.begin \in used_registers /\ burst.end \in used_registers
  /\ burst.begin <= burst.end /\ burst.end - burst.begin < Limited
  /\ burst.begin .. burst.end \subseteq RegistersOf(burst.type)

\* The list for r is a burst and the list for what comes after it.
Listed(r) ==
  /\ optima[r].bursts \in Seq(Bursts) /\ optima[r].bursts # <<>> /\ optima[r].cost \in Costs
  /\ ReadableBurst(Head(optima[r].bursts)) /\ Head(optima[r].bursts).begin = r
  /\ LET end == Head(optima[r].bursts).end IN
       /\ Later(end) \subseteq DOMAIN optima
       /\ Tail(optima[r].bursts) = Following(end).bursts
       /\ optima[r].cost = <<1 + Following(end).cost[1], end - r + 1 + Following(end).cost[2]>>

\* No other bursts for the registers from r on are cheaper.
Best(r) ==
  NoOverflow =>
    \A ranges \in SUBSET ReadableRanges(used_registers) :
      {u \in used_registers : u >= r} \subseteq Registers(ranges) =>
        ~ Cheaper(<<Cardinality(ranges), TotalSize(ranges)>>, optima[r].cost)

OptimaInv ==
  /\ DOMAIN optima \subseteq used_registers
  /\ \A r \in DOMAIN optima : \A u \in used_registers : r <= u => u \in DOMAIN optima
  /\ \A r \in DOMAIN optima : Listed(r) /\ Best(r)

\* What comes after a burst, and the candidate with that burst
LEMMA FollowingFacts ==
  ASSUME Inputs, OptimaInv, NEW r \in used_registers, Readable(r),
         \A u \in used_registers : r < u => u \in DOMAIN optima,
         NEW e \in Ends(r)
  PROVE  /\ Following(e).bursts \in Seq(Bursts) /\ Following(e).cost \in Costs
         /\ Later(e) \subseteq DOMAIN optima
         /\ Candidate(r, e).bursts \in Seq(Bursts) /\ Candidate(r, e).bursts # <<>>
         /\ Head(Candidate(r, e).bursts) = [begin |-> r, end |-> e, type |-> Type(r)]
         /\ Tail(Candidate(r, e).bursts) = Following(e).bursts
         /\ Candidate(r, e).cost \in Costs
<1>1. r \in Ints /\ e \in Ints /\ r \in Int /\ e \in Int /\ r <= e /\ Type(r) \in {"holding", "input"}
  BY EndsFacts, UsedFacts, EndOfType
<1>2. Later(e) \subseteq DOMAIN optima
  <2>1. ASSUME NEW u \in Later(e) PROVE u \in DOMAIN optima
    <3>1. u \in used_registers /\ u > e /\ u \in Int
      BY UsedFacts DEF Later
    <3>2. r < u
      BY <1>1, <3>1
    <3> QED
      BY <3>1, <3>2
  <2> QED
    BY <2>1
<1>3. Following(e).bursts \in Seq(Bursts) /\ Following(e).cost \in Costs
  <2>1. CASE Later(e) = {}
    BY <2>1 DEF Following, Costs
  <2>2. CASE Later(e) # {}
    <3>1. Later(e) \in SUBSET used_registers
      BY DEF Later
    <3>2. Min(Later(e)) \in DOMAIN optima
      BY <1>2, <2>2, <3>1, MinMaxUsed
    <3> QED
      BY <2>2, <3>2 DEF Following, OptimaInv, Listed
  <2> QED
    BY <2>1, <2>2
<1> DEFINE burst == [begin |-> r, end |-> e, type |-> Type(r)]
           following == Following(e).bursts
<1>4. burst \in Bursts
  BY <1>1 DEF Bursts
<1>5. /\ <<burst>> \o following \in Seq(Bursts) /\ <<burst>> \o following # <<>>
      /\ Head(<<burst>> \o following) = burst
      /\ Tail(<<burst>> \o following) = following
  <2> HIDE DEF burst, following
  <2>1. following \in Seq(Bursts)
    BY <1>3 DEF following
  <2> QED
    BY <1>4, <2>1
<1>6. Candidate(r, e).bursts = <<burst>> \o following
  BY CandidateFacts
<1>7. Candidate(r, e).cost \in Costs
  <2> DEFINE cost == Following(e).cost
  <2>1. cost[1] \in Nat /\ cost[2] \in Nat
    BY <1>3 DEF Costs
  <2>2. Candidate(r, e).cost = <<1 + cost[1], e - r + 1 + cost[2]>>
    BY CandidateFacts
  <2> HIDE DEF cost
  <2> QED
    BY <1>1, <2>1, <2>2 DEF Costs
<1> QED
  BY <1>2, <1>3, <1>5, <1>6, <1>7

\* What other bursts cost: a burst more than what comes after the first of them
LEMMA CostOfOthers ==
  ASSUME NEW e \in Int, NEW r \in Int, NEW a \in Int, NEW count \in Int, NEW size \in Int,
         NEW rest \in Costs, a <= r,
         ~ Cheaper(<<count - 1, size - (e - a + 1)>>, rest)
  PROVE  ~ Cheaper(<<count, size>>, <<1 + rest[1], e - r + 1 + rest[2]>>)
BY DEF Cheaper, Costs

LEMMA CheaperIsTransitive ==
  ASSUME NEW a \in Int \X Int, NEW b \in Int \X Int, NEW c \in Int \X Int,
         ~ Cheaper(a, b), ~ Cheaper(b, c)
  PROVE  ~ Cheaper(a, c)
BY DEF Cheaper

\* No other bursts are cheaper than the optimum.
LEMMA OptimumIsBest ==
  ASSUME Inputs, OptimaInv, NEW r \in used_registers, Readable(r),
         \A u \in used_registers : r < u => u \in DOMAIN optima,
         NoOverflow, NEW ranges \in SUBSET ReadableRanges(used_registers),
         {u \in used_registers : u >= r} \subseteq Registers(ranges)
  PROVE  ~ Cheaper(<<Cardinality(ranges), TotalSize(ranges)>>, Optimum(r).cost)
<1>1. PICK x \in ranges :
        /\ x[1] \in Int /\ x[2] \in Int /\ x[1] <= r /\ r <= x[2]
        /\ x[2] \in Ends(r)
        /\ Later(x[2]) \subseteq Registers(ranges \ {x})
  BY FirstOfOthers
<1> DEFINE e == x[2]  others == ranges \ {x}
<1>2. /\ Following(e).cost \in Costs /\ Later(e) \subseteq DOMAIN optima
      /\ \A end \in Ends(r) : Candidate(r, end).cost \in Costs
  BY <1>1, FollowingFacts
<1>3. /\ Cardinality(others) = Cardinality(ranges) - 1
      /\ TotalSize(others) = TotalSize(ranges) - (e - x[1] + 1)
      /\ Cardinality(ranges) \in Nat /\ TotalSize(ranges) \in Nat
      /\ Cardinality(others) \in Nat /\ TotalSize(others) \in Nat
  <2>1. others \in SUBSET ReadableRanges(used_registers)
    OBVIOUS
  <2> QED
    BY <2>1, WithoutOne, ReadableRangesFacts
<1>4. ~ Cheaper(<<Cardinality(others), TotalSize(others)>>, Following(e).cost)
  <2>1. CASE Later(e) = {}
    BY <1>3, <2>1 DEF Following, Cheaper
  <2>2. CASE Later(e) # {}
    <3> DEFINE next == Min(Later(e))
    <3>1. Later(e) \in SUBSET used_registers
      BY DEF Later
    <3>2. next \in Later(e) /\ next \in DOMAIN optima
      BY <1>2, <2>2, <3>1, MinMaxUsed
    <3>3. Best(next) /\ Following(e) = optima[next]
      BY <2>2, <3>2 DEF OptimaInv, Following
    <3>4. {u \in used_registers : u >= next} \subseteq Registers(others)
      <4>1. ASSUME NEW u \in used_registers, u >= next PROVE u \in Later(e)
        <5>1. u \in Int /\ next \in Int /\ next > e
          BY <3>2, UsedFacts DEF Later
        <5> HIDE DEF next, e
        <5>2. e \in Int
          BY <1>1 DEF e
        <5>3. u > e
          BY <4>1, <5>1, <5>2
        <5> QED
          BY <5>3 DEF Later
      <4> HIDE DEF e, next
      <4> QED
        BY <1>1, <4>1 DEF e
    <3>5. others \in SUBSET ReadableRanges(used_registers)
      OBVIOUS
    <3> HIDE DEF others, next, e
    <3> QED
      BY <3>3, <3>4, <3>5 DEF Best
  <2> QED
    BY <2>1, <2>2
<1>5. ~ Cheaper(<<Cardinality(ranges), TotalSize(ranges)>>, Candidate(r, e).cost)
  <2> DEFINE count == Cardinality(ranges)  size == TotalSize(ranges)  a == x[1]
             rest == Following(e).cost
  <2>1. e \in Int /\ a \in Int /\ r \in Int /\ a <= r /\ count \in Int /\ size \in Int /\ rest \in Costs
    BY <1>1, <1>2, <1>3, UsedFacts
  <2>2. ~ Cheaper(<<count - 1, size - (e - a + 1)>>, rest)
    BY <1>3, <1>4
  <2>3. Candidate(r, e).cost = <<1 + rest[1], e - r + 1 + rest[2]>>
    BY CandidateFacts
  <2> HIDE DEF count, size, a, rest, e
  <2>4. ~ Cheaper(<<count, size>>, <<1 + rest[1], e - r + 1 + rest[2]>>)
    BY <2>1, <2>2, CostOfOthers
  <2> QED
    BY <2>3, <2>4 DEF count, size
<1>6. PICK end \in Ends(r) :
        /\ Optimum(r) = Candidate(r, end)
        /\ \A other \in Ends(r) : ~ Cheaper(Candidate(r, other).cost, Candidate(r, end).cost)
  BY <1>2, OptimumFacts
<1> DEFINE a == <<Cardinality(ranges), TotalSize(ranges)>>
           b == Candidate(r, e).cost  c == Candidate(r, end).cost
<1>7. a \in Int \X Int /\ b \in Int \X Int /\ c \in Int \X Int
  BY <1>1, <1>2, <1>3 DEF Costs
<1>8. ~ Cheaper(a, b) /\ ~ Cheaper(b, c)
  BY <1>1, <1>5, <1>6
<1>9. ~ Cheaper(a, c)
  <2> HIDE DEF a, b, c
  <2> QED
    BY <1>7, <1>8, CheaperIsTransitive
<1> QED
  BY <1>6, <1>9

-----------------------------------------------------------------------------
(* The invariant                                                           *)

\* The cost of what is still to be collected
RestOf(some) == IF some = <<>> THEN <<0, 0>> ELSE optima[Head(some).begin].cost
Rest == RestOf(list)

\* What is collected and what is not make up the optimum for the first register.
Collecting ==
  /\ used_registers \subseteq DOMAIN optima
  /\ list # <<>> => /\ Head(list).begin \in used_registers
                    /\ list = optima[Head(list).begin].bursts
  /\ Len(bursts) + Rest[1] = optima[Min(used_registers)].cost[1]
  /\ num_plan_registers + Rest[2] = optima[Min(used_registers)].cost[2]
  /\ \A u \in used_registers :
       \/ \E k \in DOMAIN bursts : u \in bursts[k].begin .. bursts[k].end
       \/ list # <<>> /\ Head(list).begin <= u
  /\ \A k \in DOMAIN bursts : list # <<>> => bursts[k].end < Head(list).begin

\* first[k] is the number that the first register of the k-th burst has in the plan; a
\* register of the task that is in a burst is as far from there as in the device.
Numbered(first) ==
  /\ first \in [1 .. Len(bursts) + 1 -> Nat]
  /\ first[1] = 0 /\ first[Len(bursts) + 1] = num_plan_registers
  /\ \A k \in 1 .. Len(bursts) :
       /\ first[k + 1] = first[k] + bursts[k].end - bursts[k].begin + 1
       /\ \A i \in DOMAIN task :
            task[i] \in bursts[k].begin .. bursts[k].end =>
              task_to_plan[i] = first[k] + task[i] - bursts[k].begin

PlanInv ==
  /\ Inputs
  /\ OptimaInv
  /\ list \in Seq(Bursts) /\ bursts \in Seq(Bursts) /\ num_plan_registers \in Nat
  /\ task_to_plan \in [DOMAIN task -> 0 .. Max({num_plan_registers - 1, 0})]
  /\ \A k \in DOMAIN bursts : ReadableBurst(bursts[k])
  /\ \E first : Numbered(first)
  /\ pc = "optimize" => /\ used_registers # {}
                        /\ list = <<>> /\ bursts = <<>> /\ num_plan_registers = 0
  /\ pc = "collect" => used_registers # {}
  /\ pc = "done" => list = <<>> /\ (used_registers = {} => bursts = <<>> /\ num_plan_registers = 0)
  /\ pc \in {"collect", "done"} /\ used_registers # {} => Collecting

\* What is defined by the inputs does not change with the rest.
LEMMA Frame ==
  ASSUME UNCHANGED inputs
  PROVE  /\ used_registers' = used_registers /\ (Inputs => Inputs') /\ task' = task
         /\ (NoOverflow' <=> NoOverflow)
         /\ \A e : Later(e)' = Later(e)
         /\ \A registers : ReadableRanges(registers)' = ReadableRanges(registers)
         /\ \A burst : ReadableBurst(burst)' <=> ReadableBurst(burst)
<1>1. /\ holding' = holding /\ input' = input /\ task' = task
      /\ max_burst_size' = max_burst_size
  BY DEF inputs
<1>2. used_registers' = used_registers
  BY <1>1 DEF used_registers
<1>3. Inputs => Inputs'
  BY <1>1 DEF Inputs
<1>4. NoOverflow' <=> NoOverflow
  BY <1>1, <1>2 DEF NoOverflow
<1>5. \A e : Later(e)' = Later(e)
  BY <1>2 DEF Later
<1>6. \A type : RegistersOf(type)' = RegistersOf(type)
  BY <1>1 DEF RegistersOf
<1>7. Limited' = Limited
  BY <1>1 DEF Limited
<1>8. \A registers : ReadableRanges(registers)' = ReadableRanges(registers)
  BY <1>1, <1>6 DEF ReadableRanges
<1>9. \A burst : ReadableBurst(burst)' <=> ReadableBurst(burst)
  BY <1>2, <1>6, <1>7 DEF ReadableBurst
<1> QED
  BY <1>1, <1>2, <1>3, <1>4, <1>5, <1>8, <1>9

\* Nor do the optima, as long as they are not extended.
LEMMA SameOptima ==
  ASSUME UNCHANGED inputs, optima' = optima, OptimaInv
  PROVE  OptimaInv'
<1>1. /\ used_registers' = used_registers /\ (NoOverflow' <=> NoOverflow)
      /\ \A e : Later(e)' = Later(e)
      /\ \A registers : ReadableRanges(registers)' = ReadableRanges(registers)
      /\ \A burst : ReadableBurst(burst)' <=> ReadableBurst(burst)
  BY Frame
<1>2. \A e : Following(e)' = Following(e)
  BY <1>1 DEF Following
<1>3. \A r : Listed(r) => Listed(r)'
  BY <1>1, <1>2 DEF Listed
<1>4. \A r : Best(r) => Best(r)'
  BY <1>1 DEF Best
<1> QED
  BY <1>1, <1>3, <1>4 DEF OptimaInv

\* An iteration of the loop
LEMMA OptimizeStep ==
  ASSUME Inputs, OptimaInv, Optimize
  PROVE  OptimaInv'
<1> PICK r : r = Max(used_registers \ DOMAIN optima)
  OBVIOUS
<1>0. UNCHANGED inputs
  BY DEF Optimize
<1>1. /\ used_registers' = used_registers /\ (NoOverflow' <=> NoOverflow)
      /\ \A e : Later(e)' = Later(e)
      /\ \A registers : ReadableRanges(registers)' = ReadableRanges(registers)
      /\ \A burst : ReadableBurst(burst)' <=> ReadableBurst(burst)
  BY <1>0, Frame
<1>2. /\ r \in used_registers \ DOMAIN optima /\ r \in Int /\ used_registers \in SUBSET Int
      /\ \A u \in used_registers \ DOMAIN optima : u <= r
  BY MinMaxUsed, UsedFacts DEF Optimize
<1>3. CASE ~ Readable(r)
  <2>1. optima' = optima
    BY <1>3 DEF Optimize
  <2> QED
    BY <1>0, <2>1, SameOptima
<1>4. CASE Readable(r)
  <2>1. optima' = [u \in DOMAIN optima \cup {r} |-> IF u = r THEN Optimum(r) ELSE optima[u]]
    BY <1>4 DEF Optimize
  <2>2. \A u \in used_registers : r < u => u \in DOMAIN optima
    BY <1>2
  <2>3. /\ DOMAIN optima' = DOMAIN optima \cup {r} /\ optima'[r] = Optimum(r)
        /\ \A u \in DOMAIN optima : optima'[u] = optima[u]
    BY <1>2, <2>1
  <2>4. ASSUME NEW e, Later(e) \subseteq DOMAIN optima
        PROVE  Following(e)' = Following(e)
    <3>1. CASE Later(e) = {}
      BY <1>1, <3>1 DEF Following
    <3>2. CASE Later(e) # {}
      <4>1. Later(e) \in SUBSET used_registers
        BY DEF Later
      <4>2. Min(Later(e)) \in DOMAIN optima
        BY <2>4, <3>2, <4>1, MinMaxUsed
      <4> QED
        BY <1>1, <2>3, <3>2, <4>2 DEF Following
    <3> QED
      BY <3>1, <3>2
  <2>5. DOMAIN optima \subseteq used_registers
    BY DEF OptimaInv
  <2>6. DOMAIN optima' \subseteq used_registers'
    BY <1>1, <1>2, <2>3, <2>5
  <2>7. ASSUME NEW d \in DOMAIN optima', NEW u \in used_registers, d <= u
        PROVE  u \in DOMAIN optima'
    <3>1. u \in Int /\ d \in Int
      BY <1>1, <1>2, <2>6
    <3>2. CASE d \in DOMAIN optima
      BY <2>3, <2>7, <3>2 DEF OptimaInv
    <3>3. CASE d = r
      BY <1>2, <2>2, <2>3, <2>7, <3>1, <3>3
    <3> QED
      BY <2>3, <3>2, <3>3
  <2>8. ASSUME NEW d \in DOMAIN optima
        PROVE  Listed(d)' /\ Best(d)'
    <3>1. Listed(d) /\ Best(d) /\ optima'[d] = optima[d]
      BY <2>3 DEF OptimaInv
    <3> DEFINE end == Head(optima[d].bursts).end
    <3>2. Later(end) \subseteq DOMAIN optima
      BY <3>1 DEF Listed
    <3>3. Later(end)' \subseteq DOMAIN optima' /\ Following(end)' = Following(end)
      <4> HIDE DEF end
      <4>1. Later(end)' = Later(end)
        BY <1>1, <3>1 DEF end
      <4> QED
        BY <1>1, <2>3, <2>4, <3>1, <3>2, <4>1 DEF end
    <3>4. Listed(d)'
      BY <1>1, <3>1, <3>3 DEF Listed
    <3>5. Best(d)'
      BY <1>1, <3>1 DEF Best
    <3> QED
      BY <3>4, <3>5
  <2>9. Listed(r)'
    <3>0. \A e \in Ends(r) : Candidate(r, e).cost \in Costs
      BY <1>2, <1>4, <2>2, FollowingFacts
    <3>1. PICK e \in Ends(r) : Optimum(r) = Candidate(r, e)
      BY <1>2, <1>4, <3>0, OptimumFacts
    <3>2. /\ Candidate(r, e).bursts \in Seq(Bursts) /\ Candidate(r, e).bursts # <<>>
          /\ Head(Candidate(r, e).bursts) = [begin |-> r, end |-> e, type |-> Type(r)]
          /\ Tail(Candidate(r, e).bursts) = Following(e).bursts
          /\ Candidate(r, e).cost \in Costs
          /\ Later(e) \subseteq DOMAIN optima
      BY <1>2, <1>4, <2>2, FollowingFacts
    <3>3. ReadableBurst([begin |-> r, end |-> e, type |-> Type(r)])
      <4>1. /\ e \in used_registers /\ r <= e /\ e - r < Limited
            /\ r .. e \subseteq RegistersOf(Type(r)) /\ Type(r) \in {"holding", "input"}
        BY <1>2, <1>4, EndsFacts, EndOfType
      <4>2. r \in Ints /\ e \in Ints
        BY <1>2, <4>1, UsedFacts
      <4> QED
        BY <1>2, <4>1, <4>2 DEF ReadableBurst, Bursts
    <3>4. Later(e)' \subseteq DOMAIN optima' /\ Following(e)' = Following(e)
      BY <1>1, <2>3, <2>4, <3>2
    <3>5. Candidate(r, e).cost = <<1 + Following(e).cost[1], e - r + 1 + Following(e).cost[2]>>
      BY CandidateFacts
    <3>6. PICK o, next : o = Candidate(r, e) /\ next = Following(e)
      OBVIOUS
    <3>7. /\ o.bursts \in Seq(Bursts) /\ o.bursts # <<>> /\ o.cost \in Costs
          /\ Head(o.bursts) = [begin |-> r, end |-> e, type |-> Type(r)]
          /\ Tail(o.bursts) = next.bursts
          /\ o.cost = <<1 + next.cost[1], e - r + 1 + next.cost[2]>>
      BY <3>2, <3>5, <3>6
    <3>8. Head(o.bursts).begin = r /\ Head(o.bursts).end = e /\ ReadableBurst(Head(o.bursts))'
      <4>1. PICK burst : burst = [begin |-> r, end |-> e, type |-> Type(r)]
        OBVIOUS
      <4>2. burst.begin = r /\ burst.end = e /\ Head(o.bursts) = burst
        BY <3>7, <4>1
      <4>3. ReadableBurst(burst)'
        BY <1>1, <3>3, <4>1
      <4> QED
        BY <4>2, <4>3
    <3>9. optima'[r] = o /\ Following(e)' = next /\ Later(e)' \subseteq DOMAIN optima'
      BY <2>3, <3>1, <3>4, <3>6
    <3> QED
      BY <3>7, <3>8, <3>9 DEF Listed
  <2>10. Best(r)'
    <3>1. ASSUME NoOverflow, NEW ranges \in SUBSET ReadableRanges(used_registers),
                 {u \in used_registers : u >= r} \subseteq Registers(ranges)
          PROVE  ~ Cheaper(<<Cardinality(ranges), TotalSize(ranges)>>, Optimum(r).cost)
      BY <1>2, <1>4, <2>2, <3>1, OptimumIsBest
    <3> QED
      BY <1>1, <2>3, <3>1 DEF Best
  <2>11. \A d \in DOMAIN optima' : Listed(d)' /\ Best(d)'
    BY <2>3, <2>8, <2>9, <2>10
  <2> QED
    BY <1>1, <2>6, <2>7, <2>11 DEF OptimaInv
<1> QED
  BY <1>3, <1>4

-----------------------------------------------------------------------------
(* Collecting the result                                                   *)

\* The first burst that is still to be collected, and those after it
LEMMA HeadFacts ==
  ASSUME PlanInv, pc = "collect", list # <<>>
  PROVE  LET burst == Head(list)
             tail == Tail(list)
             rest == RestOf(tail)
         IN
         /\ ReadableBurst(burst) /\ tail \in Seq(Bursts) /\ rest \in Costs
         /\ Rest[1] = 1 + rest[1]
         /\ Rest[2] = burst.end - burst.begin + 1 + rest[2]
         /\ tail # <<>> => /\ Head(tail).begin \in used_registers
                           /\ tail = optima[Head(tail).begin].bursts
                           /\ burst.end < Head(tail).begin
         /\ \A u \in used_registers : burst.begin <= u =>
              \/ u \in burst.begin .. burst.end
              \/ tail # <<>> /\ Head(tail).begin <= u
<1> PICK burst, tail, rest : burst = Head(list) /\ tail = Tail(list) /\ rest = RestOf(tail)
  OBVIOUS
<1>1. /\ Inputs /\ OptimaInv /\ list \in Seq(Bursts) /\ Collecting
      /\ used_registers \in SUBSET Int
  BY UsedFacts DEF PlanInv
<1>2. PICK r : r = burst.begin /\ r \in used_registers /\ r \in DOMAIN optima
               /\ list = optima[r].bursts
  BY <1>1 DEF Collecting
<1>3. PICK end, next : end = burst.end /\ next = Following(end)
  OBVIOUS
<1>4. Listed(r) /\ Rest = optima[r].cost
  BY <1>1, <1>2 DEF OptimaInv, Rest, RestOf
<1>5. /\ ReadableBurst(burst) /\ Later(end) \subseteq DOMAIN optima
      /\ tail = next.bursts
      /\ Rest = <<1 + next.cost[1], end - r + 1 + next.cost[2]>>
  BY <1>2, <1>3, <1>4 DEF Listed
<1>6. tail \in Seq(Bursts)
  BY <1>1, HeadTailProperties
<1>7. end \in Int /\ r \in Int /\ r <= end
  BY <1>1, <1>2, <1>3, <1>5 DEF ReadableBurst
<1>8. CASE Later(end) = {}
  <2>1. next = [bursts |-> <<>>, cost |-> <<0, 0>>]
    BY <1>3, <1>8 DEF Following
  <2>2. tail = <<>> /\ rest = <<0, 0>> /\ next.cost = <<0, 0>>
    BY <1>5, <2>1 DEF RestOf
  <2>3. rest \in Costs /\ Rest[1] = 1 + rest[1] /\ Rest[2] = end - r + 1 + rest[2]
    BY <1>5, <2>2 DEF Costs
  <2>4. ASSUME NEW u \in used_registers, r <= u PROVE u \in r .. end
    BY <1>1, <1>7, <1>8, <2>4 DEF Later
  <2> QED
    BY <1>2, <1>3, <1>5, <1>6, <2>2, <2>3, <2>4
<1>9. CASE Later(end) # {}
  <2>1. PICK m : m = Min(Later(end))
    OBVIOUS
  <2>2. Later(end) \in SUBSET used_registers
    BY DEF Later
  <2>3. m \in Later(end) /\ (\A u \in Later(end) : m <= u) /\ m \in DOMAIN optima
    BY <1>1, <1>5, <1>9, <2>1, <2>2, MinMaxUsed
  <2>4. next = optima[m] /\ Listed(m) /\ end < m /\ m \in Int
    BY <1>1, <1>3, <1>7, <1>9, <2>1, <2>2, <2>3 DEF Following, OptimaInv, Later
  <2>5. tail = optima[m].bursts /\ tail # <<>> /\ Head(tail).begin = m /\ optima[m].cost \in Costs
    BY <1>5, <2>4 DEF Listed
  <2>6. rest = next.cost /\ rest \in Costs
    BY <2>4, <2>5 DEF RestOf
  <2>7. Rest[1] = 1 + rest[1] /\ Rest[2] = end - r + 1 + rest[2]
    BY <1>5, <2>6
  <2>9. /\ Head(tail).begin \in used_registers
        /\ tail = optima[Head(tail).begin].bursts
        /\ end < Head(tail).begin
    BY <2>2, <2>3, <2>4, <2>5
  <2>8. ASSUME NEW u \in used_registers, r <= u PROVE u \in r .. end \/ m <= u
    BY <1>1, <1>7, <2>3, <2>8 DEF Later
  <2> QED
    BY <1>2, <1>3, <1>5, <1>6, <2>5, <2>6, <2>7, <2>8, <2>9
<1> QED
  BY <1>8, <1>9

\* The numbers, when a burst is added
LEMMA NumberedStep ==
  ASSUME Inputs, bursts \in Seq(Bursts), num_plan_registers \in Nat,
         NEW first, Numbered(first),
         NEW burst \in Bursts, burst.begin <= burst.end,
         \A k \in DOMAIN bursts : bursts[k].end < burst.begin,
         task' = task,
         bursts' = Append(bursts, burst),
         task_to_plan' = [i \in DOMAIN task |->
            IF task[i] \in burst.begin .. burst.end
            THEN num_plan_registers + task[i] - burst.begin ELSE task_to_plan[i]],
         num_plan_registers' = num_plan_registers + burst.end - burst.begin + 1
  PROVE  \E next : Numbered(next)'
<1>0. PICK n, next : /\ n = Len(bursts)
                   /\ next = [k \in 1 .. n + 2 |->
                                IF k = n + 2 THEN num_plan_registers' ELSE first[k]]
  OBVIOUS
<1>1. n \in Nat /\ DOMAIN bursts = 1 .. n /\ first \in [1 .. n + 1 -> Nat]
  BY <1>0, LenProperties DEF Numbered
<1>2. /\ Len(bursts') = n + 1 /\ bursts'[n + 1] = burst
      /\ \A k \in 1 .. n : bursts'[k] = bursts[k]
  BY <1>0, AppendProperties
<1>3. burst.begin \in Int /\ burst.end \in Int
  BY WidthsType DEF Bursts, Ints
<1>4. num_plan_registers' \in Nat
  BY <1>3
<1>5. \A k \in 1 .. n + 1 : next[k] = first[k]
  BY <1>0, <1>1
<1>6. next[n + 2] = num_plan_registers'
  BY <1>0, <1>1
<1>7. next \in [1 .. n + 2 -> Nat]
  BY <1>0, <1>1, <1>4
<1>8. first[1] = 0 /\ first[n + 1] = num_plan_registers
  BY <1>0 DEF Numbered
<1>9. next[1] = 0
  BY <1>1, <1>5, <1>8
<1>10. ASSUME NEW k \in 1 .. n + 1
       PROVE  /\ next[k + 1] = next[k] + bursts'[k].end - bursts'[k].begin + 1
              /\ \A i \in DOMAIN task :
                   task[i] \in bursts'[k].begin .. bursts'[k].end =>
                     task_to_plan'[i] = next[k] + task[i] - bursts'[k].begin
  <2>1. CASE k \in 1 .. n
    <3>1. k + 1 \in 1 .. n + 1 /\ k \in 1 .. n + 1 /\ bursts'[k] = bursts[k]
      BY <1>1, <1>2, <2>1
    <3>2. next[k + 1] = first[k + 1] /\ next[k] = first[k]
      BY <1>5, <3>1
    <3>3. /\ first[k + 1] = first[k] + bursts[k].end - bursts[k].begin + 1
          /\ \A i \in DOMAIN task :
               task[i] \in bursts[k].begin .. bursts[k].end =>
                 task_to_plan[i] = first[k] + task[i] - bursts[k].begin
      BY <1>0, <2>1 DEF Numbered
    <3>4. bursts[k].begin \in Int /\ bursts[k].end \in Int /\ bursts[k].end < burst.begin
      <4>1. bursts[k] \in Bursts
        BY <1>1, <2>1, ElementOfSeq
      <4> QED
        BY <1>1, <2>1, <4>1, WidthsType DEF Bursts, Ints
    <3>5. ASSUME NEW i \in DOMAIN task, task[i] \in bursts[k].begin .. bursts[k].end
          PROVE  task_to_plan'[i] = task_to_plan[i]
      <4>1. task[i] \in Int
        BY UsedFacts
      <4>2. ~ (task[i] \in burst.begin .. burst.end)
        BY <1>3, <3>4, <3>5, <4>1
      <4> QED
        BY <4>2
    <3> QED
      BY <3>1, <3>2, <3>3, <3>5
  <2>2. CASE k = n + 1
    <3>1. k + 1 = n + 2 /\ bursts'[k] = burst
      BY <1>1, <1>2, <2>2
    <3>2. next[k] = num_plan_registers
      BY <1>1, <1>5, <1>8, <2>2
    <3>3. next[k + 1] = num_plan_registers + burst.end - burst.begin + 1
      BY <1>6, <3>1
    <3>4. ASSUME NEW i \in DOMAIN task, task[i] \in burst.begin .. burst.end
          PROVE  task_to_plan'[i] = num_plan_registers + task[i] - burst.begin
      BY <3>4
    <3> QED
      BY <3>1, <3>2, <3>3, <3>4
  <2>3. k \in 1 .. n \/ k = n + 1
    BY <1>1
  <2> QED
    BY <2>1, <2>2, <2>3
<1>11. 1 .. Len(bursts') + 1 = 1 .. n + 2 /\ Len(bursts') + 1 = n + 2
  BY <1>1, <1>2
<1>12. /\ next \in [1 .. Len(bursts') + 1 -> Nat]
       /\ next[1] = 0 /\ next[Len(bursts') + 1] = num_plan_registers'
  BY <1>6, <1>7, <1>9, <1>11
<1>13. 1 .. Len(bursts') = 1 .. n + 1
  BY <1>2
<1>14. Numbered(next)'
  <2>1. \A k \in 1 .. Len(bursts') :
          /\ next[k + 1] = next[k] + bursts'[k].end - bursts'[k].begin + 1
          /\ \A i \in DOMAIN task' :
               task'[i] \in bursts'[k].begin .. bursts'[k].end =>
                 task_to_plan'[i] = next[k] + task'[i] - bursts'[k].begin
    BY <1>10, <1>13
  <2> QED
    BY <1>12, <2>1 DEF Numbered
<1> QED
  BY <1>14

\* The last number of a plan, and that of a longer one
LEMMA LastNumbers ==
  ASSUME NEW m \in Nat, NEW n \in Nat, m < n
  PROVE  /\ Max({m - 1, 0}) \in Int /\ Max({m - 1, 0}) <= n - 1
         /\ Max({n - 1, 0}) = n - 1
<1>1. Max({m - 1, 0}) = IF m - 1 <= 0 THEN 0 ELSE m - 1
  BY MaxOfTwo
<1>2. Max({n - 1, 0}) = IF n - 1 <= 0 THEN 0 ELSE n - 1
  BY MaxOfTwo
<1> QED
  BY <1>1, <1>2

\* A burst is collected.
LEMMA CollectStep ==
  ASSUME PlanInv, Collect
  PROVE  PlanInv'
<1>1. /\ Inputs /\ OptimaInv /\ list \in Seq(Bursts) /\ bursts \in Seq(Bursts)
      /\ num_plan_registers \in Nat
      /\ task_to_plan \in [DOMAIN task -> 0 .. Max({num_plan_registers - 1, 0})]
      /\ \A k \in DOMAIN bursts : ReadableBurst(bursts[k])
      /\ pc = "collect" /\ list # <<>> /\ Collecting /\ used_registers # {}
  BY DEF PlanInv, Collect
<1>2. UNCHANGED <<inputs, pc, optima>>
  BY DEF Collect
<1>3. /\ used_registers' = used_registers /\ Inputs' /\ task' = task
      /\ \A burst : ReadableBurst(burst)' <=> ReadableBurst(burst)
  BY <1>1, <1>2, Frame
<1>4. OptimaInv'
  BY <1>1, <1>2, SameOptima
<1>0. PICK burst, tail, rest : burst = Head(list) /\ tail = Tail(list) /\ rest = RestOf(tail)
  OBVIOUS
<1>5. /\ ReadableBurst(burst) /\ tail \in Seq(Bursts) /\ rest \in Costs
      /\ Rest[1] = 1 + rest[1]
      /\ Rest[2] = burst.end - burst.begin + 1 + rest[2]
      /\ tail # <<>> => /\ Head(tail).begin \in used_registers
                        /\ tail = optima[Head(tail).begin].bursts
                        /\ burst.end < Head(tail).begin
      /\ \A u \in used_registers : burst.begin <= u =>
           \/ u \in burst.begin .. burst.end
           \/ tail # <<>> /\ Head(tail).begin <= u
  BY <1>0, <1>1, HeadFacts
<1>6. /\ list' = tail /\ bursts' = Append(bursts, burst)
      /\ num_plan_registers' = num_plan_registers + burst.end - burst.begin + 1
      /\ task_to_plan' = [i \in DOMAIN task |->
            IF task[i] \in burst.begin .. burst.end
            THEN num_plan_registers + task[i] - burst.begin ELSE task_to_plan[i]]
  BY <1>0 DEF Collect, PlanNumber
<1>7. /\ burst \in Bursts /\ burst.begin \in Int /\ burst.end \in Int
      /\ burst.begin <= burst.end
  <2>1. burst \in Bursts /\ burst.begin <= burst.end
    BY <1>5 DEF ReadableBurst
  <2> QED
    BY <2>1, WidthsType DEF Bursts, Ints
<1>16. PICK n : n = Len(bursts)
  OBVIOUS
<1>8. /\ n \in Nat /\ DOMAIN bursts = 1 .. n
      /\ bursts' \in Seq(Bursts) /\ Len(bursts') = n + 1 /\ DOMAIN bursts' = 1 .. n + 1
      /\ bursts'[n + 1] = burst /\ \A k \in 1 .. n : bursts'[k] = bursts[k]
  <2>1. n \in Nat /\ DOMAIN bursts = 1 .. n
    BY <1>1, <1>16, LenProperties
  <2>2. /\ bursts' \in Seq(Bursts) /\ Len(bursts') = n + 1
        /\ bursts'[n + 1] = burst /\ \A k \in 1 .. n : bursts'[k] = bursts[k]
    BY <1>1, <1>6, <1>7, <1>16, AppendProperties
  <2>3. DOMAIN bursts' = 1 .. n + 1
    BY <2>2, LenProperties
  <2> QED
    BY <2>1, <2>2, <2>3
<1>9. ASSUME NEW k \in DOMAIN bursts' PROVE ReadableBurst(bursts'[k])
  <2>1. k \in 1 .. n \/ k = n + 1
    BY <1>8
  <2>2. CASE k \in 1 .. n
    BY <1>1, <1>8, <2>2
  <2>3. CASE k = n + 1
    BY <1>5, <1>8, <2>3
  <2> QED
    BY <2>1, <2>2, <2>3
<1>10. /\ num_plan_registers \in Nat /\ num_plan_registers' \in Nat
       /\ num_plan_registers < num_plan_registers'
  BY <1>1, <1>6, <1>7
<1>11. task_to_plan' \in [DOMAIN task' -> 0 .. Max({num_plan_registers' - 1, 0})]
  <2>1. /\ Max({num_plan_registers - 1, 0}) \in Int
        /\ Max({num_plan_registers - 1, 0}) <= num_plan_registers' - 1
        /\ Max({num_plan_registers' - 1, 0}) = num_plan_registers' - 1
    BY <1>10, LastNumbers
  <2>2. ASSUME NEW i \in DOMAIN task
        PROVE  task_to_plan'[i] \in 0 .. num_plan_registers' - 1
    <3>1. CASE task[i] \in burst.begin .. burst.end
      <4>1. task[i] \in Int
        BY <1>1, UsedFacts
      <4>2. task_to_plan'[i] = num_plan_registers + task[i] - burst.begin
        BY <1>6, <3>1
      <4> PICK a, b, t : a = burst.begin /\ b = burst.end /\ t = task[i]
        OBVIOUS
      <4>3. /\ a \in Int /\ b \in Int /\ t \in Int /\ a <= t /\ t <= b
            /\ task_to_plan'[i] = num_plan_registers + t - a
            /\ num_plan_registers' = num_plan_registers + b - a + 1
        BY <1>6, <1>7, <3>1, <4>1, <4>2
      <4> HIDE <1>6
      <4>4. num_plan_registers + t - a \in 0 .. num_plan_registers + b - a
        BY <1>10, <4>3
      <4> QED
        BY <1>10, <4>3, <4>4
    <3>2. CASE task[i] \notin burst.begin .. burst.end
      <4>1. task_to_plan'[i] = task_to_plan[i]
        BY <1>6, <3>2
      <4>2. task_to_plan[i] \in 0 .. Max({num_plan_registers - 1, 0})
        BY <1>1
      <4> HIDE <1>6
      <4> QED
        BY <1>10, <2>1, <4>1, <4>2
    <3> QED
      BY <3>1, <3>2
  <2> QED
    BY <1>3, <1>6, <2>1, <2>2
<1>12. \E first : Numbered(first)'
  <2>1. PICK first : Numbered(first)
    BY DEF PlanInv
  <2>2. \A k \in DOMAIN bursts : bursts[k].end < burst.begin
    BY <1>0, <1>1 DEF Collecting
  <2> QED
    BY <1>1, <1>3, <1>6, <1>7, <2>1, <2>2, NumberedStep
<1>13. Rest' = rest
  BY <1>0, <1>2, <1>6 DEF Rest, RestOf
<1>14. Collecting'
  <2>1. used_registers' \subseteq DOMAIN optima'
    BY <1>1, <1>2, <1>3 DEF Collecting
  <2>2. list' # <<>> => /\ Head(list').begin \in used_registers'
                        /\ list' = optima'[Head(list').begin].bursts
    BY <1>2, <1>3, <1>5, <1>6
  <2>3. rest[1] \in Nat /\ rest[2] \in Nat
    BY <1>5 DEF Costs
  <2>4. /\ n + Rest[1] = optima[Min(used_registers)].cost[1]
        /\ num_plan_registers + Rest[2] = optima[Min(used_registers)].cost[2]
    BY <1>1, <1>16 DEF Collecting
  <2>5. Len(bursts') + rest[1] = n + Rest[1]
    <3>1. Rest[1] = 1 + rest[1] /\ Len(bursts') = n + 1 /\ n \in Nat
      BY <1>5, <1>8
    <3> QED
      BY <2>3, <3>1
  <2>6. num_plan_registers' + rest[2] = num_plan_registers + Rest[2]
    <3>1. PICK b, e, p, r : /\ b = burst.begin /\ e = burst.end
                            /\ p = num_plan_registers /\ r = rest[2]
      OBVIOUS
    <3>2. b \in Int /\ e \in Int /\ p \in Int /\ r \in Int
      BY <1>1, <1>7, <2>3, <3>1
    <3>3. num_plan_registers' = p + e - b + 1
      BY <1>6, <3>1
    <3>4. Rest[2] = e - b + 1 + r
      BY <1>5, <3>1
    <3>5. (p + e - b + 1) + r = p + (e - b + 1 + r)
      BY <3>2
    <3> QED
      BY <3>1, <3>3, <3>4, <3>5
  <2>7. ASSUME NEW u \in used_registers
        PROVE  \/ \E k \in DOMAIN bursts' : u \in bursts'[k].begin .. bursts'[k].end
               \/ list' # <<>> /\ Head(list').begin <= u
    <3>1. CASE \E k \in DOMAIN bursts : u \in bursts[k].begin .. bursts[k].end
      <4>1. PICK k \in 1 .. n : u \in bursts[k].begin .. bursts[k].end
        BY <1>8, <3>1
      <4>2. k \in 1 .. n + 1 /\ bursts'[k] = bursts[k]
        BY <1>8
      <4> QED
        BY <1>8, <4>1, <4>2
    <3>2. CASE burst.begin <= u
      <4>1. n + 1 \in DOMAIN bursts'
        BY <1>8
      <4> QED
        BY <1>5, <1>6, <1>8, <3>2, <4>1
    <3> QED
      BY <1>0, <1>1, <3>1, <3>2 DEF Collecting
  <2>8. ASSUME NEW k \in DOMAIN bursts', list' # <<>>
        PROVE  bursts'[k].end < Head(list').begin
    <3>1. /\ burst.end < Head(tail).begin /\ Head(tail).begin \in Int
      BY <1>1, <1>5, <1>6, <2>8, UsedFacts
    <3>2. CASE k = n + 1
      BY <1>6, <1>8, <3>1, <3>2
    <3>3. CASE k \in 1 .. n
      <4>1. bursts[k].end < burst.begin /\ bursts[k] \in Bursts
        BY <1>0, <1>1, <1>8, <3>3 DEF Collecting, ReadableBurst
      <4>2. bursts[k].end \in Int
        BY <4>1, WidthsType DEF Bursts, Ints
      <4>3. bursts[k].end < Head(tail).begin
        BY <1>7, <3>1, <4>1, <4>2
      <4> QED
        BY <1>6, <1>8, <3>3, <4>3
    <3> QED
      BY <1>8, <3>2, <3>3
  <2> QED
    BY <1>2, <1>3, <1>13, <2>1, <2>2, <2>4, <2>5, <2>6, <2>7, <2>8 DEF Collecting
<1>15. pc' = "collect"
  BY <1>1, <1>2
<1> QED
  BY <1>1, <1>3, <1>4, <1>5, <1>6, <1>8, <1>9, <1>10, <1>11, <1>12, <1>14, <1>15 DEF PlanInv

-----------------------------------------------------------------------------
(* The other steps                                                         *)

\* A plan for which nothing has been done
Fresh ==
  /\ Inputs /\ optima = <<>> /\ list = <<>> /\ bursts = <<>> /\ num_plan_registers = 0
  /\ task_to_plan \in [DOMAIN task -> {0}]
  /\ pc # "collect" /\ (pc = "optimize" => task # <<>>) /\ (pc = "done" => task = <<>>)

LEMMA FreshPlan == Fresh => PlanInv
<1> SUFFICES ASSUME Fresh PROVE PlanInv
  OBVIOUS
<1>1. DOMAIN optima = {} /\ DOMAIN bursts = {}
  BY DEF Fresh
<1>2. OptimaInv
  BY <1>1 DEF OptimaInv
<1>3. list \in Seq(Bursts) /\ bursts \in Seq(Bursts) /\ Len(bursts) = 0
  BY EmptySeq DEF Fresh
<1>4. Max({num_plan_registers - 1, 0}) = 0
  BY MaxOfTwo DEF Fresh
<1>5. task_to_plan \in [DOMAIN task -> 0 .. Max({num_plan_registers - 1, 0})]
  BY <1>4 DEF Fresh
<1>6. Numbered([k \in 1 .. 1 |-> 0])
  BY <1>3 DEF Numbered, Fresh
<1>7. /\ Inputs /\ list = <<>> /\ bursts = <<>> /\ num_plan_registers = 0
      /\ pc # "collect" /\ (pc = "optimize" => task # <<>>) /\ (pc = "done" => task = <<>>)
      /\ num_plan_registers \in Nat
  BY DEF Fresh
<1>8. used_registers = {} <=> task = <<>>
  BY <1>7, UsedFacts
<1> QED
  BY <1>1, <1>2, <1>3, <1>5, <1>6, <1>7, <1>8 DEF PlanInv

\* The constructor has not been called.
LEMMA Beginning ==
  ASSUME PlanInit, pc \notin {"optimize", "collect", "done", "thrown"}
  PROVE  PlanInv
<1>1. /\ holding = <<>> /\ input = <<>> /\ task = <<>> /\ max_burst_size = 0
      /\ optima = <<>> /\ list = <<>> /\ bursts = <<>> /\ num_plan_registers = 0
      /\ task_to_plan = <<>>
  BY DEF PlanInit
<1>2. IsRegisterSet(<<>>)
  BY EmptySeq DEF IsRegisterSet
<1>3. 0 \in Sizes /\ <<>> \in Seq(Ints \ {-INT_MAX - 1})
  BY WidthsType, EmptySeq DEF Sizes
<1>4. Inputs
  BY <1>1, <1>2, <1>3 DEF Inputs
<1>5. task_to_plan \in [DOMAIN task -> {0}]
  BY <1>1
<1>6. Fresh
  BY <1>1, <1>4, <1>5 DEF Fresh
<1> QED
  BY <1>6, FreshPlan

\* It is called.
LEMMA ConstructStep ==
  ASSUME Construct
  PROVE  PlanInv'
<1>1. /\ Inputs'
      /\ pc' = IF task' = <<>> THEN "done" ELSE "optimize"
      /\ optima' = <<>> /\ list' = <<>> /\ bursts' = <<>> /\ num_plan_registers' = 0
      /\ task_to_plan' = [i \in DOMAIN task' |-> 0]
  BY DEF Construct, NewPlan, Inputs
<1>2. Fresh'
  BY <1>1 DEF Fresh
<1>3. Fresh' => PlanInv'
  BY FreshPlan, PTL
<1> QED
  BY <1>2, <1>3

\* An iteration of the first loop, and its end
LEMMA OptimizeKeepsPlanInv ==
  ASSUME PlanInv, Optimize
  PROVE  PlanInv'
<1>1. /\ Inputs /\ OptimaInv /\ pc = "optimize" /\ UNCHANGED <<inputs, list, plan>>
      /\ pc' \in {"optimize", "thrown"}
  BY DEF PlanInv, Optimize
<1>2. /\ used_registers' = used_registers /\ Inputs' /\ task' = task
      /\ \A burst : ReadableBurst(burst)' <=> ReadableBurst(burst)
  BY <1>1, Frame
<1>3. OptimaInv'
  BY <1>1, OptimizeStep
<1>4. /\ list' = list /\ bursts' = bursts /\ num_plan_registers' = num_plan_registers
      /\ task_to_plan' = task_to_plan
  BY <1>1 DEF plan
<1>5. \A first : Numbered(first) => Numbered(first)'
  BY <1>2, <1>4 DEF Numbered
<1> QED
  BY <1>1, <1>2, <1>3, <1>4, <1>5 DEF PlanInv

LEMMA OptimizedStep ==
  ASSUME PlanInv, Optimized
  PROVE  PlanInv'
<1>1. /\ Inputs /\ OptimaInv /\ pc = "optimize" /\ UNCHANGED <<inputs, optima, plan>>
      /\ used_registers # {} /\ bursts = <<>> /\ num_plan_registers = 0
      /\ pc' = "collect" /\ used_registers \subseteq DOMAIN optima
  BY DEF PlanInv, Optimized
<1>2. /\ used_registers' = used_registers /\ Inputs' /\ task' = task
      /\ \A burst : ReadableBurst(burst)' <=> ReadableBurst(burst)
  BY <1>1, Frame
<1>3. OptimaInv'
  BY <1>1, SameOptima
<1>4. /\ bursts' = bursts /\ num_plan_registers' = num_plan_registers
      /\ task_to_plan' = task_to_plan /\ optima' = optima
  BY <1>1 DEF plan
<1>5. \A first : Numbered(first) => Numbered(first)'
  BY <1>2, <1>4 DEF Numbered
<1>6. PICK r : r = Min(used_registers)
  OBVIOUS
<1>7. r \in used_registers /\ r \in DOMAIN optima /\ \A u \in used_registers : r <= u
  BY <1>1, <1>6, MinMaxUsed
<1>8. /\ list' = optima[r].bursts /\ list' \in Seq(Bursts) /\ list' # <<>>
      /\ Head(list').begin = r /\ optima[r].cost \in Costs
  BY <1>6, <1>7 DEF Optimized, OptimaInv, Listed, PlanInv
<1>9. Rest' = optima[r].cost
  BY <1>4, <1>8 DEF Rest, RestOf
<1>10. optima[r].cost[1] \in Nat /\ optima[r].cost[2] \in Nat
  BY <1>8 DEF Costs
<1>11. DOMAIN bursts' = {} /\ Len(bursts') = 0
  BY <1>1, <1>4, EmptySeq
<1>12. Min(used_registers)' = r
  BY <1>2, <1>6
<1>13. /\ Len(bursts') + optima[r].cost[1] = optima[r].cost[1]
       /\ num_plan_registers' + optima[r].cost[2] = optima[r].cost[2]
  BY <1>1, <1>4, <1>10, <1>11
<1>14. Collecting'
  BY <1>1, <1>2, <1>4, <1>7, <1>8, <1>9, <1>11, <1>12, <1>13 DEF Collecting
<1> QED
  BY <1>1, <1>2, <1>3, <1>4, <1>5, <1>8, <1>14 DEF PlanInv

\* Nothing is left to be collected.
LEMMA CollectedStep ==
  ASSUME PlanInv, Collected
  PROVE  PlanInv'
<1>1. /\ Inputs /\ OptimaInv /\ pc = "collect" /\ list = <<>> /\ Collecting
      /\ pc' = "done" /\ used_registers # {} /\ UNCHANGED <<inputs, optima, list, plan>>
  BY DEF PlanInv, Collected
<1>2. /\ used_registers' = used_registers /\ Inputs' /\ task' = task
      /\ \A burst : ReadableBurst(burst)' <=> ReadableBurst(burst)
  BY <1>1, Frame
<1>3. OptimaInv'
  BY <1>1, SameOptima
<1>4. /\ bursts' = bursts /\ num_plan_registers' = num_plan_registers
      /\ task_to_plan' = task_to_plan /\ optima' = optima /\ list' = list
  BY <1>1 DEF plan
<1>5. \A first : Numbered(first) => Numbered(first)'
  BY <1>2, <1>4 DEF Numbered
<1>6. Collecting'
  BY <1>1, <1>2, <1>4 DEF Collecting, Rest, RestOf
<1> QED
  BY <1>1, <1>2, <1>3, <1>4, <1>5, <1>6 DEF PlanInv

\* The program goes on with something else, or nothing happens.
LEMMA OtherStep ==
  ASSUME PlanInv, UNCHANGED <<inputs, optima, list, plan>>,
         pc' = pc \/ pc' \notin {"optimize", "collect", "done", "thrown"}
  PROVE  PlanInv'
<1>1. Inputs /\ OptimaInv
  BY DEF PlanInv
<1>2. /\ used_registers' = used_registers /\ Inputs' /\ task' = task
      /\ \A burst : ReadableBurst(burst)' <=> ReadableBurst(burst)
  BY <1>1, Frame
<1>3. OptimaInv'
  BY <1>1, SameOptima
<1>4. /\ bursts' = bursts /\ num_plan_registers' = num_plan_registers
      /\ task_to_plan' = task_to_plan /\ optima' = optima /\ list' = list
  BY DEF plan
<1>5. \A first : Numbered(first) => Numbered(first)'
  BY <1>2, <1>4 DEF Numbered
<1>6. Collecting => Collecting'
  BY <1>2, <1>4 DEF Collecting, Rest, RestOf
<1> QED
  BY <1>2, <1>3, <1>4, <1>5, <1>6 DEF PlanInv

-----------------------------------------------------------------------------
(* Theorems                                                                *)

\* The optima that were found are the best bursts from a register on, and what has been
\* collected, together with what has not, is the optimum for the first register.
THEOREM PlanInvariant == PlanSpec => []PlanInv
<1>1. PlanInit /\ pc \notin {"optimize", "collect", "done", "thrown"} => PlanInv
  BY Beginning
<1>2. PlanInv /\ [PlanStep \/ Construct \/ Proceed]_planVars => PlanInv'
  <2> SUFFICES ASSUME PlanInv, [PlanStep \/ Construct \/ Proceed]_planVars
               PROVE  PlanInv'
    OBVIOUS
  <2>1. CASE Optimize
    BY <2>1, OptimizeKeepsPlanInv
  <2>2. CASE Optimized
    BY <2>2, OptimizedStep
  <2>3. CASE Collect
    BY <2>3, CollectStep
  <2>4. CASE Collected
    BY <2>4, CollectedStep
  <2>5. CASE Construct
    BY <2>5, ConstructStep
  <2>6. CASE Proceed
    BY <2>6, OtherStep DEF Proceed
  <2>7. CASE UNCHANGED planVars
    BY <2>7, OtherStep DEF planVars
  <2> QED
    BY <2>1, <2>2, <2>3, <2>4, <2>5, <2>6, <2>7 DEF PlanStep
<1> QED
  BY <1>1, <1>2, PTL DEF PlanSpec

\* The plan and what is computed on the way to it have their types: the numbers that a
\* metric's registers get in the plan are smaller than the number of registers read.
THEOREM PlanTypeCorrect == PlanSpec => []PlanTypeOK
<1>1. PlanInv => PlanTypeOK
  <2> SUFFICES ASSUME PlanInv PROVE PlanTypeOK
    OBVIOUS
  <2>1. task \in Seq(Ints)
    <3>1. task \in Seq(Ints \ {-INT_MAX - 1})
      BY DEF PlanInv, Inputs
    <3> QED
      BY <3>1
  <2> QED
    BY <2>1 DEF PlanInv, PlanTypeOK, OptimaInv, Inputs
<1> QED
  BY <1>1, PlanInvariant, PTL

\* The bursts of a plan can be read, contain the task, and no others are fewer, or as many
\* and smaller, unless burst_size is so large that the limit of a burst overflows.
THEOREM PlanIsOptimal == PlanSpec => []PlanOptimal
<1>1. PlanInv => PlanOptimal
  <2> SUFFICES ASSUME PlanInv PROVE PlanOptimal
    OBVIOUS
  <2> DEFINE planned == {<<burst.begin, burst.end>> : burst \in ToSet(bursts)}
  <2>0. Inputs /\ OptimaInv /\ bursts \in Seq(Bursts) /\ num_plan_registers \in Nat
    BY DEF PlanInv
  <2>1. \A burst \in ToSet(bursts) : ReadableBurst(burst)
    BY DEF PlanInv, ToSet
  <2>2. planned \subseteq ReadableRanges(used_registers)
    <3>1. ASSUME NEW burst \in ToSet(bursts)
          PROVE  <<burst.begin, burst.end>> \in ReadableRanges(used_registers)
      <4>1. ReadableBurst(burst) /\ burst.type \in {"holding", "input"}
        BY <2>1 DEF ReadableBurst, Bursts
      <4> QED
        BY <4>1 DEF ReadableBurst, ReadableRanges, Limited
    <3> QED
      BY <3>1
  <2>3. \A burst \in ToSet(bursts) : burst.begin .. burst.end \subseteq RegistersOf(burst.type)
    BY <2>1 DEF ReadableBurst
  <2>4. ASSUME pc = "done" PROVE used_registers \subseteq Registers(planned)
    <3>1. ASSUME NEW u \in used_registers PROVE u \in Registers(planned)
      <4>1. Collecting /\ list = <<>>
        BY <2>4, <3>1 DEF PlanInv
      <4>2. PICK k \in DOMAIN bursts : u \in bursts[k].begin .. bursts[k].end
        BY <3>1, <4>1 DEF Collecting
      <4>3. <<bursts[k].begin, bursts[k].end>> \in planned
        BY DEF ToSet
      <4> HIDE DEF planned
      <4>4. PICK range : range = <<bursts[k].begin, bursts[k].end>>
        OBVIOUS
      <4>5. range \in planned /\ u \in range[1] .. range[2]
        BY <4>2, <4>3, <4>4
      <4> QED
        BY <4>5 DEF Registers
    <3> QED
      BY <3>1
  <2>5. ASSUME pc = "done", NoOverflow,
               NEW ranges \in SUBSET ReadableRanges(used_registers),
               used_registers \subseteq Registers(ranges)
        PROVE  \/ Cardinality(ranges) > Len(bursts)
               \/ Cardinality(ranges) = Len(bursts) /\ TotalSize(ranges) >= num_plan_registers
    <3>1. Cardinality(ranges) \in Nat /\ TotalSize(ranges) \in Nat /\ Len(bursts) \in Nat
      BY <2>0, ReadableRangesFacts, LenProperties
    <3>2. CASE used_registers = {}
      <4>1. Len(bursts) = 0 /\ num_plan_registers = 0
        BY <2>5, <3>2, EmptySeq DEF PlanInv
      <4> QED
        BY <3>1, <4>1
    <3>3. CASE used_registers # {}
      <4>1. PICK r : r = Min(used_registers)
        OBVIOUS
      <4>2. Collecting /\ list = <<>>
        BY <2>5, <3>3 DEF PlanInv
      <4>3. r \in DOMAIN optima
        BY <2>0, <3>3, <4>1, <4>2, MinMaxUsed DEF Collecting
      <4>4. Best(r) /\ optima[r].cost \in Costs
        BY <2>0, <4>3 DEF OptimaInv, Listed
      <4>5. ~ Cheaper(<<Cardinality(ranges), TotalSize(ranges)>>, optima[r].cost)
        BY <2>5, <4>4 DEF Best
      <4>6. Len(bursts) + 0 = optima[r].cost[1] /\ num_plan_registers + 0 = optima[r].cost[2]
        BY <4>1, <4>2 DEF Collecting, Rest, RestOf
      <4>7. optima[r].cost[1] = Len(bursts) /\ optima[r].cost[2] = num_plan_registers
        BY <2>0, <3>1, <4>6
      <4> QED
        BY <2>0, <3>1, <4>5, <4>7 DEF Cheaper
    <3> QED
      BY <3>2, <3>3
  <2> QED
    BY <2>2, <2>3, <2>4, <2>5 DEF PlanOptimal, NoOverflow
<1> QED
  BY <1>1, PlanInvariant, PTL

\* "The first plan register of each Burst is the sum over all previous Bursts of
\* num_registers", num_plan_registers is "the sum over bursts", and task_to_plan has "the
\* plan register number corresponding to" each register of the task, which is in one of
\* the bursts (Burst.hpp:57-69).
TaskInPlan ==
  pc = "done" =>
    \E first \in [1 .. Len(bursts) + 1 -> Nat] :
      /\ first[1] = 0 /\ first[Len(bursts) + 1] = num_plan_registers
      /\ \A k \in 1 .. Len(bursts) : first[k + 1] = first[k] + bursts[k].end - bursts[k].begin + 1
      /\ \A i \in DOMAIN task : \E k \in 1 .. Len(bursts) :
           /\ task[i] \in bursts[k].begin .. bursts[k].end
           /\ task_to_plan[i] = first[k] + task[i] - bursts[k].begin

\* A register of the task is found in the plan where the bursts before its own end.
THEOREM TaskToPlanCorrect == PlanSpec => []TaskInPlan
<1>1. PlanInv => TaskInPlan
  <2> SUFFICES ASSUME PlanInv, pc = "done" PROVE TaskInPlan
    BY DEF TaskInPlan
  <2>1. PICK first : Numbered(first)
    BY DEF PlanInv
  <2>2. Inputs /\ bursts \in Seq(Bursts) /\ DOMAIN bursts = 1 .. Len(bursts)
    BY LenProperties DEF PlanInv
  <2>3. ASSUME NEW i \in DOMAIN task
        PROVE  \E k \in 1 .. Len(bursts) :
                 /\ task[i] \in bursts[k].begin .. bursts[k].end
                 /\ task_to_plan[i] = first[k] + task[i] - bursts[k].begin
    <3>1. task[i] \in used_registers
      BY <2>2, UsedFacts
    <3>2. Collecting /\ list = <<>>
      BY <3>1 DEF PlanInv
    <3>3. PICK k \in 1 .. Len(bursts) : task[i] \in bursts[k].begin .. bursts[k].end
      BY <2>2, <3>1, <3>2 DEF Collecting
    <3>4. task_to_plan[i] = first[k] + task[i] - bursts[k].begin
      BY <2>1, <3>3 DEF Numbered
    <3> QED
      BY <3>3, <3>4
  <2>4. /\ first \in [1 .. Len(bursts) + 1 -> Nat]
        /\ first[1] = 0 /\ first[Len(bursts) + 1] = num_plan_registers
        /\ \A k \in 1 .. Len(bursts) : first[k + 1] = first[k] + bursts[k].end - bursts[k].begin + 1
    BY <2>1 DEF Numbered
  <2> QED
    BY <2>3, <2>4 DEF TaskInPlan
<1> QED
  BY <1>1, PlanInvariant, PTL

=============================================================================
