--------------------------- MODULE DecodersProofs ---------------------------
(***************************************************************************)
(* Theorems about Decoders, for any size of a byte with a highest bit, and *)
(* any number of registers that fits into an integer.                      *)
(***************************************************************************)
EXTENDS Decoders, RegisterSetProofs

-----------------------------------------------------------------------------
(* Places                                                                  *)

\* A register has a highest bit, too.
LEMMA BaseFacts ==
  \E half \in Nat \ {0} : RegisterBase = 2 * half /\ RegisterBase \div 2 = half
<1>1. PICK half \in Nat \ {0} : ByteBase = 2 * half
  <2>1. ByteBase = 2 * (ByteBase \div 2) /\ ByteBase \div 2 \in Nat
    BY DecodingType
  <2>2. ByteBase \div 2 # 0
    BY <2>1, DecodingType
  <2> QED
    BY <2>1, <2>2
<1> DEFINE h == half * ByteBase
<1>2. h \in Nat \ {0}
  BY <1>1, DecodingType
<1>3. RegisterBase = 2 * h
  BY <1>1, DecodingType DEF RegisterBase
<1>4. (2 * h) \div 2 = h
  <2> HIDE DEF h
  <2> QED
    BY <1>2
<1> QED
  BY <1>2, <1>3, <1>4

IsPlace(f) ==
  f = [i \in 0 .. WordRegisters |-> IF i = 0 THEN 1 ELSE f[i - 1] * RegisterBase]

LEMMA PlaceExists == \E f : IsPlace(f)
<1> DEFINE D == 0 .. WordRegisters
           Correct(f, n) ==
             \A i \in D : i <= n => f[i] = IF i = 0 THEN 1 ELSE f[i - 1] * RegisterBase
           T == {n \in Nat : \E f \in [D -> Int] : Correct(f, n)}
<1>1. RegisterBase \in Int /\ WordRegisters \in Nat
  BY DecodingType DEF RegisterBase
<1>2. 0 \in T
  <2>1. [i \in D |-> 1] \in [D -> Int] /\ Correct([i \in D |-> 1], 0)
    OBVIOUS
  <2> QED
    BY <2>1
<1>3. ASSUME NEW n \in Nat, n \in T PROVE n + 1 \in T
  <2>1. PICK f \in [D -> Int] : Correct(f, n)
    BY <1>3
  <2> DEFINE g == [i \in D |-> IF i = n + 1 THEN f[n] * RegisterBase ELSE f[i]]
  <2>2. g \in [D -> Int]
    <3>1. n + 1 \in D => n \in D /\ f[n] \in Int
      BY <1>1
    <3>2. n + 1 \in D => f[n] * RegisterBase \in Int
      BY <1>1, <3>1
    <3> QED
      BY <3>2
  <2>3. ASSUME NEW i \in D, i <= n + 1
        PROVE  g[i] = IF i = 0 THEN 1 ELSE g[i - 1] * RegisterBase
    <3>1. CASE i = n + 1
      <4>1. i - 1 = n /\ n \in D /\ g[n] = f[n]
        BY <1>1, <3>1
      <4> QED
        BY <1>1, <3>1, <4>1
    <3>2. CASE i <= n
      <4>1. g[i] = f[i] /\ (i # 0 => i - 1 \in D /\ g[i - 1] = f[i - 1])
        BY <1>1, <3>2
      <4> QED
        BY <2>1, <3>2, <4>1
    <3> QED
      BY <1>1, <2>3, <3>1, <3>2
  <2>4. Correct(g, n + 1)
    BY <2>3
  <2> HIDE DEF g, Correct
  <2> QED
    BY <2>2, <2>4
<1>4. WordRegisters \in T
  <2> HIDE DEF T
  <2> QED
    BY <1>1, <1>2, <1>3, NatSetInduction
<1>5. PICK f \in [D -> Int] : Correct(f, WordRegisters)
  BY <1>4
<1>6. f = [i \in D |-> IF i = 0 THEN 1 ELSE f[i - 1] * RegisterBase]
  BY <1>1, <1>5
<1> QED
  BY <1>6 DEF IsPlace

\* Each place counts RegisterBase times as much as the one before.
LEMMA PlaceFacts ==
  /\ place[0] = 1
  /\ \A i \in 1 .. WordRegisters : place[i] = place[i - 1] * RegisterBase
  /\ \A i \in 0 .. WordRegisters : place[i] \in Nat \ {0}
<1>1. place = CHOOSE f : IsPlace(f)
  BY DEF place, IsPlace
<1>2. IsPlace(place)
  BY <1>1, PlaceExists, Zenon
<1>3. WordRegisters \in Nat /\ RegisterBase \in Nat \ {0}
  BY DecodingType DEF RegisterBase
<1>4. place[0] = 1 /\ \A i \in 1 .. WordRegisters : place[i] = place[i - 1] * RegisterBase
  BY <1>2, <1>3 DEF IsPlace
<1> DEFINE T == {i \in Nat : i <= WordRegisters => place[i] \in Nat \ {0}}
<1>5. ASSUME NEW i \in Nat, i \in T PROVE i + 1 \in T
  <2> SUFFICES ASSUME i + 1 <= WordRegisters PROVE place[i + 1] \in Nat \ {0}
    OBVIOUS
  <2>1. place[i + 1] = place[i] * RegisterBase /\ place[i] \in Nat \ {0}
    BY <1>3, <1>4, <1>5
  <2> QED
    BY <1>3, <2>1
<1>6. 0 \in T
  BY <1>4
<1>7. \A i \in Nat : i \in T
  <2> HIDE DEF T
  <2> QED
    BY <1>5, <1>6, NatSetInduction
<1> QED
  BY <1>3, <1>4, <1>7

\* Places increase.
LEMMA PlacesIncrease ==
  ASSUME NEW j \in 0 .. WordRegisters, NEW i \in 0 .. j
  PROVE  place[i] <= place[j]
<1> DEFINE T == {k \in Nat : i <= k /\ k <= WordRegisters => place[i] <= place[k]}
<1>1. WordRegisters \in Nat /\ RegisterBase \in Nat \ {0}
  BY DecodingType DEF RegisterBase
<1>2. 0 \in T
  BY PlaceFacts, <1>1
<1>3. ASSUME NEW k \in Nat, k \in T PROVE k + 1 \in T
  <2> SUFFICES ASSUME i <= k + 1, k + 1 <= WordRegisters PROVE place[i] <= place[k + 1]
    OBVIOUS
  <2>1. CASE i = k + 1
    BY <1>1, <2>1, PlaceFacts
  <2>2. CASE i <= k
    <3>1. place[i] <= place[k] /\ place[i] \in Nat /\ place[k] \in Nat
      BY <1>1, <1>3, <2>2, PlaceFacts
    <3>2. place[k + 1] = place[k] * RegisterBase
      BY <1>1, PlaceFacts
    <3>3. place[k] <= place[k] * RegisterBase
      BY <1>1, <3>1
    <3>4. place[k] * RegisterBase \in Nat
      BY <1>1, <3>1
    <3> QED
      BY <3>1, <3>2, <3>3, <3>4
  <2> QED
    BY <2>1, <2>2
<1>4. \A k \in Nat : k \in T
  <2> HIDE DEF T
  <2> QED
    BY <1>2, <1>3, NatSetInduction
<1> QED
  BY <1>1, <1>4

-----------------------------------------------------------------------------
(* Unsigned integers                                                       *)

Sums == [value : Nat, place : Nat]
ZeroSum == [value |-> 0, place |-> 1]

\* What the loop has computed after each register
IsSums(sum, values) ==
  /\ sum[0] = ZeroSum
  /\ \A k \in 1 .. Len(values) : sum[k] = AddRegister(sum[k - 1], values[k])

LEMMA AddRegisterType ==
  ASSUME NEW sum \in Sums, NEW register \in RegisterValues
  PROVE  AddRegister(sum, register) \in Sums
<1>1. RegisterBase \in Nat /\ register \in Nat /\ sum.place \in Nat /\ sum.value \in Nat
  BY DecodingType DEF RegisterBase, RegisterValues, Sums
<1>2. register * sum.place \in Nat /\ sum.place * RegisterBase \in Nat
  BY <1>1
<1> QED
  BY <1>1, <1>2 DEF AddRegister, Sums

LEMMA SumsExist ==
  ASSUME NEW values \in Seq(RegisterValues)
  PROVE  \E sum : IsSums(sum, values) /\ decodeUnsigned(values) = sum[Len(values)].value
<1> DEFINE L == DOMAIN values
           choose == [s \in SUBSET L |-> Max(s)]
           step == [vi \in Sums \X L |-> AddRegister(vi[1], values[vi[2]])]
           IsFold(fold) == fold = [s \in SUBSET L |->
             IF s = {} THEN ZeroSum ELSE AddRegister(fold[s \ {Max(s)}], values[Max(s)])]
<1>1. L = 1 .. Len(values) /\ Len(values) \in Nat /\ \A i \in L : values[i] \in RegisterValues
  BY LenProperties, ElementOfSeq
<1>2. IsFiniteSet(L)
  BY <1>1, FS_Interval
<1>3. ASSUME NEW s \in SUBSET L, s # {} PROVE Max(s) \in s /\ \A n \in s : n <= Max(s)
  <2>1. s \in SUBSET Int /\ \A n \in s : n <= Len(values)
    BY <1>1
  <2>2. s # {} /\ Len(values) \in Int
    BY <1>1, <1>3
  <2> HIDE DEF L
  <2> QED
    BY <2>1, <2>2, MaxOfInts
<1>4. \E fold : IsFold(fold)
  <2>1. step \in StepsFor(Sums, L)
    <3>1. \A v \in Sums, i \in L : AddRegister(v, values[i]) \in Sums
      BY <1>1, AddRegisterType
    <3> QED
      BY <3>1 DEF StepsFor
  <2>2. Takes(choose, L) /\ ZeroSum \in Sums
    BY <1>3 DEF Takes, ZeroSum, Sums
  <2>3. PICK fold : Folds(fold, L, Sums, ZeroSum, step, choose)
    <3> HIDE DEF choose, step, IsFold, L
    <3> QED
      BY <1>2, <2>1, <2>2, FoldExists
  <2>4. ASSUME NEW s \in SUBSET L
        PROVE  fold[s] = IF s = {} THEN ZeroSum
                         ELSE AddRegister(fold[s \ {Max(s)}], values[Max(s)])
    <3>1. CASE s = {}
      BY <2>3, <3>1 DEF Folds
    <3>2. CASE s # {}
      <4>1. Max(s) \in L /\ fold[s \ {Max(s)}] \in Sums
        BY <1>3, <2>3, <3>2 DEF Folds
      <4>2. step[<<fold[s \ {Max(s)}], Max(s)>>] =
              AddRegister(fold[s \ {Max(s)}], values[Max(s)])
        BY <4>1
      <4> HIDE DEF step
      <4> QED
        BY <2>3, <3>2, <4>2 DEF Folds
    <3> QED
      BY <3>1, <3>2
  <2>5. fold \in [SUBSET L -> Sums]
    BY <2>3 DEF Folds
  <2> HIDE DEF L
  <2> QED
    BY <2>4, <2>5
<1> DEFINE iter == CHOOSE fold : IsFold(fold)
<1>5. decodeUnsigned(values) = iter[L].value
  BY DEF decodeUnsigned, FoldLeft, MapThenFoldSet, ZeroSum
<1>6. IsFold(iter)
  <2> HIDE DEF IsFold
  <2> QED
    BY <1>4, Zenon
<1>7. \A s \in SUBSET L : iter[s] =
        IF s = {} THEN ZeroSum ELSE AddRegister(iter[s \ {Max(s)}], values[Max(s)])
  BY <1>6
<1> HIDE DEF iter
<1> DEFINE sum == [k \in 0 .. Len(values) |-> iter[1 .. k]]
<1>8. sum[0] = ZeroSum
  <2>1. iter[{}] = ZeroSum
    <3>1. {} \in SUBSET L
      OBVIOUS
    <3> HIDE DEF L
    <3> QED
      BY <1>7, <3>1
  <2>2. 1 .. 0 = {} /\ 0 \in 0 .. Len(values)
    BY <1>1
  <2> QED
    BY <2>1, <2>2
<1>9. ASSUME NEW k \in 1 .. Len(values)
      PROVE  sum[k] = AddRegister(sum[k - 1], values[k])
  <2> DEFINE s == 1 .. k
  <2>1. s \in SUBSET L /\ s # {} /\ k \in s
    <3>1. k \in Nat /\ 1 <= k /\ k <= Len(values)
      BY <1>1
    <3>2. \A i \in s : i \in L
      BY <1>1, <3>1
    <3> QED
      BY <3>1, <3>2
  <2>2. Max(s) = k
    <3>1. Max(s) \in s /\ k <= Max(s)
      BY <1>3, <2>1
    <3> QED
      BY <3>1
  <2>3. s \ {k} = 1 .. k - 1
    BY <1>1
  <2>4. iter[s] = AddRegister(iter[1 .. k - 1], values[k])
    BY <1>7, <2>1, <2>2, <2>3
  <2>5. sum[k] = iter[s] /\ sum[k - 1] = iter[1 .. k - 1]
    BY <1>1
  <2> QED
    BY <2>4, <2>5
<1>10. sum[Len(values)] = iter[L]
  BY <1>1
<1> HIDE DEF sum
<1> QED
  BY <1>5, <1>8, <1>9, <1>10 DEF IsSums

\* A digit is added in front.
LEMMA DigitAdds ==
  ASSUME NEW p \in Nat \ {0}, NEW v \in 0 .. p - 1, NEW d \in RegisterValues
  PROVE  v + d * p \in 0 .. p * RegisterBase - 1
<1>1. d \in Nat /\ d <= RegisterBase - 1 /\ RegisterBase \in Nat
  BY DecodingType DEF RegisterValues, RegisterBase
<1>2. d * p \in Nat /\ d * p <= (RegisterBase - 1) * p
  BY <1>1
<1>3. (RegisterBase - 1) * p = p * RegisterBase - p /\ p * RegisterBase \in Nat
  BY <1>1
<1> QED
  BY <1>1, <1>2, <1>3

\* After some registers, the loop has arrived at the place of the next one, and the
\* value is less than that.
LEMMA SumsInPlace ==
  ASSUME NEW values \in Seq(RegisterValues), Len(values) <= WordRegisters,
         NEW sum, IsSums(sum, values)
  PROVE  \A k \in 0 .. Len(values) :
           sum[k].place = place[k] /\ sum[k].value \in 0 .. place[k] - 1
<1> DEFINE T == {k \in Nat : k <= Len(values) =>
                   sum[k].place = place[k] /\ sum[k].value \in 0 .. place[k] - 1}
<1>1. /\ Len(values) \in Nat /\ \A k \in 1 .. Len(values) : values[k] \in RegisterValues
      /\ WordRegisters \in Nat /\ RegisterBase \in Nat \ {0}
  BY LenProperties, ElementOfSeq, DecodingType DEF RegisterBase
<1>2. 0 \in T
  BY PlaceFacts DEF IsSums, ZeroSum
<1>3. ASSUME NEW k \in Nat, k \in T PROVE k + 1 \in T
  <2> SUFFICES ASSUME k + 1 <= Len(values)
               PROVE  sum[k + 1].place = place[k + 1] /\ sum[k + 1].value \in 0 .. place[k + 1] - 1
    OBVIOUS
  <2>1. k + 1 \in 1 .. WordRegisters /\ k \in 0 .. WordRegisters /\ k + 1 \in 1 .. Len(values)
    BY <1>1
  <2>2. sum[k + 1] = AddRegister(sum[k], values[k + 1])
    BY <2>1 DEF IsSums
  <2>3. sum[k].place = place[k] /\ sum[k].value \in 0 .. place[k] - 1
    BY <1>1, <1>3
  <2>4. sum[k + 1].place = place[k] * RegisterBase
        /\ sum[k + 1].value = sum[k].value + values[k + 1] * place[k]
    BY <2>2, <2>3 DEF AddRegister
  <2>5. place[k + 1] = place[k] * RegisterBase /\ place[k] \in Nat \ {0}
    BY <2>1, PlaceFacts
  <2>6. values[k + 1] \in RegisterValues
    BY <1>1, <2>1
  <2>7. sum[k].value + values[k + 1] * place[k] \in 0 .. place[k] * RegisterBase - 1
    BY <2>3, <2>5, <2>6, DigitAdds
  <2> QED
    BY <2>4, <2>5, <2>7
<1>4. \A k \in Nat : k \in T
  <2> HIDE DEF T
  <2> QED
    BY <1>2, <1>3, NatSetInduction
<1> QED
  BY <1>1, <1>4

\* The registers up to k have the places up to k to themselves.
LEMMA PlaceMultiple ==
  ASSUME NEW k \in 0 .. WordRegisters, NEW i \in 0 .. k
  PROVE  \E m \in Nat : place[k] = place[i] * m
<1> DEFINE T == {j \in Nat : i <= j /\ j <= WordRegisters =>
                   \E m \in Nat : place[j] = place[i] * m}
<1>1. WordRegisters \in Nat /\ RegisterBase \in Nat
  BY DecodingType DEF RegisterBase
<1>2. place[i] \in Nat /\ place[i] = place[i] * 1
  BY <1>1, PlaceFacts
<1>3. 0 \in T
  BY <1>1, <1>2
<1>4. ASSUME NEW j \in Nat, j \in T PROVE j + 1 \in T
  <2> SUFFICES ASSUME i <= j + 1, j + 1 <= WordRegisters
               PROVE  \E m \in Nat : place[j + 1] = place[i] * m
    OBVIOUS
  <2>1. CASE i = j + 1
    BY <1>2, <2>1
  <2>2. CASE i <= j
    <3>1. PICK m \in Nat : place[j] = place[i] * m
      BY <1>1, <1>4, <2>2
    <3>2. place[j + 1] = place[j] * RegisterBase
      BY <1>1, PlaceFacts
    <3>3. m * RegisterBase \in Nat /\ place[j + 1] = place[i] * (m * RegisterBase)
      BY <1>1, <1>2, <3>1, <3>2
    <3> QED
      BY <3>3
  <2> QED
    BY <2>1, <2>2
<1>5. \A j \in Nat : j \in T
  <2> HIDE DEF T
  <2> QED
    BY <1>3, <1>4, NatSetInduction
<1> QED
  BY <1>1, <1>5

\* n is written with the digit d in the i-th place.
HasDigit(n, i, d) ==
  \E low \in 0 .. place[i] - 1, high \in Nat :
    n = low + place[i] * (d + RegisterBase * high)

\* What is added in front leaves the digits as they are.
LEMMA DigitsKept ==
  ASSUME NEW n \in Nat, NEW d \in Nat, NEW more \in Nat,
         NEW k \in 0 .. WordRegisters, NEW i \in 0 .. WordRegisters, i < k,
         HasDigit(n, i, d)
  PROVE  HasDigit(n + more * place[k], i, d)
<1>1. WordRegisters \in Nat /\ RegisterBase \in Nat /\ place[i] \in Nat
  BY DecodingType, PlaceFacts DEF RegisterBase
<1>2. PICK low \in 0 .. place[i] - 1, high \in Nat :
        n = low + place[i] * (d + RegisterBase * high)
  BY DEF HasDigit
<1>3. PICK m \in Nat : place[k] = place[i + 1] * m
  BY <1>1, PlaceMultiple
<1>4. place[i + 1] = place[i] * RegisterBase
  BY <1>1, PlaceFacts
<1> DEFINE higher == high + more * m
<1>5. higher \in Nat
  OBVIOUS
<1>6. more * place[k] = place[i] * (RegisterBase * (more * m))
  BY <1>1, <1>3, <1>4
<1>7. RegisterBase * higher = RegisterBase * high + RegisterBase * (more * m)
  BY <1>1
<1>8. place[i] * (d + RegisterBase * higher)
        = place[i] * (d + RegisterBase * high) + place[i] * (RegisterBase * (more * m))
  <2> DEFINE x == RegisterBase * high  y == RegisterBase * (more * m)
  <2>1. x \in Nat /\ y \in Nat
    BY <1>1
  <2> HIDE DEF x, y, higher
  <2>2. place[i] * (d + (x + y)) = place[i] * (d + x) + place[i] * y
    BY <1>1, <2>1
  <2> QED
    BY <1>7, <2>2 DEF x, y
<1>9. n + more * place[k] = low + place[i] * (d + RegisterBase * higher)
  <2> DEFINE x == place[i] * (d + RegisterBase * high)
             y == place[i] * (RegisterBase * (more * m))
  <2>1. x \in Nat /\ y \in Nat
    BY <1>1
  <2> HIDE DEF x, y, higher
  <2> QED
    BY <1>2, <1>6, <1>8, <2>1 DEF x, y
<1> HIDE DEF higher
<1> QED
  BY <1>5, <1>9 DEF HasDigit

\* decodeUnsigned is the little endian number of the registers ("in a little endian
\* way", ConfigJson.hpp:48): its digits are the registers, the first one in the lowest
\* place, and it has no others.
THEOREM DecodeUnsignedCorrect ==
  ASSUME NEW values \in Seq(RegisterValues), Len(values) <= WordRegisters
  PROVE  /\ decodeUnsigned(values) \in 0 .. place[Len(values)] - 1
         /\ \A i \in DOMAIN values : HasDigit(decodeUnsigned(values), i - 1, values[i])
<1>1. PICK sum : IsSums(sum, values) /\ decodeUnsigned(values) = sum[Len(values)].value
  BY SumsExist
<1>2. /\ Len(values) \in Nat /\ DOMAIN values = 1 .. Len(values)
      /\ \A k \in 1 .. Len(values) : values[k] \in RegisterValues
      /\ WordRegisters \in Nat /\ RegisterBase \in Nat
  BY LenProperties, ElementOfSeq, DecodingType DEF RegisterBase
<1>3. \A k \in 0 .. Len(values) :
        sum[k].place = place[k] /\ sum[k].value \in 0 .. place[k] - 1
  BY <1>1, SumsInPlace
<1> DEFINE T == {k \in Nat : k <= Len(values) =>
                   \A i \in 1 .. k : HasDigit(sum[k].value, i - 1, values[i])}
<1>4. 0 \in T
  OBVIOUS
<1>5. ASSUME NEW k \in Nat, k \in T PROVE k + 1 \in T
  <2> SUFFICES ASSUME k + 1 <= Len(values), NEW i \in 1 .. k + 1
               PROVE  HasDigit(sum[k + 1].value, i - 1, values[i])
    OBVIOUS
  <2>1. sum[k + 1] = AddRegister(sum[k], values[k + 1])
    BY <1>1, <1>2 DEF IsSums
  <2>2. /\ sum[k].place = place[k] /\ sum[k].value \in 0 .. place[k] - 1
        /\ place[k] \in Nat /\ values[k + 1] \in Nat /\ values[i] \in Nat
    BY <1>2, <1>3, PlaceFacts DEF RegisterValues
  <2>3. sum[k + 1].value = sum[k].value + values[k + 1] * place[k]
    BY <2>1, <2>2 DEF AddRegister
  <2>4. CASE i = k + 1
    <3>1. values[k + 1] * place[k] = place[k] * (values[k + 1] + RegisterBase * 0)
      BY <1>2, <2>2
    <3> QED
      BY <2>2, <2>3, <2>4, <3>1 DEF HasDigit
  <2>5. CASE i <= k
    <3>1. HasDigit(sum[k].value, i - 1, values[i])
      BY <1>2, <1>5, <2>5
    <3>2. sum[k].value \in Nat /\ k \in 0 .. WordRegisters /\ i - 1 \in 0 .. WordRegisters
          /\ i - 1 < k
      BY <1>2, <2>2, <2>5
    <3> QED
      BY <2>2, <2>3, <3>1, <3>2, DigitsKept
  <2> QED
    BY <2>4, <2>5
<1>6. \A k \in Nat : k \in T
  <2> HIDE DEF T
  <2> QED
    BY <1>4, <1>5, NatSetInduction
<1> QED
  BY <1>1, <1>2, <1>3, <1>6

-----------------------------------------------------------------------------
(* Signed integers                                                         *)

\* The conversion to int64_t, of numbers which fit into uint64_t
LEMMA ToSignedFacts ==
  ASSUME NEW n \in 0 .. Word - 1
  PROVE  ToSigned(n) = IF 2 * n < Word THEN n ELSE n - Word
<1>1. PICK h \in Nat \ {0} : Word = 2 * h /\ Word \div 2 = h
  <2>1. WordRegisters \in Nat \ {0}
    BY DecodingType
  <2>2. Word = place[WordRegisters - 1] * RegisterBase /\ place[WordRegisters - 1] \in Nat \ {0}
    BY <2>1, PlaceFacts DEF Word
  <2>3. PICK half \in Nat \ {0} : RegisterBase = 2 * half
    BY BaseFacts
  <2> DEFINE h == place[WordRegisters - 1] * half
  <2>4. h \in Nat \ {0} /\ Word = 2 * h
    BY <2>2, <2>3
  <2>5. (2 * h) \div 2 = h
    <3> HIDE DEF h
    <3> QED
      BY <2>4
  <2> QED
    BY <2>4, <2>5
<1>2. ToSigned(n) = ((n + h) % (2 * h)) - h
  BY <1>1 DEF ToSigned
<1>3. CASE 2 * n < Word
  <2>1. n + h \in 0 .. 2 * h - 1
    BY <1>1, <1>3
  <2>2. \A m \in Nat \ {0} : \A x \in 0 .. m - 1 : x % m = x
    OBVIOUS
  <2>3. (n + h) % (2 * h) = n + h
    BY <1>1, <2>1, <2>2
  <2> QED
    BY <1>1, <1>2, <1>3, <2>3
<1>4. CASE ~ 2 * n < Word
  <2>1. n + h - 2 * h \in 0 .. 2 * h - 1
    BY <1>1, <1>4
  <2>2. \A m \in Nat \ {0} : \A x \in 0 .. m - 1 : (x + m) % m = x
    OBVIOUS
  <2>3. (n + h - 2 * h + 2 * h) % (2 * h) = n + h - 2 * h
    BY <1>1, <2>1, <2>2
  <2>4. n + h - 2 * h + 2 * h = n + h
    BY <1>1
  <2> QED
    BY <1>1, <1>2, <1>4, <2>3, <2>4
<1> QED
  BY <1>3, <1>4

\* The last register has the highest bit of the number.
LEMMA HighestBit ==
  ASSUME NEW values \in Seq(RegisterValues), values # <<>>, Len(values) <= WordRegisters
  PROVE  2 * decodeUnsigned(values) >= place[Len(values)]
           <=> Last(values) >= RegisterBase \div 2
<1>1. PICK sum : IsSums(sum, values) /\ decodeUnsigned(values) = sum[Len(values)].value
  BY SumsExist
<1>2. /\ Len(values) \in Nat \ {0} /\ WordRegisters \in Nat
      /\ Last(values) = values[Len(values)] /\ Last(values) \in RegisterValues
  <2>1. Len(values) \in Nat \ {0}
    BY LenProperties, EmptySeq
  <2>2. values[Len(values)] \in RegisterValues
    BY <2>1, ElementOfSeq
  <2> QED
    BY <2>1, <2>2, DecodingType DEF Last
<1>3. PICK half \in Nat \ {0} : RegisterBase = 2 * half /\ RegisterBase \div 2 = half
  BY BaseFacts
<1>4. PICK n : n = Len(values)
  OBVIOUS
<1>5. PICK p : p = place[n - 1]
  OBVIOUS
<1>6. PICK s : s = sum[n - 1].value
  OBVIOUS
<1>7. PICK d : d = Last(values)
  OBVIOUS
<1>8. p \in Nat \ {0} /\ place[n] = p * (2 * half)
  BY <1>2, <1>3, <1>4, <1>5, PlaceFacts
<1>9. sum[n - 1].place = p /\ s \in 0 .. p - 1
  <2>1. n - 1 \in 0 .. Len(values)
    BY <1>2, <1>4
  <2> QED
    BY <1>1, <1>5, <1>6, <2>1, SumsInPlace
<1>10. decodeUnsigned(values) = s + d * p
  <2>1. sum[n] = AddRegister(sum[n - 1], d)
    BY <1>1, <1>2, <1>4, <1>7 DEF IsSums
  <2> QED
    BY <1>1, <1>4, <1>6, <1>9, <2>1 DEF AddRegister
<1>11. d \in Nat
  BY <1>2, <1>7 DEF RegisterValues
<1>12. CASE d >= half
  <2>1. d * p >= half * p /\ d * p \in Nat /\ half * p \in Nat
    BY <1>8, <1>11, <1>12
  <2>2. p * (2 * half) = 2 * (half * p)
    BY <1>8
  <2>3. 2 * (s + d * p) >= 2 * (half * p)
    BY <1>9, <2>1
  <2> QED
    BY <1>3, <1>4, <1>7, <1>8, <1>10, <1>12, <2>2, <2>3
<1>13. CASE ~ d >= half
  <2>1. d * p <= (half - 1) * p /\ d * p \in Nat /\ half * p \in Nat
    BY <1>8, <1>11, <1>13
  <2>2. p * (2 * half) = 2 * (half * p) /\ (half - 1) * p = half * p - p
    BY <1>8
  <2>3. s + d * p < half * p
    BY <1>8, <1>9, <2>1, <2>2
  <2>4. ~ 2 * (s + d * p) >= 2 * (half * p)
    BY <1>9, <2>1, <2>3
  <2> QED
    BY <1>3, <1>4, <1>7, <1>8, <1>10, <1>13, <2>2, <2>4
<1> QED
  BY <1>12, <1>13

\* If more registers follow, with all bits set, the number increases by the
\* difference of the places.
LEMMA AllBitsSet ==
  ASSUME NEW values \in Seq(RegisterValues), Len(values) <= WordRegisters
  PROVE  decodeUnsigned(values \o
           [i \in 1 .. WordRegisters - Len(values) |-> RegisterBase - 1])
             = decodeUnsigned(values) + Word - place[Len(values)]
<1>1. PICK n : n = Len(values)
  OBVIOUS
<1>2. PICK w : w = WordRegisters
  OBVIOUS
<1>3. n \in Nat /\ w \in Nat /\ n <= w /\ RegisterBase \in Nat \ {0}
  BY <1>1, <1>2, LenProperties, DecodingType DEF RegisterBase
<1> DEFINE more == [i \in 1 .. w - n |-> RegisterBase - 1]
<1>4. more \in Seq(RegisterValues) /\ Len(more) = w - n
  <2>1. RegisterBase - 1 \in RegisterValues /\ w - n \in Nat
    BY <1>3 DEF RegisterValues
  <2> QED
    BY <2>1, SeqDef
<1> HIDE DEF more
<1>0. PICK all : all = values \o more
  OBVIOUS
<1>5. /\ all \in Seq(RegisterValues) /\ Len(all) = w
      /\ \A k \in 1 .. n : all[k] = values[k]
      /\ \A k \in n + 1 .. w : all[k] = RegisterBase - 1
  <2>1. /\ values \o more \in Seq(RegisterValues) /\ Len(values \o more) = n + (w - n)
        /\ \A k \in 1 .. n + (w - n) :
             (values \o more)[k] = IF k <= n THEN values[k] ELSE more[k - n]
    BY <1>1, <1>4, ConcatProperties
  <2>2. n + (w - n) = w
    BY <1>3
  <2>3. \A k \in 1 .. w : all[k] = IF k <= n THEN values[k] ELSE more[k - n]
    BY <1>0, <2>1, <2>2
  <2>4. \A k \in n + 1 .. w : more[k - n] = RegisterBase - 1
    BY <1>3 DEF more
  <2>5. \A k \in 1 .. n : all[k] = values[k]
    BY <1>3, <2>3
  <2>6. \A k \in n + 1 .. w : all[k] = RegisterBase - 1
    BY <1>3, <2>3, <2>4
  <2> QED
    BY <1>0, <2>1, <2>2, <2>5, <2>6
<1>6. PICK sum : IsSums(sum, values) /\ decodeUnsigned(values) = sum[n].value
  BY <1>1, SumsExist
<1>7. PICK total : IsSums(total, all) /\ decodeUnsigned(all) = total[w].value
  BY <1>5, SumsExist
<1> DEFINE T == {k \in Nat :
             /\ k <= n => total[k] = sum[k]
             /\ n <= k /\ k <= w => total[k].value = sum[n].value + place[k] - place[n]}
<1>8. \A k \in 0 .. w : /\ place[k] \in Nat /\ total[k].place = place[k]
                        /\ total[k].value \in Nat
  <2>1. \A k \in 0 .. Len(all) : total[k].place = place[k] /\ total[k].value \in 0 .. place[k] - 1
    <3>1. Len(all) <= WordRegisters
      BY <1>2, <1>3, <1>5
    <3> QED
      BY <1>5, <1>7, <3>1, SumsInPlace
  <2> QED
    BY <1>2, <1>3, <1>5, <2>1, PlaceFacts
<1>9. sum[n].value \in Nat
  BY <1>1, <1>3, <1>6, PlaceFacts, SumsInPlace
<1>10. \A k \in Nat : total[k] = sum[k] /\ k = n /\ k <= w =>
         total[k].value = sum[n].value + place[k] - place[n]
  BY <1>3, <1>8, <1>9
<1>14. \A k \in Nat : k + 1 \in 1 .. w => total[k + 1] = AddRegister(total[k], all[k + 1])
  <2>1. \A k \in 1 .. w : total[k] = AddRegister(total[k - 1], all[k])
    BY <1>5, <1>7 DEF IsSums
  <2>2. \A k \in Nat : (k + 1) - 1 = k
    OBVIOUS
  <2> QED
    BY <2>1, <2>2
<1>11. 0 \in T
  <2>1. total[0] = sum[0]
    BY <1>6, <1>7 DEF IsSums
  <2> QED
    BY <1>3, <1>10, <2>1
<1>12. ASSUME NEW k \in Nat, k \in T PROVE k + 1 \in T
  <2>1. CASE k + 1 <= n
    <3>1. total[k] = sum[k] /\ k + 1 \in 1 .. n /\ k + 1 \in 1 .. w
      BY <1>3, <1>12, <2>1
    <3>2. total[k + 1] = AddRegister(total[k], all[k + 1])
      BY <1>14, <3>1
    <3>3. sum[k + 1] = AddRegister(sum[k], values[k + 1])
      BY <1>1, <1>6, <3>1 DEF IsSums
    <3>4. total[k + 1] = sum[k + 1]
      BY <1>5, <3>1, <3>2, <3>3
    <3> QED
      BY <1>3, <1>10, <2>1, <3>4
  <2>2. CASE n <= k /\ k + 1 <= w
    <3>1. total[k].value = sum[n].value + place[k] - place[n]
      BY <1>3, <1>12, <2>2
    <3>2. total[k + 1] = AddRegister(total[k], RegisterBase - 1)
      <4>1. k + 1 \in 1 .. w /\ k + 1 \in n + 1 .. w
        BY <1>3, <2>2
      <4> QED
        BY <1>5, <1>14, <4>1
    <3>3. total[k + 1].value = total[k].value + (RegisterBase - 1) * place[k]
      BY <1>3, <1>8, <2>2, <3>2 DEF AddRegister
    <3>4. place[k + 1] = place[k] * RegisterBase /\ place[k] \in Nat /\ place[n] \in Nat
      BY <1>2, <1>3, <2>2, PlaceFacts
    <3>5. (RegisterBase - 1) * place[k] = place[k + 1] - place[k] /\ place[k + 1] \in Nat
      BY <1>3, <3>4
    <3>6. total[k + 1].value = sum[n].value + place[k + 1] - place[n]
      BY <1>9, <3>1, <3>3, <3>4, <3>5
    <3> QED
      BY <1>3, <2>2, <3>6
  <2>3. CASE w < k + 1 /\ n < k + 1
    BY <1>3, <2>3
  <2> QED
    BY <1>3, <2>1, <2>2, <2>3
<1>13. \A k \in Nat : k \in T
  <2> HIDE DEF T
  <2> QED
    BY <1>11, <1>12, NatSetInduction
<1> QED
  BY <1>0, <1>1, <1>2, <1>3, <1>6, <1>7, <1>13 DEF Word, more

\* decodeSigned is the two's complement of as many registers as there are, whether or
\* not they fill an int64_t.
THEOREM DecodeSignedCorrect ==
  ASSUME NEW values \in Seq(RegisterValues), Len(values) <= WordRegisters
  PROVE  LET n == decodeUnsigned(values)  values_of_n == place[Len(values)]
         IN decodeSigned(values) = IF 2 * n < values_of_n THEN n ELSE n - values_of_n
<1>1. PICK n : n = decodeUnsigned(values)
  OBVIOUS
<1>2. PICK p : p = place[Len(values)]
  OBVIOUS
<1>3. n \in 0 .. p - 1 /\ p \in Nat /\ Word \in Nat /\ p <= Word
  <2>1. Len(values) \in 0 .. WordRegisters /\ WordRegisters \in 0 .. WordRegisters
    BY LenProperties, DecodingType
  <2>2. place[Len(values)] <= place[WordRegisters]
    BY <2>1, PlacesIncrease
  <2> QED
    BY <1>1, <1>2, <2>1, <2>2, DecodeUnsignedCorrect, PlaceFacts DEF Word
<1> DEFINE negative == values # <<>> /\ Last(values) >= RegisterBase \div 2
<1>4. negative <=> 2 * n >= p
  <2>1. CASE values = <<>>
    <3>1. p = 1 /\ n = 0
      BY <1>2, <1>3, <2>1, PlaceFacts
    <3> QED
      BY <2>1, <3>1
  <2>2. CASE values # <<>>
    BY <1>1, <1>2, <2>2, HighestBit
  <2> QED
    BY <2>1, <2>2
<1>5. CASE negative
  <2>1. decodeSigned(values) = ToSigned(n + Word - p)
    <3>1. decodeSigned(values) = ToSigned(decodeUnsigned(values \o
            [i \in 1 .. WordRegisters - Len(values) |-> RegisterBase - 1]))
      BY <1>5 DEF decodeSigned
    <3> QED
      BY <1>1, <1>2, <3>1, AllBitsSet
  <2>2. n + Word - p \in 0 .. Word - 1 /\ ~ 2 * (n + Word - p) < Word
    BY <1>3, <1>4, <1>5
  <2>3. decodeSigned(values) = n - p
    BY <1>3, <2>1, <2>2, ToSignedFacts
  <2> QED
    BY <1>1, <1>2, <1>3, <1>4, <1>5, <2>3
<1>6. CASE ~ negative
  <2>1. decodeSigned(values) = ToSigned(n)
    <3>1. decodeSigned(values) = ToSigned(decodeUnsigned(values \o <<>>))
      BY <1>6 DEF decodeSigned
    <3>2. values \o <<>> = values
      OBVIOUS
    <3> QED
      BY <1>1, <3>1, <3>2
  <2>2. n \in 0 .. Word - 1 /\ 2 * n < Word
    BY <1>3, <1>4, <1>6
  <2>3. decodeSigned(values) = n
    BY <2>1, <2>2, ToSignedFacts
  <2> QED
    BY <1>1, <1>2, <1>3, <1>4, <1>6, <2>3
<1> QED
  BY <1>5, <1>6
=============================================================================
