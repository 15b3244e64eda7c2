----------------------------- MODULE RegisterSet -----------------------------
(***************************************************************************)
(* Sets of registers (class RegisterSet): a sequence of intervals          *)
(* <<begin, end>> in ascending order, neither overlapping nor adjacent,    *)
(* which the constructor makes of the configured ranges.  The ranges come  *)
(* as a set because the code first puts them into a map.  A range begins   *)
(* no later than it ends; registers are small enough for end + 1.          *)
(***************************************************************************)
EXTENDS Integers, SequencesExt

\* intervals_: sorted, and neither overlapping nor adjacent
IsRegisterSet(set) ==
  /\ set \in Seq(Int \X Int)
  /\ \A i \in DOMAIN set : set[i][1] <= set[i][2]
  /\ \A i, j \in DOMAIN set : i < j => set[i][2] + 1 < set[j][1]

\* The registers in some ranges or intervals
Registers(ranges) == UNION {range[1] .. range[2] : range \in ranges}

\* ends_by_begins: of ranges that begin together, the longest
LongestRanges(ranges) ==
  {r \in ranges : \A other \in ranges : other[1] = r[1] => other[2] <= r[2]}

LastRange(ranges) == CHOOSE r \in ranges : \A other \in ranges : other[1] <= r[1]

\* mutated: adjacent ranges remain apart
MergeOverlapping(intervals, range) ==
  IF intervals # <<>> /\ range[1] <= Last(intervals)[2]
  THEN Append(Front(intervals),
              <<Last(intervals)[1], Max({Last(intervals)[2], range[2]})>>)
  ELSE Append(intervals, range)

\* One iteration of the loop of intervalsOfRanges
Merge(intervals, range) ==
  IF intervals # <<>> /\ range[1] <= Last(intervals)[2] + 1
  THEN Append(Front(intervals),
              <<Last(intervals)[1], Max({Last(intervals)[2], range[2]})>>)
  ELSE Append(intervals, range)

\* All of them, in the order in which they begin
IntervalsOfRanges(ranges) ==
  MapThenFoldSet(LAMBDA range, intervals : Merge(intervals, range), <<>>,
                 LAMBDA range : range, LastRange, LongestRanges(ranges))

\* One iteration of the binary search between the iterators lower and upper
Probe(find, set, r, lower, upper) ==
  IF lower >= upper THEN 0
  ELSE LET middle == lower + (upper - lower) \div 2 IN
    CASE r < set[middle][1] -> find[<<lower, middle>>]
      [] r > set[middle][2] -> find[<<middle + 1, upper>>]
      [] OTHER -> middle

\* The iterators of a set
Iterators(set) == 1 .. Len(set) + 1

\* The binary search of contains and endOfRange: the index of r's interval, or 0
IntervalOf(set, r) ==
  LET find[range \in Iterators(set) \X Iterators(set)] ==
        Probe(find, set, r, range[1], range[2])
  IN find[<<1, Len(set) + 1>>]

contains(set, r) == IntervalOf(set, r) # 0

\* The last register of the interval of r, or r - 1
endOfRange(set, r) ==
  LET i == IntervalOf(set, r) IN IF i = 0 THEN r - 1 ELSE set[i][2]

\* One iteration of operator<=: the first interval of the other set, from i on, which
\* ends no earlier has to begin no later; 0 when an interval was not covered
Sweep(other, i, interval) ==
  LET later == {k \in i .. Len(other) : other[k][2] >= interval[2]} IN
  IF i # 0 /\ later # {} /\ other[Min(later)][1] <= interval[1]
  THEN Min(later) ELSE 0

SubsetOf(set, other) ==
  FoldLeft(LAMBDA i, interval : Sweep(other, i, interval), 1, set) # 0

\* The registers from begin() to end(), in the iterator's order
Iterate(set) ==
  FlattenSeq([i \in DOMAIN set |->
    [k \in 1 .. set[i][2] - set[i][1] + 1 |-> set[i][1] + k - 1]])

=============================================================================
