------------------------------ MODULE BurstPlan ------------------------------
(***************************************************************************)
(* The computation of a BurstPlan: which bursts of consecutive registers   *)
(* to read for a task, the vector of registers that a metric is decoded    *)
(* from.  For each register of the task, from the last one to the first,   *)
(* dynamic programming finds the best list of bursts that starts there;    *)
(* then the list for the first register becomes the plan.                  *)
(***************************************************************************)
EXTENDS Numbers, RegisterSet

VARIABLES
  holding, input,       \* the registers of the device: intervals
  task, max_burst_size,
  pc,
  optima,               \* per register: the best bursts from there on, a
                        \* sequence of [begin, end, type], and their cost
  list,                 \* the bursts that are still to be collected
  bursts,               \* BurstPlan::bursts
  num_plan_registers,   \* BurstPlan::num_plan_registers
  task_to_plan          \* BurstPlan::task_to_plan

inputs == <<holding, input, task, max_burst_size>>
plan == <<bursts, num_plan_registers, task_to_plan>>
planVars == <<inputs, pc, optima, list, plan>>

\* Bursts of consecutive registers, to be read as one type
Bursts == [begin : Ints, end : Ints, type : {"holding", "input"}]

used_registers == ToSet(task)

PlanInit ==
  /\ holding = <<>> /\ input = <<>> /\ task = <<>> /\ max_burst_size = 0
  /\ optima = <<>> /\ list = <<>>
  /\ bursts = <<>> /\ num_plan_registers = 0 /\ task_to_plan = <<>>

\* The constructor is called
NewPlan(some_registers, more_registers, registers, size) ==
  /\ holding' = some_registers /\ input' = more_registers
  /\ task' = registers /\ max_burst_size' = size
  /\ pc' = IF registers = <<>> THEN "done" ELSE "optimize"
  /\ optima' = <<>> /\ list' = <<>>
  /\ bursts' = <<>> /\ num_plan_registers' = 0
  /\ task_to_plan' = [i \in DOMAIN registers |-> 0]

-----------------------------------------------------------------------------
(* Dynamic programming                                                     *)

Readable(r) == contains(holding, r) \/ contains(input, r)

\* MaximalRange: registers are read as the type that goes further from r
Type(r) == IF endOfRange(holding, r) >= endOfRange(input, r)
           THEN "holding" ELSE "input"

Limit(r) ==
  Min({ToInt(r + max_burst_size - 1), Max({endOfRange(holding, r), endOfRange(input, r)})})

\* mutated: the size comes first
Smaller(cost, other) ==
  cost[2] < other[2] \/ (cost[2] = other[2] /\ cost[1] < other[1])

\* Cost: <<length, total_size>>
Cheaper(cost, other) ==
  cost[1] < other[1] \/ (cost[1] = other[1] /\ cost[2] < other[2])

\* The list for r whose first burst ends at `end'
Candidate(r, end) ==
  LET later == {u \in used_registers : u > end}
      next == IF later = {} THEN [bursts |-> <<>>, cost |-> <<0, 0>>]
                            ELSE optima[Min(later)]
  IN [bursts |-> <<[begin |-> r, end |-> end, type |-> Type(r)]>> \o next.bursts,
      cost |-> <<1 + next.cost[1], end - r + 1 + next.cost[2]>>]

\* Where a burst that begins with r may end
Ends(r) == {r} \cup {u \in used_registers : r < u /\ u <= Limit(r)}

\* All bursts are tried, in ascending order; the first one of the cheapest wins
Wins(r, end) == \A other \in Ends(r) \ {end} :
  LET c == Candidate(r, end).cost  o == Candidate(r, other).cost IN
  IF other < end THEN Cheaper(c, o) ELSE ~ Cheaper(o, c)

Optimum(r) == Candidate(r, CHOOSE end \in Ends(r) : Wins(r, end))

\* One iteration for the last register which has none yet
Optimize ==
  /\ pc = "optimize" /\ used_registers \ DOMAIN optima # {}
  /\ LET r == Max(used_registers \ DOMAIN optima) IN
     IF Readable(r)
     THEN /\ optima' = [u \in DOMAIN optima \cup {r} |->
                         IF u = r THEN Optimum(r) ELSE optima[u]]
          /\ UNCHANGED pc
     ELSE pc' = "thrown" /\ UNCHANGED optima
  /\ UNCHANGED <<inputs, list, plan>>

Optimized ==
  /\ pc = "optimize" /\ used_registers \subseteq DOMAIN optima
  /\ list' = optima[Min(used_registers)].bursts
  /\ pc' = "collect"
  /\ UNCHANGED <<inputs, optima, plan>>

-----------------------------------------------------------------------------
(* Collecting the result                                                   *)

\* mutated: the device's register number
PlanNumberAbsolute(burst, r) == num_plan_registers + r

PlanNumber(burst, r) == num_plan_registers + r - burst.begin

Collect ==
  /\ pc = "collect" /\ list # <<>>
  /\ LET burst == Head(list) IN
       /\ bursts' = Append(bursts, burst)
       /\ task_to_plan' = [i \in DOMAIN task |->
            IF task[i] \in burst.begin .. burst.end
            THEN PlanNumber(burst, task[i]) ELSE task_to_plan[i]]
       /\ num_plan_registers' = num_plan_registers + burst.end - burst.begin + 1
  /\ list' = Tail(list)
  /\ UNCHANGED <<inputs, pc, optima>>

Collected ==
  /\ pc = "collect" /\ list = <<>>
  /\ pc' = "done"
  /\ UNCHANGED <<inputs, optima, list, plan>>

PlanStep == Optimize \/ Optimized \/ Collect \/ Collected

\* The program constructs a plan for a metric.  (With the smallest int as a register
\* and a burst_size of 0, the limit of a burst would wrap around to the largest.)
Construct ==
  /\ pc \notin {"optimize", "collect"}
  /\ IsRegisterSet(holding') /\ IsRegisterSet(input')
  /\ task' \in Seq(Ints \ {-INT_MAX - 1}) /\ max_burst_size' \in Sizes
  /\ NewPlan(holding', input', task', max_burst_size')

\* The program goes on with something else
Proceed ==
  /\ pc \notin {"optimize", "collect"}
  /\ pc' \notin {"optimize", "collect", "done", "thrown"}
  /\ UNCHANGED <<inputs, optima, list, plan>>

PlanSpec ==
  /\ PlanInit /\ pc \notin {"optimize", "collect", "done", "thrown"}
  /\ [][PlanStep \/ Construct \/ Proceed]_planVars

-----------------------------------------------------------------------------

RegistersOf(type) == Registers(ToSet(IF type = "holding" THEN holding ELSE input))

PlanTypeOK ==
  /\ task \in Seq(Ints) /\ max_burst_size \in Sizes
  /\ bursts \in Seq(Bursts) /\ list \in Seq(Bursts)
  /\ DOMAIN optima \subseteq used_registers
  /\ num_plan_registers \in Nat
  /\ task_to_plan \in [DOMAIN task -> 0 .. Max({num_plan_registers - 1, 0})]

\* The ranges between registers that can be read as one type, and that are no
\* larger than burst_size allows (if it allows any)
ReadableRanges(registers) ==
  {range \in registers \X registers :
     /\ range[1] <= range[2] /\ range[2] - range[1] < Max({max_burst_size, 1})
     /\ \E type \in {"holding", "input"} :
          range[1] .. range[2] \subseteq RegistersOf(type)}

\* How many registers are read
TotalSize(ranges) == Cardinality(UNION {{range} \X (range[1] .. range[2]) : range \in ranges})

\* "The primary objective for optimization is number of bursts. The secondary
\* objective is total size of bursts" (Burst.hpp:34-35): the bursts can be read,
\* each as one type and with no more registers than burst_size allows, they contain
\* the task, and no other such bursts are cheaper, as
\* long as burst_size is not so large that the limit of a burst overflows.
\* (Bursts that begin and end with a register of the task suffice: trimming
\* others makes them smaller.)
PlanOptimal ==
  LET planned == {<<burst.begin, burst.end>> : burst \in ToSet(bursts)}
  IN
  /\ planned \subseteq ReadableRanges(used_registers)
  /\ \A burst \in ToSet(bursts) : burst.begin .. burst.end \subseteq RegistersOf(burst.type)
  /\ pc = "done" => used_registers \subseteq Registers(planned)
  /\ pc = "done" /\ (\A r \in used_registers : r + max_burst_size - 1 <= INT_MAX) =>
       \A ranges \in SUBSET ReadableRanges(used_registers) :
         used_registers \subseteq Registers(ranges) =>
           \/ Cardinality(ranges) > Len(bursts)
           \/ Cardinality(ranges) = Len(bursts) /\ TotalSize(ranges) >= num_plan_registers

=============================================================================
