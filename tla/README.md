# Verification of the Modbus Technology Adapter

TLA+ models of the program under `src/`, model-checked with TLC on small
instances, and theorems about its core which TLAPS checks for all values of the
constants. `PROJECT.json` lists the runs, the source lines that each definition
stands for, the hazards, and the theorems.

Contents: [the system](#the-system) ·
[modules](#modules) · [runs](#runs-bounds-and-fairness) ·
[what is proved](#what-is-proved) · [where the code deviates](#where-the-code-deviates) ·
[not modelled](#what-is-not-modelled) · [plan](#plan)

## The system

The adapter is configured with *buses*: sets of Modbus devices, each with
registers that can be read, and for each bus a list of serial ports where it may
be plugged in. It searches the ports for the buses; a bus that is found is
started, that is, its devices are registered so that their metrics can be read;
a bus that fails is cancelled and searched for again.

| Component | State | Operations | Interacts with |
|---|---|---|---|
| `ModbusTechnologyAdapter` | | forwards to the implementation | |
| `ModbusTechnologyAdapterImplementation` | `buses_` (port → bus), `stopping_` | `start`, `stop`, `addBus`, `cancelBus` | owns `PortFinder` and the `Bus`es; `PortFinder` calls `addBus`, `Bus` calls `cancelBus` |
| `PortFinder` | `ports_` (name → `Port`), `plan_` | `addBuses`, `unassign`, `reset`, `addCandidates`, `confirmCandidate` (a callback in threads of the `Port`s) | asks the plan, gives its answers to the ports, calls `addBus` |
| `PortFinderPlan` | per port: the assigned bus, `available`, `num_ambiguators` | `addBuses`, `unassign`, `Candidate::stillFeasible`, `Candidate::confirm` | under one mutex; returns the *new candidates*, pairs of bus and port that have become feasible |
| `Port` | `state_`, `candidates_`, `search_thread_`, `other_threads_` | `addCandidate`, `reset`, destructor; the search thread | reads registers with a context of its own; calls the `SuccessCallback` in new threads |
| `Bus` | `connection_`: `connected`, `devices_to_deregister` | `start`, `stop`, `abort`, `buildModel`, `buildGroup` | registry and builder (external), `cancelBus` |
| `Readcallback` | a `BurstBuffer`, shared by all callers | `operator()` (reads one metric) | locks `connection_`, reads, retries, aborts the bus |
| `ModbusRTUContext` | `end_of_last_use_`, slave ids | `selectDevice`, `readRegisters` | delays before it uses libmodbus |
| `LibmodbusAbstraction` | | results and errors of libmodbus | what the context throws, and whether a retry is feasible |
| `BurstPlan`, `RegisterSet` | none (computed once) | constructors, `contains`, `endOfRange`, `operator<=` | used by `Readcallback`, `PortFinderPlan` and `Port` |
| `ConfigJson`, `Config` | | parsing; decoders of metrics | configure everything else |
| `Runner` | `Readables`, the demo's list of metrics | start, read, stop; the registry that collects metrics | owns the adapter |

Threads: the caller of `start` and `stop`; one search thread per port; one
thread per found bus, which confirms it, starts it, and, if that fails, unassigns
it; any number of threads that read metrics, each of which may abort and thereby
cancel the bus and unassign the port.

What is hard, and what has to be correct:

* **Ambiguity.** A bus is recognised by its registers. If the registers of one
  bus are a subset of those of another one, a search for the first may find the
  second. The plan must search for no two such buses on a port, and yet not
  starve any of them. It keeps counters that are only ever incremented and
  decremented, in three operations, and it must return *exactly* what has become
  feasible, because nobody else would ever start these searches.
* **Stale decisions.** A search checks that its candidate is feasible, reads
  registers for a while, and a thread confirms the candidate later still. In
  between, others confirm and unassign buses.
* **Starting and stopping** the adapter while ports find buses, buses are being
  added, and readers cancel them: nothing may survive a stop, and stop must
  return.
* **The lifecycle of a search thread**: states, joins, a list which is changed
  while it is iterated, a lock that is released between testing and acting.
* **Closing a connection** by several readers, the starting thread and `stop`,
  while devices are still being registered: `cancelBus` at most once, no
  registered device left over, every caller gets an answer.
* **Partial reads, retries and aborts** of readers that share buffers and a
  context whose delays depend on who used it last.
* **Arithmetic**: register ranges, burst limits, three numberings of registers,
  signs of integers that span several registers, unchecked conversions of JSON
  numbers.

## Modules

| Module | Models | State and actions |
|---|---|---|
| `BusOrder` | `operator<=` of devices and buses | `DeviceLeq`, `BusLeq`; the subset test of register sets is taken as `\subseteq`, which theorem `SubsetOfCorrect` justifies |
| `PortAssignment` | what the plan promises | buses are matched with ports, and every change announces exactly the searches it has made feasible; feasibility is stated without counters |
| `PortSearch` | what a port promises to `PortFinder` | a port wants the candidates it is given, drops those that are infeasible, finds one, is assigned until it is reset, and has callbacks to wait for; `Forget` is the one other way to lose candidates: those that it is given while it gives up |
| `BusConnection` | what a bus promises to its owner and to the registry | a connection is new, open, lost (to be cancelled) or closed; all devices are deregistered when it ceases to be open |
| `PortFinderPlan` | class `PortFinderPlan` | `assigned`, `available`, `num_ambiguators` as in the code (indices identified with what they stand for; counters wrap at `SIZE_MAX`), `new_candidates` is what the last operation returned; `AddBuses`, `Confirm`, `Unassign` |
| `Port` | class `Port` | one action per critical section of `state_` or operation on the list: the client (`addCandidate`, `reset`, destructor), the search thread, the callback threads; implements `PortSearch` |
| `PortFinder` | class `PortFinder` | the steps of threads in `addBuses`, `confirmCandidate`, `unassign` and `reset` between the locks; a port is seen from outside, coarser than in `Port`: it searches for its candidates by turns until it finds one or runs out of them. `search_thread` has the steps in which it runs out (list found empty, `OutOfCandidates`, end of the loop), in which a candidate may be lost and `addCandidate` may deadlock. The history variable `missed`, which no guard reads, remembers what was lost. Has no specification of its own: its owner makes the calls |
| `Adapter` | `ModbusTechnologyAdapterImplementation` composed with `PortFinder`, the plan and the buses' connections | a main thread that starts and stops, callback threads in `addBus`, readers in `cancelBus`; buses that are plugged in, fail, and are moved; its ports are taken from `PortSearch`, its connections from `BusConnection` |
| `Bus` | class `Bus` | the starting thread with `buildModel`, readers, `stop`; the `QueuedMutex` of `connection_`; implements `BusConnection` |
| `ModbusContext` | delays of `ModbusRTUContext` | `selectDevice`, begin and end of a use, and time |
| `LibmodbusAbstraction` | `ModbusError`, results of libmodbus | which results and errors there are, `retryFeasible` |
| `Readcallback` | `Readcallback` and `BurstBuffer`, composed with the two above | readers of several devices: bursts, partial reads, attempts, delays, copying and decoding; every register in a buffer is tagged with the thread that has read it |
| `Numbers` | `size_t` and `int` | their ranges and the unchecked conversions |
| `RegisterSet` | the class of this name | merging of ranges, binary search and subset sweep as operators |
| `ConfigJson` | `ConfigJson.cpp`, the types of `Config` | what each `...OfJson` throws for or returns |
| `Decoders` | the decoders of `ConfigJson.cpp` | from registers to integers and bytes; a register's size and that of an integer are constants |
| `BurstPlan` | the class of this name | the dynamic programming one register at a time, then the collection of the plan |
| `BusModel` | `Bus::buildModel` and `buildGroup`, the decoding of a read, the demo | from JSON to the values of metrics: load, build each device with a burst plan for each metric, register, read, stop, start again |
| `MC…` | | constants of the instances |
| `PortFinderPlanProofs`, `AdapterProofs`, `PortProofs`, `BusProofs`, `ReadcallbackProofs`, `RegisterSetProofs`, `BurstPlanProofs`, `DecodersProofs` | | theorems about the modules of these names |

How they fit together: `Adapter` extends `PortFinder`, which extends
`PortFinderPlan`, so the actions of the plan are the very same ones the proofs
are about. `Port` and `PortFinder` are two views of a port, which meet in `PortSearch`: `Port`,
step by step between its locks, implements it (`ImplementsSearch`), and every step of
`Adapter`, seen from one of its ports, is a step of `PortSearch!Next`
(`PortsAsPromised`), `GiveUp` and `Forget` included: `PortFinder` keeps the
preconditions of a port, and counts on nothing that a port does not promise.
Likewise for `Bus` and `Adapter` with `BusConnection` (`ImplementsConnection`,
`BusesAsPromised`). `Bus` has one step for what `Readcallback` models in detail.
`BusModel` extends `Decoders`, and `BurstPlan` and `ConfigJson`, which share `Numbers` and
`RegisterSet`; what it computes of bursts is what `Readcallback` takes as the constants `BurstEnds` and
`task_to_plan`.

Labels of `pc` name places between two accesses to shared state: "reset port" in
`Adapter` is between `Port::reset` and `plan_->unassign`, for instance. Definitions
that are commented as *mutated* are not used: they are the mistakes which show
that a property is not empty.

External code is modelled from its use: `Threadsafe::List` (its iterators survive
insertion and removal), `Threadsafe::QueuedMutex` (first come, first served, as
its name says), libmodbus (may read fewer registers than asked for, none, or
fail), the clock, the registry, and the hardware.

`Adapter` ends, with a reason in the variable `derailed`, where the code has
undefined behaviour (an `end()` iterator is used: `UsesEnd`), and where what a `stop`
has left over goes on after it: a thread that was in `cancelBus` acts on ports or on
the plan (`Meddles`), or a search or callback of a port that such a thread has made
for the old plan does, or the next `start` would find such a port (`UsesOldPlan`).
The stop itself is modelled to its end with these ports. Properties say what holds
until then; `EndIsNotUsed` says when `UsesEnd` can happen.

## Runs, bounds and fairness

| Run | Question | Instance |
|---|---|---|
| `plan` | Are the sets, counters and returned candidates of the plan right, for any sequence of operations? Does it implement `PortAssignment`? | buses of which one ambiguates two others and two are equal, on overlapping lists of ports; small `SIZE_MAX`, so that a decrement too many would show |
| `port` | Is there one search thread, a valid iterator, a fair cycle; do `reset` and the destructor return? Does it implement `PortSearch`: are candidates found once, and lost only where the code is known to? | 4 calls of `addCandidate`: one more than are needed to add a candidate while the search is in the middle of the list |
| `adapter` | Everything above `Bus` together: is whatever is feasible searched for, but for what was lost while a search was running out? Is a bus detected where it is, although candidates are confirmed late? Is `unassign` called for assigned ports only? What does a stop leave behind? When are invalid iterators used? Are ports and buses used as `PortSearch` and `BusConnection` allow? | `wide` and `narrow` (a subset of it) on 2 ports, the main thread and 2 others, 2 starts, 2 failures, buses exchanged once, building a model does not throw (its properties end there); threads are symmetric |
| `adapter_live` | After the last failure, are all buses detected, for good, unless they were lost while a search was running out? Does `stop` return, but for two deadlocks? | the same with one failure, which may be building a model that throws, nothing moved, no symmetry |
| `bus` | Is a bus cancelled at most once, do all calls return, is a lost bus cancelled? Does it implement `BusConnection`: are all devices deregistered when it is closed, and is it cancelled just if it was lost? | 2 devices, 3 readers, builder and registry may throw |
| `read` | Are delays kept between the uses of several devices, with failures and retries? Does a reader read its own device, and all registers before it decodes? Do calls return? | 3 readers of 2 devices, bursts of different lengths, a task that leaves out a register of a burst, one retry, partial and empty reads |
| `model` | Are register sets right at all boundaries, burst plans readable, complete and optimal, and refused only when they have to be? Is the model that is built the one that is configured, in groups and registration? Are the values what the decoders are documented to give? | all pairs of ranges over 5 registers (and three separate ranges) with 3 sets of input registers, tasks with gaps and disorder, burst sizes 0, 2, 3 and -1 (which becomes `SIZE_MAX`); all decoders with up to 4 registers, of bytes with 2 values; nested groups, two devices and two buses, missing fields; the demo starts and stops twice |
| `port_add_candidate`, `finder_stops_search`, `bus_closed`, `read_decoding`, `read_retry_delay` | see [deviations](#where-the-code-deviates): each finds one statement of the repository violated | small |

*Bounds.* What is unbounded in the code and bounded in the models:
`Port!MaxAdds` (candidates ever added), `Threads` of `PortFinder` (threads in it
at a time), `MaxFailures`, `MaxStarts`, `MaxMoves` of `Adapter`, `Readers` of
`Bus` and `Readcallback`, `ModbusContext!Longest` (elapsed time is not counted
further: nobody waits longer), and in `BusModel` `JsonConfigs`, `Memories`,
`MaxCycles`, and the widths `ByteBase`, `WordRegisters`, `SIZE_MAX`, `INT_MAX`.
`plan` has no bound besides its constants: operations can be repeated forever. Two
threads besides the main one suffice to interleave any two operations with a
stop; two failures are needed to have one unassign while another is under way; a
second start shows what meets the threads that the first has left. Three
readers of two devices are needed for two to compete for a buffer while another
one changes the device. A range needs to be adjacent to, overlap, contain or be
apart from another: five registers have room for all of it. Each property has a
mutant of the code, listed in `PROJECT.json`, which violates it in its very run,
so each bound is large enough for the case to happen.

*Deadlock* is not checked in runs where the system may really stop: a search that
has found its bus with nobody to reset it, buses that all failed, a stopped bus or
adapter, a finished computation. There, calls that must return are liveness
properties.

*Fairness* is that of running threads: a thread that has called an operation
takes its next step if it can (weak). Nobody has to *call* anything: clients,
readers, and the failures have no fairness; `start` and `stop` are not forced,
and `Time` passes. `Bus` needs nothing stronger for its lock because the lock is
a queue. In `Adapter`, a search goes on or runs out (weak), as `Cycles` shows of `Port`, and a
bus that is plugged in answers in one of the turns it is given again and again
(strong, `Find`). At its end, `stop` obtains the lock of `stopping_` by weak fairness,
since whoever enters `addBus` while the adapter is being stopped leaves it in one
step. At its beginning it may be kept waiting while buses are being added: the
model does not force a stop that has not set `stopping_` yet.

## What is proved

All theorems are about the modules that the runs check, for every value of
their constants that the named assumptions admit.

| Module | Theorem | States |
|---|---|---|
| `PortFinderPlanProofs` | `PlanInvariant`, `PlanTypeCorrect` | the inductive invariant; types |
| | `AssignmentCorrect` | a bus is on one port at most, one that it lists |
| | `AvailableCorrect` | `available` is the set of buses that list the port and are not on another one |
| | `CountersCorrect` | each counter is the number of available ambiguators; no increment or decrement ever wraps |
| | `ReturnsExactly` | every operation returns exactly the candidates that it makes feasible |
| | `Unambiguous` | no two buses that may be mistaken for one another are searched for on one port |
| | `NoPortStarves` | on a free port with available buses something is searched for, unless some of them are equal |
| | `Refinement` | the plan implements `PortAssignment` |
| `AdapterProofs` | `AdapterInvariant`, `AdapterTypeCorrect` | the inductive invariant of adapter, port finder and plan; types |
| | `DetectionCorrect` | a bus is detected where it is plugged in, until building a model throws |
| | `NoCandidateLost` | whatever is feasible is searched for, or about to be, or was added to a search that was running out |
| | `UnassignPrecondition` | `unassign` is called for assigned ports only |
| | `StopIsClean` | from the return of `stop` to the next start: no connection, no bus, an empty plan, and no callback of a port that was destroyed; ports that a late `cancelBus` has made for the old plan may be left, with their searches and callbacks |
| | `EndOnlyAtStop` | `end()` is used only during or after a stop |
| | `PortsRelied` | each port is used, and behaves, as `PortSearch` has it: it is reset only while it is assigned, destroyed only when its callbacks have returned, and forgets only what it is given while it gives up |
| | `BusesRelied` | each bus is used, and behaves, as `BusConnection` has it; the next one on the port is started when the last one is closed |
| `PortProofs` | `PortInvariant`, `TypeCorrect` | the inductive invariant; types |
| | `SearchThreadCorrect` | `state_` tells truly whether there is a search thread, and there is at most one |
| | `IteratorCorrect` | the list is not cleared under a running search |
| | `SearchRefinement` | a port implements `PortSearch` |
| | `FindsOnceCorrect` | when a callback is started, no candidate that was found before is as new as its own, or still in the list: none is found twice |
| `BusProofs` | `BusInvariant`, `TypeCorrect` | the inductive invariant; types and the length of the queue |
| | `CancelledOnceCorrect` | `cancelBus` is called at most once, after the connection was closed |
| | `ConnectionCorrect` | while connected, what is registered is remembered for deregistration |
| | `ConnectionRefinement` | a bus implements `BusConnection` |
| `ReadcallbackProofs` | `ReadingInvariant`, `TypeCorrect` | the inductive invariant; types |
| | `ReadsOwnDeviceCorrect` | one reader at a time uses libmodbus, for its own device |
| | `BurstsReadCorrect` | whoever goes on to decode has read every register in this very call |
| | `ReadsSomethingCorrect` | `readRegisters` never returns 0 |
| | `KeepsDelayCorrect` | the delays pass between any two uses, also after failures |
| `RegisterSetProofs` | `IntervalsOfRangesCorrect` | the constructor makes of any ranges a sorted sequence of disjoint intervals that are not adjacent, with the same registers |
| | `SearchCorrect` | the binary search finds the interval of a register if there is one |
| | `ContainsCorrect`, `EndOfRangeCorrect` | `contains` is membership, `endOfRange` the last of the consecutive registers |
| | `SubsetOfCorrect` | the sweep of `operator<=` decides whether one set of registers is a subset of the other |
| `DecodersProofs` | `DecodeUnsignedCorrect` | the digits of a decoded number are the registers, the first one lowest |
| | `DecodeSignedCorrect` | a signed number is the two's complement of the registers that were read |
| `BurstPlanProofs` | `PlanInvariant`, `PlanTypeCorrect` | the inductive invariant; types |
| | `PlanIsOptimal` | the bursts can be read and contain the task; no other bursts that do are fewer, or as many and smaller |
| | `TaskToPlanCorrect` | `task_to_plan` tells where each register of the task is in the concatenation of the bursts |

*Assumptions.* Plan: `Buses` is finite, `NoBus` is none of them,
`possible_serial_ports` is a function to sets of ports, and `SIZE_MAX` is at least
the number of buses (a `std::vector` of them exists). Adapter: besides those of the
plan, the main thread is one of the threads, and no bus is plugged into two ports.
Nothing is assumed about moves and exceptions: the properties say themselves which
behaviours they are about (`thrown`, buses that are moved). `NoCandidateLost` and
`DetectionCorrect` have the hypothesis `PluggedWhereListed`: buses are plugged into
ports that they list; the code would take a bus that is elsewhere for another one
that is looked for there.
Port: `MaxAdds` is a positive
number. Bus: there is a device, and finitely many threads read. Readcallback: types
of the constants; `ReadsSomethingCorrect` assumes `max_retries < SIZE_MAX`, and
`KeepsDelayCorrect` assumes that `retry_delay` is no less than the delay between
uses. Neither can be dropped: see the deviations. RegisterSet: ranges of integers
that begin no later than they end, finitely many. BurstPlan: the sets of registers
are what the constructor of `RegisterSet` makes (`TypeOK` of the run `model` checks
this of every configured device), and no register of the task is the smallest
`int`; with a burst size of 0 its limit would wrap to the largest. `PlanSpec` is a
client that asks for one plan after the other, as `BusModel` does. Sizes and costs of
plans are not taken modulo the width of `size_t`, as a task is far shorter. That the
plan is optimal (not that it can be read, or contains the task) needs a burst size
with which `r + burst_size - 1` does not overflow. Decoders: a byte has an even number
of values, and no more registers are decoded than fit into an integer; with more of
them, the code shifts by more than the width of its type.

*Arguments.*

* `PlanInv` is the conjunction of the type invariant, `AssignedOnce`,
  `AvailableIsUnassigned` and `CountsAmbiguators`. None of the three is inductive
  alone: that `Assign` decrements a counter exactly when an ambiguator ceases to
  be available needs to know that the bus was available on these ports before,
  hence that `available` means what it says; this in turn needs that no other
  port has the bus, which follows from the guard of `Confirm` (feasibility) only
  together with the meaning of `available` on that port. With `PlanInv`,
  feasibility as the code computes it (a counter is 0) equals feasibility as
  `PortAssignment` states it (there is no ambiguator), so the lemmas about the
  returned candidates compare sets before and after each operation.
  `NoPortStarves` takes a bus whose set of ambiguators is minimal in the
  well-founded order of subsets; by the transitivity of `BusLeq` this set is
  empty.
* `AdapterInv` has two parts, besides the types. `Control` is about threads, locks
  and ports, and holds however buses are moved. `Settled` is about the plan and the
  places of the buses, and holds while no bus has been moved; it cites the plan's
  lemmas about what an operation preserves and returns.
  `Confirm` of the plan is guarded by feasibility; `confirmCandidate` is not.
  That the plan is right nevertheless needs less than feasibility: the bus is
  available on the port and the port is free. The port is free because only one
  thread at a time confirms a bus there, namely the one that has made the port
  `Found` (`ConfirmingInv`). The bus is available because it is plugged in there
  (`FoundWherePlugged`), and whatever is assigned elsewhere is plugged in elsewhere
  (`WherePlugged`). That it is plugged in there holds because what is looked
  for has no available ambiguator, and the bus which is plugged in is available.
  Of a bus that has been moved, nothing of this is true any more, but `Control`
  is: its conjuncts follow from each other and from the locks only. From its
  confirmation until it is unassigned, just one thread, or one open connection, is
  about the bus (`AssignedInv`), and the port and the entry of `buses_` exist
  while no stop gets in between (`PortsInv`, `BusesInv`); so `cancelBus` and
  `unassign` find what they look for. `StopInv` says what has been achieved at each
  step of a stop. While the plan is not the one of the ports (`PlanReset`), whoever
  is still at work has survived a stop (`outdated`). `OffersInv` replaces `PlanInv` where the latter may fail: whatever the
  counters are, the plan offers and assigns buses only on ports that they list.
  Once building a model has thrown, only the types remain, and where the model ends
  (`derailed`), only how it got there and `WherePlugged`.
* `PortsRelied` maps a port of `Adapter` to `PortSearch` by what it has found, the
  candidates in its cycle, the jobs of its callbacks, and whether its search has found
  the list empty ("giving up"). It needs two more invariants
  (`ViewInv`). `TurnsDistinct`: a candidate is in the cycle once, so that whoever
  drops it does not want it any more. `StillFound`: from its confirmation until it
  is unassigned, the port of a bus remains found, unless reset destroys it; so
  `Port::reset` meets an assigned port. That a port finds nothing while a thread is
  about the bus which is assigned to it is not obvious: the search has been stopped,
  and whatever `addCandidates` adds late is ignored. `BusesRelied` counts who is about
  the bus on a port: an open connection, a thread in `cancelBus`, or one in `addBus`;
  by `AssignedInv` there is never more than one of them (`OneOwner`).
* `SearchRefinement` maps `state_` and the search thread to a phase of `PortSearch`:
  "giving up" is the search thread between finding the list empty and setting
  `OutOfCandidates`. What is wanted are the nodes of the list, but not those that are
  left over when the search has ended, and `Forget` is the step that assigns
  `OutOfCandidates`. No other step of `Port` needs `Forget`.
* `PortInv` says for each value of `state_` where the search thread and the
  client may be, because both write `state_` and the search thread overwrites what
  the client has written. `FindsOnce` needs `FreshInv`: as long as a search may
  still find something, all its candidates are newer than those found before. It
  holds because a search that finds leaves its loop, and the list is cleared
  before the next search begins.
* `RegisterSet`: the recursive operators are defined by recursive functions and folds,
  whose equations are established first (`IntervalOfFinds` and the like). The binary
  search is proved by well-founded induction on the width of what is left to search,
  merging by induction over the ranges in the order in which they begin: what has been
  merged is a register set, its registers are those of the ranges so far, and what
  comes next begins no earlier than its last interval. The sweep: an interval
  of a register set is covered by another set iff one interval of the latter contains it,
  since these are not adjacent; the iterator may only move forward because the
  intervals of both are sorted.
* `Decoders`: what has been summed up after some registers is less than the place of the
  next one, so that its digits stay where they are (`SumsInPlace`, `DigitsKept`).
  Promoting the sign adds the difference of the places (`AllBitsSet`), a telescoping
  sum, whatever the number of registers; the conversion takes it off again.
* `PlanInv` of `BurstPlan`: for each register that has an optimum, it is a list
  of bursts that covers the task from there on and is no more expensive than any
  other (`OptimaInv`). The step is an exchange argument: of any other bursts that
  contain what comes from `r` on, one contains `r` and ends at some register of
  the task, where the loop has tried to end its first burst; those after it still
  cover what comes later, so they are no cheaper than the optimum found there
  before. While the list is collected, the bursts so far and the remaining list
  together are the optimum for the first register, and the numbers of those so far
  begin where the previous ones end.
* `BusInv` describes the queue of the lock: each waiting thread is in it once, and
  only its head is inside. So at most one thread is between closing the
  connection and `cancelBus`. `ConnectionInvariant` also needs that a device which
  is about to be registered, without the lock, is remembered or the connection
  has been closed. `ConnectionRefinement` maps `connection_` to "lost" while a thread
  in `abort` has closed the connection and still holds the lock: it hands over the
  lock only after `cancelBus`, so no `stop` gets in between.
* `ReadingInv` follows what the reader with the lock has read (`ReadInv`), and
  relates the context's clock to the truth (`DelayInv`): the time it measures is
  no more than the time since the last use, unless that use has failed. Then
  either the bus is aborted, or a retry follows on the same device, after
  `retry_delay`.

*Model-checked only:* of `BusModel`: `TypeOK`, `ModelIsConfigured` and `ReadsWhatIsConfigured`, because the
groups of a configuration are nested to any depth, so that the operators of
`ConfigJson` are recursive, and what those compute the prover cannot tell;
`RegisterSetsCorrect` about the configured sets, though all its parts except the order
of iteration are theorems of `RegisterSetProofs` for any sets. All
liveness properties, which are out of the reach of the prover.

## Where the code deviates

Five runs show a counterexample; `PROJECT.json` (`findings`) has the quotes.

* `port_add_candidate`: in state `OutOfCandidates`, `addCandidate` joins the
  search thread while it holds the lock of `state_` (`Port.cpp:38-41`). The
  thread may still need that lock for its loop condition (`Port.cpp:161`): both
  wait forever.
* `finder_stops_search`: if `addBus` throws after `Bus::abort` has already called
  `cancelBus`, `confirmCandidate` unassigns the port a second time
  (`PortFinder.cpp:69`), which stops the search just started. Also, `unassign` is
  then called for a port that is not assigned, contrary to `PortFinder.hpp:44`.
* `bus_closed`: a device whose registration is under way when another thread
  closes the bus stays registered (`Bus.cpp:91`).
* `read_decoding`: concurrent reads of one metric share a `BurstBuffer` that is
  used outside the lock (`Bus.cpp:157-162`).
* `read_retry_delay`: when a read throws, `end_of_last_use_` is not set
  (`Modbus.cpp:64`), so that a retry begins without the delay that
  `Config.hpp:141-142` promises, unless `retry_delay` is as long.

Met while modelling, visible in the models, without a run of their own:

* `Port.cpp:138-140`: `Search::next` finds the list empty, and sets
  `OutOfCandidates` in another step. A candidate that is added in between is not
  searched for, and the next `addCandidate` clears it (`PortSearch!Forget`,
  `PortFinder!SetOutOfCandidates`). `ImplementsSearch` shows that no candidate is lost
  otherwise. It happens at an ordinary start: `wide` is confirmed on `p1`, so that
  the search on `p2` drops it and finds its list empty, and `narrow`, feasible there
  from now on, is added too early. It is never detected, unless something else makes
  it feasible anew. Hence the exception `missed` in `FeasibleIsSearched` and
  `AllDetected`, which PortFinder.hpp:41-42 does not make.
* `Port.cpp:140`: this assignment also overwrites `Stopping`, a transition
  `Port.hpp:108-111` does not list. `StopReturns` shows that `reset` and the
  destructor end nevertheless.
* `Port.cpp:119`: the `SuccessCallback` runs in threads of their own; `Port.hpp:36`
  promises that it is called from the search thread only.
* `PortFinder.cpp:62`: `confirm` does not check feasibility again. A bus that is
  found, moved to another port and found there before the first thread confirms
  it, is assigned to both ports, and the second confirmation decrements counters
  once too often (they wrap). `FeasibleIsSearched` and `DetectedWherePlugged` are
  therefore about buses that are not moved.
* `ModbusTechnologyAdapterImplementation.cpp:123`: `cancelBus` erases `end()` if
  the port is not in `buses_`, as happens after `stop` has emptied it, although
  the comment in `stop` (line 53) allows for concurrent `cancelBus`. Likewise
  `PortFinder::unassign` (`PortFinder.cpp:24`) uses `end()->second` after `reset`.
  `EndIsNotUsed` shows that both happen during or after a stop only.
* A reader that is in `cancelBus` during a stop may go on during or after it, and add a
  search to an adapter that is stopped, contrary to
  `ModbusTechnologyAdapterImplementation.hpp:58-60` ("Once `stop` is finished,
  `port_finder_` is stopped. Hence, there is noone to call `addBus`"). If it does so between
  `ports_.clear()` and the new plan (`PortFinder.cpp:32-33`), `stop` returns with a
  search that runs; its callback may then confirm a bus in the old plan and call
  `addBus`, which adds the bus, as `stopping_` is false again (in the model: `Meddles`).
  That is why `StopCleans` does not say that there are no ports, searches or callbacks.
  After the next start, such a reader resets a search or unassigns a bus that runs. The
  run `adapter` ends such behaviours when they go on after the stop (`Meddles`,
  `UsesOldPlan`).
* `PortFinder.cpp:33`: `plan_` is replaced without a lock while late readers may use it.
  The model takes the assignment of the pointer, and its use, as atomic.
* Two deadlocks are possible in which `stop` does not return; in the instance of
  `adapter_live`, `StopReturns` shows that there are no others.
  `PortFinder.cpp:32`: `reset` destroys the ports while it holds the lock of
  `ports_`; their destructors join callback threads, which may be waiting for this
  lock (`CallbackJoined`). `Port.cpp:41` (see `port_add_candidate`): `addCandidate` joins a
  search thread that waits for the lock of `state_`, and holds the lock of `ports_`,
  too (`SearchJoined`).
* `addBus` that throws late (see `finder_stops_search`): if the bus has been found
  again before the second `unassign`, the plan frees a port whose bus runs, and the
  bus found there next replaces it in `buses_` without a stop
  (`insert_or_assign`). Also, the second `unassign` resets a port which has found a
  bus that nobody has confirmed yet; the bus can be found once more, and both threads
  confirm it. The second confirmation decrements counters twice, an ambiguous bus
  becomes feasible and is found on the wrong port. Hence the properties of `Adapter`
  are about behaviours without such an exception (`thrown`), `UnassignSearches`
  excepted.
* `PortFinder.cpp:30-34`: `reset` first clears `ports_` and then, after it has
  unlocked, resets the plan. A reader that is still in `unassign` in between may
  add candidates of the old plan, so that ports are constructed anew, and another
  reader resets such a port though it is not assigned, contrary to `Port.hpp:55`.
  Hence the exception of "new plan" in `PortsAsPromised`.
* `Bus.cpp:192`: `max_retries + 1` wraps to 0 when `max_retries` is the greatest
  `size_t`, which the parser makes of -1. Then no attempt is made, `readRegisters`
  returns 0, and `readBurst` repeats this forever while it holds the connection.
* `ConfigJson.cpp:296` and others: negative numbers become large sizes and delays
  without an error. With a `burst_size` so large that `r + burst_size - 1` exceeds
  `int`, the limit wraps (`Burst.cpp:78`), and every register becomes a burst of
  its own; `PlanOptimal` excludes this.
* `ConfigJson.cpp:69`: with more than four registers the shift of an integer
  exceeds the width of its type.
* `Bus.cpp:263`: a nested group is added to the device, not to the group it is
  configured in, so that the model is flat; `ModelIsConfigured` states the group
  of each metric, not the nesting of groups.
* `ThreadsafeStrerror.hpp`: the mutex is `static` in a header, one for each
  translation unit.

## What is not modelled

`ThreadsafeStrerror` and `Logging` (text only); descriptions and data types of
metrics; the output and exit codes of the demo; `setInterfaces`, which has to be
called before `start`; the memory management of `LibmodbusAbstraction`. Ranges of
registers whose end precedes their begin, which nothing in the parser rejects,
are excluded in `RegisterSet`. `HOTPLUG_WAIT_TIME_MS` is left out: other delays
are in `ModbusContext`. That `deregistrate` of the external registry may throw
(`Bus.cpp:273`) is left out because nothing tells when it would. Values of decoders are
exact: the rounding of integers beyond 2^53 when they become a `double`
(`ConfigJson.cpp:150` and others) is left out, and so is the conversion of delays
from `size_t` to `std::chrono::microseconds` (`Modbus.cpp:35-38`). `Adapter` assumes
of hardware that a bus is plugged into one port at a time, and its instances plug
buses only into ports that they list.

## Plan

Done: all components that have logic of their own, their compositions, and proofs
of `PortFinderPlan`, `Adapter` with `PortFinder`, `Port`, `Bus`, `Readcallback`,
`RegisterSet`, `BurstPlan` and `Decoders`; `PortFinderPlan`, `Port` and `Bus` implement
abstract specifications, on which `Adapter` is proved to rely. What would come next:

1. When the test for an empty list and the assignment of `OutOfCandidates` are one
   critical section: `PortSearch` without `GiveUp` and `Forget`, and `FeasibleIsSearched`
   and `AllDetected` without `missed`.
2. `Bus` as the place of the step in which `Readcallback` reads, retries and aborts:
   the same kind of interface between these two.
3. An exception from building a model: when `addBus` no longer unassigns twice, the
   condition `thrown` can be dropped from the properties of `Adapter`.
