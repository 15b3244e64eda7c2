---------------------------- MODULE Readcallback ----------------------------
(***************************************************************************)
(* Reading the metrics of a bus (struct Readcallback): several threads may *)
(* call it.  Each device has a metric here, with a BurstBuffer that is     *)
(* shared by the threads which read it.  The bursts are read under the     *)
(* lock of the bus connection, through its ModbusContext, each in as many  *)
(* pieces as the device chooses, each piece with retries; the values are   *)
(* decoded without the lock.                                               *)
(*                                                                         *)
(* Registers are tagged with the thread whose read has put them into the   *)
(* buffer.  What decoding computes is in module Decoders.                  *)
(***************************************************************************)
EXTENDS ModbusContext, LibmodbusAbstraction, Sequences, FiniteSets

CONSTANTS
  Readers,             \* bound: threads that read metrics
  Nobody,
  device,              \* for each reader, the slave id of the metric's device
  num_plan_registers,  \* of a metric's plan
  BurstEnds,           \* the last plan register of each of its bursts
  task_to_plan,        \* for each register of a metric, its plan register
  max_retries,
  retry_delay,
  SIZE_MAX             \* greatest value of size_t

ASSUME RetriesType ==
  /\ SIZE_MAX \in Nat /\ max_retries \in 0 .. SIZE_MAX
  /\ retry_delay \in 0 .. Longest
ASSUME NobodyType == Nobody \notin Readers
ASSUME DeviceType == device \in [Readers -> SlaveIds]
ASSUME PlanType ==
  /\ num_plan_registers \in Nat \ {0}
  /\ BurstEnds \subseteq 1 .. num_plan_registers
  /\ num_plan_registers \in BurstEnds
  /\ task_to_plan \in Seq(1 .. num_plan_registers)

VARIABLES
  lock,                \* who holds connection_
  connected,
  pc,                  \* per reader
  read_dest,           \* of the reader that holds the lock: the next register
  num_read,            \* ... what readRegisters returns
  remaining_attempts,  \* ... its attempts
  padded,              \* per metric: BurstBuffer::padded
  compact,             \* per metric: BurstBuffer::compact
  copied               \* per reader: how many registers it has copied

connection == <<lock, connected>>
reading == <<read_dest, num_read, remaining_attempts>>
buffer == <<padded, compact, copied>>
vars == <<contextVars, connection, pc, reading, buffer>>

Plan == 1 .. num_plan_registers
Task == DOMAIN task_to_plan

\* mutated: the whole burst again, from read_dest on
WholeBurst ==
  LET last == Min({e \in BurstEnds : e >= read_dest})
      before == {e \in BurstEnds : e < read_dest}
      length == IF before = {} THEN last ELSE last - Max(before)
  IN read_dest .. read_dest + length - 1

\* The registers that remain of the burst at read_dest
RestOfBurst == read_dest .. Min({e \in BurstEnds : e >= read_dest})

Init ==
  /\ ContextInit
  /\ lock = Nobody /\ connected = TRUE
  /\ pc = [r \in Readers |-> "idle"]
  /\ read_dest = 1 /\ num_read = 0 /\ remaining_attempts = 0
  /\ padded = [slave \in SlaveIds |-> [i \in Plan |-> Nobody]]
  /\ compact = [slave \in SlaveIds |-> [i \in Task |-> Nobody]]
  /\ copied = [r \in Readers |-> 0]

Goto(r, label) == pc' = [pc EXCEPT ![r] = label]

\* mutated: the device is selected by the first call only
CallSelectsOnce(r) ==
  /\ pc[r] = "idle" /\ lock = Nobody /\ connected
  /\ selectDevice(IF current_slave_id = NoSlave THEN device[r] ELSE current_slave_id)
  /\ lock' = r /\ read_dest' = 1
  /\ Goto(r, "bursts")
  /\ UNCHANGED <<connected, num_read, remaining_attempts, buffer>>

\* operator(): lock the connection, select the device and read.  If the
\* connection was closed, or libmodbus rejects the slave id, throw instead.
Call(r) ==
  /\ pc[r] = "idle" /\ lock = Nobody /\ connected
  /\ selectDevice(device[r])
  /\ lock' = r /\ read_dest' = 1
  /\ Goto(r, "bursts")
  /\ UNCHANGED <<connected, num_read, remaining_attempts, buffer>>

\* readBurst: while registers remain, it calls readRegisters
NextRead(r) ==
  /\ pc[r] = "bursts" /\ read_dest \in Plan
  /\ num_read' = 0 /\ remaining_attempts' = (max_retries + 1) % (SIZE_MAX + 1)
  /\ Goto(r, "attempt")
  /\ UNCHANGED <<contextVars, connection, read_dest, buffer>>

\* All bursts are read: unlock
BurstsDone(r) ==
  /\ pc[r] = "bursts" /\ read_dest \notin Plan
  /\ lock' = Nobody
  /\ copied' = [copied EXCEPT ![r] = 0]
  /\ Goto(r, "decode")
  /\ UNCHANGED <<contextVars, connected, reading, padded, compact>>

\* The loop of readRegisters: an attempt waits for the delay of the context and
\* calls libmodbus, ...
BeginAttempt(r) ==
  /\ pc[r] \in {"attempt", "retry"}
  /\ num_read = 0 /\ remaining_attempts > 0
  /\ pc[r] = "retry" => since >= retry_delay
  /\ BeginUse
  /\ Goto(r, "libmodbus")
  /\ UNCHANGED <<connection, reading, buffer>>

\* ... which reads some registers, ...
AttemptReads(r) ==
  /\ pc[r] = "libmodbus"
  /\ \E retval \in Retvals(Cardinality(RestOfBurst)) \ {0} :
       /\ ~ Fails(retval)
       /\ num_read' = retval
       /\ padded' = [padded EXCEPT ![device[r]] = [i \in Plan |->
            IF i \in read_dest .. read_dest + retval - 1 THEN r ELSE @[i]]]
  /\ remaining_attempts' = remaining_attempts - 1
  /\ EndUse(FALSE)
  /\ Goto(r, "attempt")
  /\ UNCHANGED <<connection, read_dest, compact, copied>>

\* Bus::abort: disconnect and throw, which unlocks
Abort(r) ==
  /\ connected' = FALSE /\ lock' = Nobody
  /\ Goto(r, "idle")

\* mutated: retried once too often
RetryOnceMore(r) ==
  /\ IF remaining_attempts > 0 THEN Goto(r, "retry") /\ UNCHANGED connection ELSE Abort(r)
  /\ remaining_attempts' = remaining_attempts - 1

\* retryOrAbort
RetryOrAbort(r) ==
  /\ IF remaining_attempts > 1 THEN Goto(r, "retry") /\ UNCHANGED connection ELSE Abort(r)
  /\ remaining_attempts' = remaining_attempts - 1

\* ... or none, or fails.
AttemptFails(r) ==
  /\ pc[r] = "libmodbus"
  /\ \/ ~ Fails(0) /\ EndUse(FALSE) /\ RetryOrAbort(r)
     \/ \E errno \in ErrorCodes :
          /\ EndUse(TRUE)
          /\ IF retryFeasible(errno)
               THEN RetryOrAbort(r) ELSE Abort(r) /\ UNCHANGED remaining_attempts
  /\ UNCHANGED <<read_dest, num_read, buffer>>

\* mutated: what was read is taken for the whole burst
AttemptsEndBurst(r) ==
  /\ pc[r] \in {"attempt", "retry"} /\ (num_read > 0 \/ remaining_attempts = 0)
  /\ read_dest' = Min({e \in BurstEnds : e >= read_dest}) + 1
  /\ Goto(r, "bursts")
  /\ UNCHANGED <<contextVars, connection, num_read, remaining_attempts, buffer>>

\* The loop ends, and readBurst moves on by num_read
AttemptsEnd(r) ==
  /\ pc[r] \in {"attempt", "retry"} /\ (num_read > 0 \/ remaining_attempts = 0)
  /\ read_dest' = read_dest + num_read
  /\ Goto(r, "bursts")
  /\ UNCHANGED <<contextVars, connection, num_read, remaining_attempts, buffer>>

\* Without the lock: copy the metric's registers one by one ...
Copy(r) ==
  /\ pc[r] = "decode" /\ copied[r] + 1 \in Task
  /\ LET i == copied[r] + 1 IN
       /\ compact' = [compact EXCEPT ![device[r]][i] = padded[device[r]][task_to_plan[i]]]
       /\ copied' = [copied EXCEPT ![r] = i]
  /\ UNCHANGED <<contextVars, connection, pc, reading, padded>>

\* ... and decode them
Decode(r) ==
  /\ pc[r] = "decode" /\ copied[r] + 1 \notin Task
  /\ Goto(r, "idle")
  /\ UNCHANGED <<contextVars, connection, reading, buffer>>

Step(r) ==
  \/ NextRead(r) \/ BurstsDone(r) \/ BeginAttempt(r) \/ AttemptReads(r)
  \/ AttemptFails(r) \/ AttemptsEnd(r) \/ Copy(r) \/ Decode(r)

Time == Pass /\ UNCHANGED <<connection, pc, reading, buffer>>

Next == Time \/ \E r \in Readers : Call(r) \/ Step(r)

Spec == Init /\ [][Next]_vars

\* A called thread runs on, libmodbus answers or times out, and sleeping ends.
FairSpec == Spec /\ WF_vars(Time) /\ \A r \in Readers : WF_vars(Step(r))

-----------------------------------------------------------------------------

\* Type invariant of all variables.
TypeOK ==
  /\ ContextTypeOK
  /\ lock \in Readers \cup {Nobody}
  /\ connected \in BOOLEAN
  /\ pc \in [Readers -> {"idle", "bursts", "attempt", "retry", "libmodbus", "decode"}]
  /\ read_dest \in 1 .. num_plan_registers + 1
  /\ num_read \in 0 .. num_plan_registers
  /\ remaining_attempts \in 0 .. SIZE_MAX
  /\ padded \in [SlaveIds -> [Plan -> Readers \cup {Nobody}]]
  /\ compact \in [SlaveIds -> [Task -> Readers \cup {Nobody}]]
  /\ copied \in [Readers -> {0} \cup Task]

\* When the loop of readRegisters ends, num_read > 0, because otherwise the
\* bus was aborted with the last attempt (Bus.cpp:217).  (It takes a max_retries
\* below SIZE_MAX, or else there is no attempt at all.)
ReadsSomething ==
  \A r \in Readers :
    pc[r] \in {"attempt", "retry"} /\ remaining_attempts = 0 => num_read > 0

\* When a reader releases the lock to decode, every register of every burst is
\* from this very call, however the device has split the bursts.
BurstsAreRead ==
  [][\A r \in Readers : pc[r] = "bursts" /\ pc'[r] = "decode" =>
       \A i \in Plan : padded[device[r]][i] = r]_vars

\* While readers of different devices take turns, and fail, libmodbus is asked
\* by one of them at a time, for registers of that reader's own device.
ReadsOwnDevice ==
  \A r \in Readers : pc[r] = "libmodbus" =>
    using /\ lock = r /\ connected /\ current_slave_id = device[r]

\* A call returns a value or throws, whatever the device answers: neither
\* partial reads nor retries go on forever.
CallReturns == \A r \in Readers : pc[r] # "idle" ~> pc[r] = "idle"

\* "Bus uses are register read attempts.  The delay is the min time (in us)
\* between the end of one use and the start of the next use" (Config.hpp:141),
\* plus the delay that is due when switching between devices: it passes
\* between any two attempts, by whichever readers and also after failures.
KeepsDelay == using => since >= DelayAfter(previous, current_slave_id)

\* "no need to hold the lock during decoding" (Bus.cpp:157): the registers a
\* thread decodes are the ones it has read.
DecodesOwnRead ==
  \A r \in Readers : pc[r] = "decode" /\ copied[r] + 1 \notin Task =>
    \A i \in Task : compact[device[r]][i] = r

=============================================================================
