-------------------------- MODULE ReadcallbackProofs --------------------------
(***************************************************************************)
(* Theorems about Readcallback and the ModbusContext it uses, for any      *)
(* readers, devices, bursts, tasks, delays and numbers of retries.         *)
(***************************************************************************)
EXTENDS Readcallback, FiniteSetTheorems, WellFoundedInduction, TLAPS

-----------------------------------------------------------------------------
(* Operators                                                               *)

\* A set of numbers that is not empty has a least element.
LEMMA MinExists ==
  ASSUME NEW S \in SUBSET Nat, S # {}
  PROVE  Min(S) \in S /\ \A n \in S : Min(S) <= n
<1>1. PICK m \in S : \A n \in S : <<n, m>> \notin OpToRel(<, Nat)
  BY NatLessThanWellFounded, WFMin
<1>2. \A n \in S : m <= n
  <2> SUFFICES ASSUME NEW n \in S, n < m PROVE FALSE
    BY SMT
  <2>1. <<n, m>> \in OpToRel(<, Nat)
    BY DEF OpToRel
  <2> QED
    BY <1>1, <2>1
<1> QED
  BY <1>2 DEF Min

\* What remains of a burst ends within the plan.
LEMMA RestInPlan ==
  ASSUME read_dest \in Plan
  PROVE  /\ Cardinality(RestOfBurst) \in Nat
         /\ read_dest + Cardinality(RestOfBurst) <= num_plan_registers + 1
<1> DEFINE S == {e \in BurstEnds : e >= read_dest}
           last == Min(S)
<1>1. num_plan_registers \in S /\ S \in SUBSET Nat /\ S # {}
  <2>1. read_dest \in Nat /\ num_plan_registers >= read_dest
    BY PlanType DEF Plan
  <2>2. BurstEnds \in SUBSET Nat /\ num_plan_registers \in BurstEnds
    BY PlanType
  <2> QED
    BY <2>1, <2>2
<1>2. last \in S /\ last <= num_plan_registers
  BY <1>1, MinExists
<1>3. last \in Int /\ read_dest \in Int /\ read_dest <= last
  BY <1>1, <1>2 DEF Plan
<1> HIDE DEF last
<1>4. Cardinality(read_dest .. last)
        = IF read_dest > last THEN 0 ELSE last - read_dest + 1
  BY <1>3, FS_Interval
<1>5. RestOfBurst = read_dest .. last
  BY DEF RestOfBurst, last
<1> QED
  BY <1>2, <1>3, <1>4, <1>5, PlanType

\* Counted time grows by one, up to the bound.
LEMMA TickFacts ==
  ASSUME NEW t \in 0 .. Longest
  PROVE  Tick(t) = IF t < Longest THEN t + 1 ELSE Longest
<1>1. {t + 1, Longest} \in SUBSET Nat /\ {t + 1, Longest} # {}
  BY DelaysType
<1>2. /\ Tick(t) \in {t + 1, Longest}
      /\ Tick(t) <= t + 1 /\ Tick(t) <= Longest
  BY <1>1, MinExists DEF Tick
<1> QED
  BY <1>2, DelaysType

-----------------------------------------------------------------------------
(* The inductive invariant                                                 *)

Locked == {"bursts", "attempt", "retry", "libmodbus"}
Labels == {"idle", "bursts", "attempt", "retry", "libmodbus", "decode"}
InLoop == {"attempt", "retry", "libmodbus"}

\* Who reads has the lock, and has selected the device.
LockInv ==
  /\ \A r \in Readers : pc[r] \in Locked <=> lock = r
  /\ \A r \in Readers : pc[r] \in Locked => connected /\ current_slave_id = device[r]
  /\ using <=> \E r \in Readers : pc[r] = "libmodbus"

\* What the reader that has the lock has read
ReadInv ==
  \A r \in Readers :
    /\ pc[r] \in Locked =>
         \A i \in Plan : i < read_dest => padded[device[r]][i] = r
    /\ pc[r] \in InLoop =>
         /\ read_dest \in Plan /\ read_dest + num_read <= num_plan_registers + 1
         /\ \A i \in Plan : i < read_dest + num_read => padded[device[r]][i] = r
    /\ pc[r] \in {"retry", "libmodbus"} => num_read = 0 /\ remaining_attempts > 0

\* The delay that a context measures is the time since the last read, unless
\* that read has failed; then it is retried on the same device, or nobody reads.
DelayInv ==
  /\ ~ using => last_use_slave_id = previous
  /\ using => last_use_slave_id = current_slave_id
  /\ ~ using /\ connected /\ (\A r \in Readers : pc[r] # "retry") => elapsed <= since
  /\ \A r \in Readers : pc[r] = "retry" => previous = current_slave_id

ReadingInv == TypeOK /\ LockInv /\ ReadInv /\ DelayInv

-----------------------------------------------------------------------------
(* The steps                                                               *)

\* A step of a reader keeps the lock.
LEMMA LockStep ==
  ASSUME TypeOK, LockInv,
         NEW r \in Readers, Call(r) \/ Step(r)
  PROVE  LockInv'
<1> USE DeviceType DEF TypeOK, ContextTypeOK, LockInv, Locked, contextVars,
    connection, reading, buffer
<1>1. CASE Call(r)
  BY <1>1, NobodyType DEF Call, Goto, selectDevice, NoSlave
<1>2. CASE NextRead(r)
  BY <1>2, NobodyType DEF NextRead, Goto
<1>3. CASE BurstsDone(r)
  BY <1>3, NobodyType DEF BurstsDone, Goto
<1>4. CASE BeginAttempt(r)
  BY <1>4, NobodyType DEF BeginAttempt, Goto, BeginUse, required_delay
<1>5. CASE AttemptReads(r)
  BY <1>5, NobodyType DEF AttemptReads, Goto, EndUse, Retvals, Fails
<1>6. CASE AttemptFails(r)
  BY <1>6, NobodyType DEF AttemptFails, Goto, EndUse, RetryOrAbort, Abort
<1>7. CASE AttemptsEnd(r)
  BY <1>7, NobodyType DEF AttemptsEnd, Goto
<1>8. CASE Copy(r)
  BY <1>8, NobodyType DEF Copy, Goto
<1>9. CASE Decode(r)
  BY <1>9, NobodyType DEF Decode, Goto
<1> QED
  BY <1>1, <1>2, <1>3, <1>4, <1>5, <1>6, <1>7, <1>8, <1>9 DEF Step

\* ... the delay.
LEMMA DelayStep ==
  ASSUME TypeOK, LockInv, ReadInv, DelayInv,
         NEW r \in Readers, Call(r) \/ Step(r)
  PROVE  DelayInv'
<1> USE DeviceType DEF TypeOK, ContextTypeOK, LockInv, Locked, DelayInv,
    contextVars, connection, reading, buffer
<1>1. CASE Call(r)
  BY <1>1, NobodyType DEF Call, Goto, selectDevice, NoSlave
<1>2. CASE NextRead(r)
  BY <1>2 DEF NextRead, Goto
<1>3. CASE BurstsDone(r)
  BY <1>3 DEF BurstsDone, Goto
<1>4. CASE BeginAttempt(r)
  BY <1>4 DEF BeginAttempt, Goto, BeginUse, required_delay
<1>5. CASE AttemptReads(r)
  BY <1>5 DEF AttemptReads, Goto, EndUse, Retvals, Fails
<1>6. CASE AttemptFails(r)
  BY <1>6 DEF AttemptFails, Goto, EndUse, RetryOrAbort, Abort
<1>7. CASE AttemptsEnd(r)
  <2>1. pc[r] = "attempt"
    BY <1>7 DEF AttemptsEnd, ReadInv
  <2> QED
    BY <1>7, <2>1 DEF AttemptsEnd, Goto
<1>8. CASE Copy(r)
  BY <1>8 DEF Copy, Goto
<1>9. CASE Decode(r)
  BY <1>9 DEF Decode, Goto
<1> QED
  BY <1>1, <1>2, <1>3, <1>4, <1>5, <1>6, <1>7, <1>8, <1>9 DEF Step

\* ... what has been read.
LEMMA ReadStep ==
  ASSUME TypeOK, LockInv, ReadInv,
         NEW r \in Readers, Call(r) \/ Step(r)
  PROVE  ReadInv'
<1> USE DeviceType DEF TypeOK, ContextTypeOK, LockInv, ReadInv, Locked, InLoop,
    Plan, contextVars, connection, reading, buffer
<1>1. CASE Call(r)
  BY <1>1, NobodyType DEF Call, Goto, selectDevice, NoSlave
<1>2. CASE NextRead(r)
  BY <1>2 DEF NextRead, Goto
<1>3. CASE BurstsDone(r)
  BY <1>3 DEF BurstsDone, Goto
<1>4. CASE BeginAttempt(r)
  BY <1>4 DEF BeginAttempt, Goto, BeginUse, required_delay
<1>5. CASE AttemptReads(r)
  <2>1. PICK n \in Retvals(Cardinality(RestOfBurst)) \ {0} :
          /\ ~ Fails(n) /\ num_read' = n
          /\ padded' = [padded EXCEPT ![device[r]] = [i \in Plan |->
               IF i \in read_dest .. read_dest + n - 1 THEN r ELSE @[i]]]
    BY <1>5 DEF AttemptReads
  <2>2. /\ pc[r] = "libmodbus" /\ pc' = [pc EXCEPT ![r] = "attempt"]
        /\ UNCHANGED read_dest /\ read_dest \in Plan
        /\ \A i \in Plan : i < read_dest => padded[device[r]][i] = r
    BY <1>5 DEF AttemptReads, Goto
  <2>3. n \in Nat \ {0} /\ read_dest + n <= num_plan_registers + 1
    BY <2>1, <2>2, RestInPlan, PlanType DEF Retvals, Fails
  <2>4. \A i \in Plan : i < read_dest + n => padded'[device[r]][i] = r
    <3>1. padded'[device[r]] = [i \in Plan |->
            IF i \in read_dest .. read_dest + n - 1 THEN r ELSE padded[device[r]][i]]
      BY <2>1
    <3>2. \A i \in Plan : i < read_dest + n =>
            i < read_dest \/ i \in read_dest .. read_dest + n - 1
      BY <2>2, <2>3, PlanType
    <3> QED
      BY <2>2, <3>1, <3>2
  <2>5. \A u \in Readers : u # r => pc'[u] \notin Locked
    BY <2>2
  <2>6. \A i \in Plan : i < read_dest => i < read_dest + n
    BY <2>2, <2>3, PlanType
  <2> QED
    BY <2>1, <2>2, <2>3, <2>4, <2>5, <2>6
<1>6. CASE AttemptFails(r)
  BY <1>6 DEF AttemptFails, Goto, EndUse, RetryOrAbort, Abort
<1>7. CASE AttemptsEnd(r)
  BY <1>7 DEF AttemptsEnd, Goto
<1>8. CASE Copy(r)
  BY <1>8 DEF Copy, Goto
<1>9. CASE Decode(r)
  BY <1>9 DEF Decode, Goto
<1> QED
  BY <1>1, <1>2, <1>3, <1>4, <1>5, <1>6, <1>7, <1>8, <1>9 DEF Step

\* The end of a use keeps the types of the context.
LEMMA EndUseType ==
  ASSUME ContextTypeOK, NEW throws \in BOOLEAN, EndUse(throws)
  PROVE  ContextTypeOK'
<1>1. elapsed' \in 0 .. Longest /\ since' \in 0 .. Longest
  BY DelaysType DEF ContextTypeOK, EndUse
<1>2. {last_use_slave_id', current_slave_id', previous'} \subseteq SlaveIds \cup {NoSlave}
  BY DEF ContextTypeOK, EndUse
<1>3. using' \in BOOLEAN
  BY DEF EndUse
<1> QED
  BY <1>1, <1>2, <1>3 DEF ContextTypeOK

\* The number of attempts is a size_t: one more than the retries, if it is not 0.
LEMMA Attempts ==
  /\ (max_retries + 1) % (SIZE_MAX + 1) \in 0 .. SIZE_MAX
  /\ max_retries < SIZE_MAX => (max_retries + 1) % (SIZE_MAX + 1) = max_retries + 1
BY RetriesType

\* ... and the types.
LEMMA TypeStep ==
  ASSUME TypeOK, LockInv, ReadInv,
         NEW r \in Readers, Call(r) \/ Step(r)
  PROVE  TypeOK'
<1> USE DeviceType DEF TypeOK, ContextTypeOK, LockInv, ReadInv, Locked, InLoop,
    contextVars, connection, reading, buffer
<1>1. CASE Call(r)
  <2>1. read_dest' \in 1 .. num_plan_registers + 1
    BY <1>1, PlanType DEF Call
  <2>2. current_slave_id' \in SlaveIds
    BY <1>1 DEF Call, selectDevice
  <2>3. ContextTypeOK'
    BY <1>1, <2>2 DEF Call, selectDevice
  <2> QED
    BY <1>1, <2>1, <2>3 DEF Call, Goto
<1>2. CASE NextRead(r)
  <2>1. remaining_attempts' \in 0 .. SIZE_MAX
    BY <1>2, Attempts DEF NextRead
  <2>2. num_read' \in 0 .. num_plan_registers
    BY <1>2, PlanType DEF NextRead
  <2> QED
    BY <1>2, <2>1, <2>2 DEF NextRead, Goto
<1>3. CASE BurstsDone(r)
  BY <1>3 DEF BurstsDone, Goto
<1>4. CASE BeginAttempt(r)
  BY <1>4 DEF BeginAttempt, Goto, BeginUse, required_delay
<1>5. CASE AttemptReads(r)
  <2>1. PICK n \in Retvals(Cardinality(RestOfBurst)) \ {0} :
          /\ ~ Fails(n) /\ num_read' = n
          /\ padded' = [padded EXCEPT ![device[r]] = [i \in Plan |->
               IF i \in read_dest .. read_dest + n - 1 THEN r ELSE @[i]]]
    BY <1>5 DEF AttemptReads
  <2>2. read_dest \in Plan /\ remaining_attempts > 0
    BY <1>5 DEF AttemptReads
  <2>3. n \in 0 .. num_plan_registers
    BY <2>1, <2>2, RestInPlan, PlanType DEF Retvals, Fails, Plan
  <2>4. padded' \in [SlaveIds -> [Plan -> Readers \cup {Nobody}]]
    BY <2>1
  <2>5. remaining_attempts' \in 0 .. SIZE_MAX
    BY <1>5, <2>2, RetriesType DEF AttemptReads
  <2>6. ContextTypeOK'
    BY <1>5, EndUseType DEF AttemptReads
  <2> QED
    BY <1>5, <2>1, <2>3, <2>4, <2>5, <2>6 DEF AttemptReads, Goto
<1>6. CASE AttemptFails(r)
  <2>1. remaining_attempts > 0
    BY <1>6 DEF AttemptFails
  <2>2. remaining_attempts' \in 0 .. SIZE_MAX
    <3>1. remaining_attempts' \in {remaining_attempts, remaining_attempts - 1}
      BY <1>6 DEF AttemptFails, RetryOrAbort
    <3> QED
      BY <2>1, <3>1, RetriesType
  <2>3. ContextTypeOK'
    BY <1>6, EndUseType DEF AttemptFails
  <2>4. /\ pc' \in [Readers -> Labels]
        /\ lock' \in Readers \cup {Nobody} /\ connected' \in BOOLEAN
    BY <1>6 DEF AttemptFails, RetryOrAbort, Abort, Goto, Labels
  <2> QED
    BY <1>6, <2>2, <2>3, <2>4 DEF AttemptFails, Labels
<1>7. CASE AttemptsEnd(r)
  BY <1>7 DEF AttemptsEnd, Goto
<1>8. CASE Copy(r)
  <2> DEFINE i == copied[r] + 1
  <2>1. i \in Task /\ task_to_plan[i] \in Plan
    BY <1>8, PlanType DEF Copy, Task, Plan
  <2>2. copied' = [copied EXCEPT ![r] = i]
    BY <1>8 DEF Copy
  <2>3. compact' = [compact EXCEPT ![device[r]][i] = padded[device[r]][task_to_plan[i]]]
    BY <1>8 DEF Copy
  <2> HIDE DEF i
  <2>4. copied' \in [Readers -> {0} \cup Task]
    BY <2>1, <2>2
  <2>5. compact' \in [SlaveIds -> [Task -> Readers \cup {Nobody}]]
    BY <2>1, <2>3
  <2> QED
    BY <1>8, <2>4, <2>5 DEF Copy
<1>9. CASE Decode(r)
  BY <1>9 DEF Decode, Goto
<1> QED
  BY <1>1, <1>2, <1>3, <1>4, <1>5, <1>6, <1>7, <1>8, <1>9 DEF Step

\* Time passes for all of them.
LEMMA TimeStep ==
  ASSUME ReadingInv, Time
  PROVE  ReadingInv'
<1> USE DEF ReadingInv, Time, Pass, connection, reading, buffer
<1>1. /\ elapsed \in 0 .. Longest /\ since \in 0 .. Longest /\ using \in BOOLEAN
      /\ elapsed' = Tick(elapsed) /\ since' = IF using THEN since ELSE Tick(since)
  BY DEF TypeOK, ContextTypeOK
<1>2. /\ elapsed' \in 0 .. Longest /\ since' \in 0 .. Longest
      /\ ~ using /\ elapsed <= since => elapsed' <= since'
  BY <1>1, TickFacts, DelaysType
<1>3. TypeOK'
  BY <1>2 DEF TypeOK, ContextTypeOK
<1>4. LockInv' /\ ReadInv'
  BY DEF LockInv, ReadInv
<1>5. DelayInv'
  BY <1>2 DEF DelayInv
<1> QED
  BY <1>3, <1>4, <1>5

\* Every step, and every stutter, keeps the invariant.
LEMMA NextInv == ReadingInv /\ [Next]_vars => ReadingInv'
<1> SUFFICES ASSUME ReadingInv, [Next]_vars PROVE ReadingInv'
  OBVIOUS
<1>1. CASE Time
  BY <1>1, TimeStep
<1>2. ASSUME NEW r \in Readers, Call(r) \/ Step(r)
      PROVE  ReadingInv'
  BY <1>2, LockStep, DelayStep, ReadStep, TypeStep DEF ReadingInv
<1>3. CASE UNCHANGED vars
  <2> USE DEF vars, contextVars, connection, reading, buffer
  <2>1. TypeOK'
    BY <1>3 DEF ReadingInv, TypeOK, ContextTypeOK
  <2>2. LockInv' /\ ReadInv' /\ DelayInv'
    BY <1>3 DEF ReadingInv, LockInv, ReadInv, DelayInv
  <2> QED
    BY <2>1, <2>2 DEF ReadingInv
<1> QED
  BY <1>1, <1>2, <1>3 DEF Next

\* The invariant holds in every state.
THEOREM ReadingInvariant == Spec => []ReadingInv
<1>1. Init => ReadingInv
  <2> SUFFICES ASSUME Init PROVE ReadingInv
    OBVIOUS
  <2> USE DEF Init, ContextInit
  <2>1. ContextTypeOK
    <3>1. elapsed \in 0 .. Longest /\ since \in 0 .. Longest
      BY DelaysType
    <3> QED
      BY <3>1 DEF ContextTypeOK
  <2>2. /\ read_dest \in 1 .. num_plan_registers + 1
        /\ num_read \in 0 .. num_plan_registers
        /\ remaining_attempts \in 0 .. SIZE_MAX
    BY PlanType, RetriesType
  <2>3. TypeOK
    BY <2>1, <2>2 DEF TypeOK
  <2>4. LockInv /\ ReadInv /\ DelayInv
    BY NobodyType, DelaysType DEF LockInv, ReadInv, DelayInv, Locked, InLoop
  <2> QED
    BY <2>3, <2>4 DEF ReadingInv
<1>2. ReadingInv /\ [Next]_vars => ReadingInv'
  BY NextInv
<1> QED
  BY <1>1, <1>2, PTL DEF Spec

-----------------------------------------------------------------------------
(* What follows from it                                                    *)

\* All variables have their types.
THEOREM TypeCorrect == Spec => []TypeOK
<1>1. ReadingInv => TypeOK
  BY DEF ReadingInv
<1> QED
  BY <1>1, ReadingInvariant, PTL

\* libmodbus is used by one reader at a time, which has the lock of an open
\* connection, and for that reader's own device.
THEOREM ReadsOwnDeviceCorrect == Spec => []ReadsOwnDevice
<1>1. ReadingInv => ReadsOwnDevice
  BY DEF ReadingInv, LockInv, Locked, ReadsOwnDevice
<1> QED
  BY <1>1, ReadingInvariant, PTL

\* However a device splits the bursts, whoever goes on to decode has read every
\* register of the plan in this very call.
THEOREM BurstsReadCorrect == Spec => BurstsAreRead
<1>1. ReadingInv /\ [Next]_vars =>
        [\A r \in Readers : pc[r] = "bursts" /\ pc'[r] = "decode" =>
           \A i \in Plan : padded[device[r]][i] = r]_vars
  <2> SUFFICES ASSUME ReadingInv, Next, NEW r \in Readers,
                      pc[r] = "bursts", pc'[r] = "decode", NEW i \in Plan
               PROVE  padded[device[r]][i] = r
    BY DEF vars
  <2>1. read_dest \notin Plan
    <3>1. ~ Time
      BY DEF Time
    <3>2. PICK u \in Readers : Call(u) \/ Step(u)
      BY <3>1 DEF Next
    <3>3. pc \in [Readers -> Labels]
      BY DEF ReadingInv, TypeOK, Labels
    <3>4. BurstsDone(u)
      BY <3>2, <3>3
      DEF Step, Call, NextRead, BeginAttempt, AttemptReads, AttemptFails,
          AttemptsEnd,
          Copy, Decode, RetryOrAbort, Abort, Goto
    <3> QED
      BY <3>4 DEF BurstsDone
  <2>2. read_dest \in 1 .. num_plan_registers + 1
    BY DEF ReadingInv, TypeOK
  <2>3. i < read_dest
    BY <2>1, <2>2, PlanType DEF Plan
  <2> QED
    BY <2>3 DEF ReadingInv, ReadInv, Locked
<1> QED
  BY <1>1, ReadingInvariant, PTL DEF Spec, BurstsAreRead

\* The loop of readRegisters ends with at least one register, if the number of
\* attempts, max_retries + 1, does not wrap: the last failed attempt has aborted.
THEOREM ReadsSomethingCorrect ==
  ASSUME max_retries < SIZE_MAX
  PROVE  Spec => []ReadsSomething
<1>1. Init => ReadsSomething
  BY DEF Init, ReadsSomething
<1>2. ReadingInv /\ ReadsSomething /\ [Next]_vars => ReadsSomething'
  <2> SUFFICES ASSUME ReadingInv, ReadsSomething, [Next]_vars
               PROVE  ReadsSomething'
    OBVIOUS
  <2>1. CASE UNCHANGED <<pc, num_read, remaining_attempts>>
    BY <2>1 DEF ReadsSomething
  <2>2. ASSUME NEW r \in Readers, Call(r) \/ Step(r)
        PROVE  ReadsSomething'
    <3>1. /\ pc \in [Readers -> Labels]
          /\ num_read \in Nat /\ remaining_attempts \in Nat
          /\ ReadInv /\ ReadInv' /\ LockInv'
      BY <2>2, LockStep, ReadStep DEF ReadingInv, TypeOK, Labels
    <3>2. SUFFICES ASSUME NEW u \in Readers, pc'[u] = "attempt", remaining_attempts' = 0
                   PROVE  num_read' > 0
      BY <3>1 DEF ReadsSomething, ReadInv
    <3>3. CASE NextRead(r)
      <4>1. remaining_attempts' = max_retries + 1
        BY <3>3, Attempts DEF NextRead
      <4> QED
        BY <3>2, <4>1, RetriesType
    <3>4. CASE AttemptReads(r)
      <4>1. read_dest \in Plan
        BY <3>1, <3>4 DEF AttemptReads, ReadInv, InLoop
      <4> QED
        BY <3>4, <4>1, RestInPlan DEF AttemptReads, Retvals, Fails
    <3>5. CASE pc[u] = "attempt" /\ UNCHANGED <<num_read, remaining_attempts>>
      BY <3>2, <3>5 DEF ReadsSomething
    <3>6. \/ NextRead(r) \/ AttemptReads(r)
          \/ pc[u] = "attempt" /\ UNCHANGED <<num_read, remaining_attempts>>
      <4>1. CASE Call(r) \/ BurstsDone(r) \/ BeginAttempt(r) \/ AttemptsEnd(r)
                   \/ Copy(r) \/ Decode(r)
        BY <3>1, <3>2, <4>1
        DEF Call, BurstsDone, BeginAttempt, AttemptsEnd, Copy, Decode, Goto, reading
      <4>2. CASE AttemptFails(r)
        <5>1. pc[r] = "libmodbus" /\ pc'[r] # "attempt"
          BY <3>1, <4>2 DEF AttemptFails, RetryOrAbort, Abort, Goto
        <5>2. u # r /\ pc[u] = "attempt"
          BY <3>1, <3>2, <4>2, <5>1 DEF AttemptFails, RetryOrAbort, Abort, Goto
        <5> QED
          BY <5>1, <5>2 DEF ReadingInv, LockInv, Locked
      <4> QED
        BY <2>2, <4>1, <4>2 DEF Step
    <3> QED
      BY <3>3, <3>4, <3>5, <3>6
  <2> QED
    BY <2>1, <2>2 DEF Next, Time, vars, reading
<1> QED
  BY <1>1, <1>2, ReadingInvariant, PTL DEF Spec

\* Config.hpp:141-142: the delays pass between any two reads, by whichever readers
\* and of whichever devices, also after failures, if retries are not faster than
\* the delay between uses.
THEOREM KeepsDelayCorrect ==
  ASSUME retry_delay >= interUseDelay
  PROVE  Spec => []KeepsDelay
<1>1. Init => KeepsDelay
  BY DEF Init, ContextInit, KeepsDelay
<1>2. ReadingInv /\ KeepsDelay /\ [Next]_vars => KeepsDelay'
  <2> SUFFICES ASSUME ReadingInv, KeepsDelay, [Next]_vars, using'
               PROVE  since' >= DelayAfter(previous', current_slave_id')
    BY DEF KeepsDelay, DelayAfter, interUseDelay, interDeviceDelay
  <2>1. CASE using /\ UNCHANGED <<since, previous, current_slave_id>>
    BY <2>1 DEF KeepsDelay
  <2>2. ASSUME NEW r \in Readers, BeginAttempt(r)
        PROVE  since' >= DelayAfter(previous', current_slave_id')
    <3>1. /\ ~ using /\ UNCHANGED <<since, previous, current_slave_id>>
          /\ elapsed >= required_delay
          /\ pc[r] \in {"attempt", "retry"} /\ (pc[r] = "retry" => since >= retry_delay)
      BY <2>2 DEF BeginAttempt, BeginUse
    <3>2. /\ interUseDelay \in Nat /\ interDeviceDelay \in Nat
          /\ elapsed \in Nat /\ since \in Nat /\ retry_delay \in Nat
      BY DelaysType, RetriesType
      DEF interUseDelay, interDeviceDelay, ReadingInv, TypeOK, ContextTypeOK
    <3>3. CASE pc[r] = "retry"
      <4>1. previous = current_slave_id
        BY <3>3 DEF ReadingInv, DelayInv
      <4> QED
        BY <3>1, <3>2, <3>3, <4>1 DEF DelayAfter
    <3>4. CASE pc[r] = "attempt"
      <4>1. connected /\ \A u \in Readers : pc[u] # "retry"
        BY <3>4 DEF ReadingInv, LockInv, Locked
      <4>2. elapsed <= since /\ last_use_slave_id = previous
        BY <3>1, <4>1 DEF ReadingInv, DelayInv
      <4>3. required_delay = DelayAfter(previous, current_slave_id)
        BY <3>2, <4>2 DEF required_delay, inter_device_delay, DelayAfter
      <4>4. DelayAfter(previous, current_slave_id) \in Nat
        BY <3>2 DEF DelayAfter
      <4> QED
        BY <3>1, <3>2, <4>2, <4>3, <4>4
    <3> QED
      BY <3>1, <3>3, <3>4
  <2>3. \/ using /\ UNCHANGED <<since, previous, current_slave_id>>
        \/ \E r \in Readers : BeginAttempt(r)
    <3>1. CASE Time
      BY <3>1 DEF Time, Pass
    <3>2. CASE UNCHANGED vars
      BY <3>2 DEF vars, contextVars
    <3>3. ASSUME NEW r \in Readers, Call(r) \/ Step(r)
          PROVE  \/ using /\ UNCHANGED <<since, previous, current_slave_id>>
                 \/ BeginAttempt(r)
      <4>1. CASE Call(r)
        <5>1. ~ using
          BY <4>1, NobodyType DEF Call, ReadingInv, LockInv, Locked
        <5> QED
          BY <4>1, <5>1 DEF Call, selectDevice
      <4>2. CASE AttemptReads(r) \/ AttemptFails(r)
        BY <4>2 DEF AttemptReads, AttemptFails, EndUse
      <4>3. CASE NextRead(r) \/ BurstsDone(r) \/ AttemptsEnd(r) \/ Copy(r) \/ Decode(r)
        BY <4>3 DEF NextRead, BurstsDone, AttemptsEnd, Copy, Decode, contextVars
      <4> QED
        BY <3>3, <4>1, <4>2, <4>3 DEF Step
    <3> QED
      BY <3>1, <3>2, <3>3 DEF Next
  <2> QED
    BY <2>1, <2>2, <2>3
<1> QED
  BY <1>1, <1>2, ReadingInvariant, PTL DEF Spec

=============================================================================
