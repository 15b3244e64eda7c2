------------------------------ MODULE BusProofs ------------------------------
(***************************************************************************)
(* Theorems about Bus, for any number of devices and any finite set of     *)
(* readers, whether or not the builder and the registry may throw.         *)
(***************************************************************************)
EXTENDS Bus, FiniteSetTheorems, Integers, TLAPS

-----------------------------------------------------------------------------
(* The inductive invariant                                                 *)

\* Where a thread waits for connection_ or has it, and where it must have it
Queueing == {"connect", "remember", "abort build", "read", "stop",
             "reading", "cancel", "thrown"}
Inside == {"reading", "cancel", "thrown"}

\* The queue of the lock: each thread is in it at most once, namely if it is
\* where it waits for the lock or has it; whoever must have the lock has it.
QueueInv ==
  /\ \A i, j \in 1 .. Len(queue) : queue[i] = queue[j] => i = j
  /\ \A t \in Threads :
       pc[t] \in Queueing <=> \E i \in 1 .. Len(queue) : queue[i] = t
  /\ \A t \in Threads : pc[t] \in Inside => queue # <<>> /\ queue[1] = t

Types ==
  /\ queue \in Seq(Threads)
  /\ connected \in BOOLEAN
  /\ devices_to_deregister \subseteq Devices
  /\ registered \subseteq known_devices
  /\ known_devices \subseteq Devices
  /\ device \in Devices \cup {0}
  /\ pc \in [Threads -> Labels]
  /\ cancelled \in Nat

\* Which thread may be where
Places ==
  /\ pc["adder"] \in Labels \ {"idle", "read", "reading", "stop", "stopped"}
  /\ pc["stopper"] \in {"idle", "stop", "stopped"}
  /\ \A r \in Readers : pc[r] \in {"idle", "read", "reading", "cancel", "thrown"}

\* Nothing happens before the bus is connected
BeforeConnect ==
  pc["adder"] \in {"start", "connect"} =>
    /\ ~ connected /\ known_devices = {} /\ cancelled = 0
    /\ \A t \in Threads \ {"adder"} : pc[t] = "idle"

\* Whoever is about to call cancelBus has closed the connection, and nobody has
\* called it yet; nobody reads without a connection.
CancelInv ==
  /\ cancelled \in {0, 1}
  /\ cancelled = 1 => ~ connected
  /\ \A t \in Threads : pc[t] = "cancel" => ~ connected /\ cancelled = 0

\* A device is remembered before it is registered
Remembered ==
  /\ pc["adder"] \in {"build", "remember", "registrate"} => device \in Devices
  /\ pc["adder"] = "registrate" /\ connected => device \in devices_to_deregister

BusInv ==
  /\ Types /\ QueueInv /\ Places /\ BeforeConnect /\ CancelInv /\ Remembered
  /\ ConnectionInvariant

-----------------------------------------------------------------------------
(* The lock                                                                *)

\* Who calls connection_.lock() without having the lock joins its queue.
LEMMA LockKeeps ==
  ASSUME queue \in Seq(Threads), pc \in [Threads -> Labels], QueueInv,
         NEW t \in Threads, NEW from, NEW label, Lock(t, from, label),
         from \notin Queueing, label \in Queueing \ Inside
  PROVE  QueueInv' /\ queue' \in Seq(Threads)
<1> USE DEF Lock, Goto
<1>1. queue' \in Seq(Threads) /\ Len(queue') = Len(queue) + 1 /\ Len(queue) \in Nat
  OBVIOUS
<1>2. /\ \A i \in 1 .. Len(queue) : queue'[i] = queue[i]
      /\ queue'[Len(queue) + 1] = t
  OBVIOUS
<1>3. pc' = [pc EXCEPT ![t] = label] /\ pc[t] = from
  OBVIOUS
<1>4. \A i \in 1 .. Len(queue) : queue[i] # t
  BY <1>3 DEF QueueInv
<1>5. \A i, j \in 1 .. Len(queue') : queue'[i] = queue'[j] => i = j
  BY <1>1, <1>2, <1>4 DEF QueueInv
<1>6. ASSUME NEW u \in Threads
      PROVE  pc'[u] \in Queueing <=> \E i \in 1 .. Len(queue') : queue'[i] = u
  <2>1. (\E i \in 1 .. Len(queue') : queue'[i] = u)
          <=> u = t \/ \E i \in 1 .. Len(queue) : queue[i] = u
    BY <1>1, <1>2
  <2> QED
    BY <1>3, <2>1 DEF QueueInv
<1>7. ASSUME NEW u \in Threads, pc'[u] \in Inside
      PROVE  queue' # <<>> /\ queue'[1] = u
  <2>1. u # t /\ pc[u] \in Inside
    BY <1>3, <1>7
  <2>2. queue # <<>> /\ queue[1] = u
    BY <2>1 DEF QueueInv
  <2>3. 1 \in 1 .. Len(queue)
    BY <2>2
  <2> QED
    BY <1>1, <1>2, <2>2, <2>3
<1> QED
  BY <1>1, <1>5, <1>6, <1>7 DEF QueueInv

\* Who releases the lock leaves the queue, in which it is only once.
LEMMA UnlockKeeps ==
  ASSUME queue \in Seq(Threads), pc \in [Threads -> Labels], QueueInv,
         NEW t \in Threads, NEW from, NEW label, Holds(t, from), Unlock(t, label),
         label \notin Queueing
  PROVE  QueueInv' /\ queue' \in Seq(Threads)
<1> USE DEF Holds, Unlock, Goto
<1>1. /\ queue # <<>> /\ queue[1] = t /\ Len(queue) \in Nat \ {0}
      /\ queue' \in Seq(Threads) /\ Len(queue') = Len(queue) - 1
      /\ \A i \in 1 .. Len(queue) - 1 : queue'[i] = queue[i + 1]
  OBVIOUS
<1>2. pc' = [pc EXCEPT ![t] = label]
  OBVIOUS
<1>3. \A i, j \in 1 .. Len(queue') : queue'[i] = queue'[j] => i = j
  <2> SUFFICES ASSUME NEW i \in 1 .. Len(queue'), NEW j \in 1 .. Len(queue'),
                      queue'[i] = queue'[j]
               PROVE  i = j
    OBVIOUS
  <2>1. i + 1 \in 1 .. Len(queue) /\ j + 1 \in 1 .. Len(queue)
    BY <1>1
  <2>2. queue[i + 1] = queue[j + 1]
    BY <1>1
  <2> QED
    BY <2>1, <2>2 DEF QueueInv
<1>4. \A i \in 1 .. Len(queue') : queue'[i] # t
  <2> SUFFICES ASSUME NEW i \in 1 .. Len(queue') PROVE queue'[i] # t
    OBVIOUS
  <2>1. i + 1 \in 1 .. Len(queue) /\ 1 \in 1 .. Len(queue) /\ i + 1 # 1
    BY <1>1
  <2>2. queue[i + 1] # queue[1]
    BY <2>1 DEF QueueInv
  <2> QED
    BY <1>1, <2>2
<1>5. ASSUME NEW u \in Threads
      PROVE  pc'[u] \in Queueing <=> \E i \in 1 .. Len(queue') : queue'[i] = u
  <2>1. CASE u = t
    BY <1>2, <1>4, <2>1
  <2>2. CASE u # t
    <3>1. pc'[u] = pc[u]
      BY <1>2, <2>2
    <3>2. ASSUME NEW i \in 1 .. Len(queue), queue[i] = u
          PROVE  \E j \in 1 .. Len(queue') : queue'[j] = u
      <4>1. i # 1
        BY <1>1, <2>2, <3>2
      <4>2. i - 1 \in 1 .. Len(queue) - 1 /\ (i - 1) + 1 = i
        BY <1>1, <4>1
      <4>3. queue'[i - 1] = u
        BY <1>1, <3>2, <4>2
      <4> QED
        BY <1>1, <4>2, <4>3
    <3>3. ASSUME NEW j \in 1 .. Len(queue'), queue'[j] = u
          PROVE  \E i \in 1 .. Len(queue) : queue[i] = u
      <4>1. j + 1 \in 1 .. Len(queue) /\ queue[j + 1] = u
        BY <1>1, <3>3
      <4> QED
        BY <4>1
    <3> QED
      BY <3>1, <3>2, <3>3 DEF QueueInv
  <2> QED
    BY <2>1, <2>2
<1>6. ASSUME NEW u \in Threads
      PROVE  pc'[u] \notin Inside
  <2>1. u = t => pc'[u] = label
    BY <1>2
  <2>2. u # t => pc'[u] = pc[u] /\ pc[u] \notin Inside
    BY <1>1, <1>2 DEF QueueInv
  <2> QED
    BY <2>1, <2>2 DEF Inside, Queueing
<1> QED
  BY <1>1, <1>3, <1>5, <1>6 DEF QueueInv

\* Who has the lock may take other steps that need it.
LEMMA HoldKeeps ==
  ASSUME queue \in Seq(Threads), pc \in [Threads -> Labels], QueueInv,
         NEW t \in Threads, NEW from, NEW label, Holds(t, from), from \in Queueing,
         Goto(t, label), UNCHANGED queue, label \in Queueing
  PROVE  QueueInv'
<1>1. pc' = [pc EXCEPT ![t] = label] /\ queue' = queue
  BY DEF Goto
<1>2. queue # <<>> /\ queue[1] = t /\ pc[t] \in Queueing
  BY DEF Holds
<1>3. ASSUME NEW u \in Threads
      PROVE  /\ pc'[u] \in Queueing <=> \E i \in 1 .. Len(queue) : queue[i] = u
             /\ pc'[u] \in Inside => queue # <<>> /\ queue[1] = u
  <2>1. CASE u = t
    BY <1>1, <1>2, <2>1 DEF QueueInv
  <2>2. CASE u # t
    BY <1>1, <2>2 DEF QueueInv
  <2> QED
    BY <2>1, <2>2
<1> QED
  BY <1>1, <1>3 DEF QueueInv

-----------------------------------------------------------------------------
(* The invariant is inductive                                              *)

\* The three kinds of threads are different ones.
LEMMA ThreadFacts ==
  /\ "adder" \in Threads /\ "stopper" \in Threads /\ "adder" # "stopper"
  /\ \A r \in Readers : r \in Threads /\ r # "adder" /\ r # "stopper"
BY ReadersType DEF Threads

\* Devices are numbered from 1 on.
LEMMA DeviceFacts ==
  /\ 1 \in Devices
  /\ \A d \in Devices : d # NumDevices => d + 1 \in Devices
BY NumDevicesType DEF Devices

\* The invariant holds before the bus is started.
LEMMA InitInv == Init => BusInv
<1> SUFFICES ASSUME Init PROVE BusInv
  OBVIOUS
<1> USE ThreadFacts DEF Init
<1>1. Types
  <2>1. queue \in Seq(Threads)
    OBVIOUS
  <2>2. pc \in [Threads -> Labels]
    BY DEF Labels
  <2> QED
    BY <2>1, <2>2 DEF Types
<1>2. QueueInv
  BY DEF QueueInv, Queueing, Inside
<1>3. Places /\ BeforeConnect /\ CancelInv /\ Remembered /\ ConnectionInvariant
  BY DEF Places, BeforeConnect, CancelInv, Remembered, ConnectionInvariant, Labels
<1> QED
  BY <1>1, <1>2, <1>3 DEF BusInv

\* What the invariant says about variables other than the queue
NotQueue ==
  /\ connected \in BOOLEAN
  /\ devices_to_deregister \subseteq Devices
  /\ registered \subseteq known_devices
  /\ known_devices \subseteq Devices
  /\ device \in Devices \cup {0}
  /\ pc \in [Threads -> Labels]
  /\ cancelled \in Nat
  /\ Places /\ BeforeConnect /\ CancelInv /\ Remembered /\ ConnectionInvariant

\* Nobody has called cancelBus, or is about to.
LEMMA NobodyCancels ==
  ASSUME cancelled' = 0, \A t \in Threads : pc'[t] # "cancel"
  PROVE  CancelInv'
BY DEF CancelInv

\* What start and buildModel do, apart from throwing, keeps the invariant.
LEMMA AdderStep ==
  ASSUME BusInv,
         StartLocks \/ Connect \/ ConnectFails \/ BuildDevice \/ Remember
           \/ Registrate \/ BuildThrows
  PROVE  BusInv'
<1> USE ThreadFacts
<1>1. queue \in Seq(Threads) /\ QueueInv /\ NotQueue
  BY DEF BusInv, NotQueue, Types
<1>2. pc \in [Threads -> Labels]
  BY <1>1 DEF NotQueue
<1>3. QueueInv' /\ queue' \in Seq(Threads)
  <2>1. CASE StartLocks
    BY <1>1, <1>2, <2>1, LockKeeps DEF StartLocks, Queueing, Inside
  <2>2. CASE Connect
    BY <1>1, <1>2, <2>2, UnlockKeeps DEF Connect, Queueing
  <2>3. CASE ConnectFails
    BY <1>1, <1>2, <2>3, UnlockKeeps DEF ConnectFails, Queueing
  <2>4. CASE BuildDevice
    BY <1>1, <1>2, <2>4, LockKeeps DEF BuildDevice, Queueing, Inside
  <2>5. CASE Remember
    BY <1>1, <1>2, <2>5, UnlockKeeps DEF Remember, Queueing
  <2>6. CASE Registrate
    <3>1. queue' = queue /\ pc["adder"] = "registrate"
      BY <2>6 DEF Registrate
    <3>2. PICK l \in {"started", "build"} : pc' = [pc EXCEPT !["adder"] = l]
      BY <2>6 DEF Registrate, Goto
    <3>3. \A u \in Threads :
            /\ pc'[u] \in Queueing <=> pc[u] \in Queueing
            /\ pc'[u] \in Inside <=> pc[u] \in Inside
      BY <1>2, <3>1, <3>2 DEF Queueing, Inside
    <3> QED
      BY <1>1, <3>1, <3>3 DEF QueueInv
  <2>7. CASE BuildThrows
    <3>1. PICK from \in {"build", "registrate"} : Lock("adder", from, "abort build")
      BY <2>7 DEF BuildThrows
    <3> QED
      BY <1>1, <1>2, <3>1, LockKeeps DEF Queueing, Inside
  <2> QED
    BY <2>1, <2>2, <2>3, <2>4, <2>5, <2>6, <2>7
<1>4. NotQueue'
  <2> USE <1>1 DEF NotQueue, Places, BeforeConnect, CancelInv, Remembered,
        ConnectionInvariant, Labels, Goto, connection
  <2>1. CASE StartLocks
    BY <2>1 DEF StartLocks, Lock
  <2>2. CASE Connect
    <3>1. /\ connected' = TRUE /\ device' = 1 /\ pc' = [pc EXCEPT !["adder"] = "build"]
          /\ pc["adder"] = "connect"
          /\ UNCHANGED <<devices_to_deregister, registered, known_devices, cancelled>>
      BY <2>2 DEF Connect, Holds, Unlock
    <3>2. 1 \in Devices
      BY DeviceFacts
    <3>3. registered = {} /\ cancelled = 0 /\ \A t \in Threads : pc'[t] # "cancel"
      BY <3>1
    <3>4. CancelInv' /\ ConnectionInvariant'
      <4>1. connected' = TRUE /\ registered' = {}
        BY <3>1, <3>3
      <4>3. cancelled' = 0
        BY <3>1, <3>3
      <4>2. CancelInv'
        BY <3>3, <4>3, NobodyCancels
      <4> QED
        BY <4>1, <4>2 DEF ConnectionInvariant
    <3>6. Remembered'
      BY <3>1, <3>2
    <3>5. Places' /\ BeforeConnect' /\ pc' \in [Threads -> Labels]
      BY <3>1
    <3> QED
      BY <3>1, <3>2, <3>4, <3>5, <3>6
  <2>3. CASE ConnectFails
    BY <2>3 DEF ConnectFails, Holds, Unlock
  <2>4. CASE BuildDevice
    BY <2>4 DEF BuildDevice, Lock
  <2>5. CASE Remember
    BY <2>5 DEF Remember, Holds, Unlock
  <2>6. CASE Registrate
    <3>1. /\ registered' = registered \cup {device}
          /\ known_devices' = known_devices \cup {device}
          /\ pc["adder"] = "registrate" /\ device \in Devices
          /\ UNCHANGED <<connected, devices_to_deregister, cancelled>>
      BY <2>6 DEF Registrate
    <3>2. \/ pc' = [pc EXCEPT !["adder"] = "started"] /\ device' = device
          \/ /\ pc' = [pc EXCEPT !["adder"] = "build"] /\ device' = device + 1
             /\ device # NumDevices
      BY <2>6 DEF Registrate
    <3>3. device' \in Devices
      <4>1. device # NumDevices => device + 1 \in Devices
        BY <3>1, DeviceFacts
      <4> QED
        BY <3>1, <3>2, <4>1
    <3>4. CancelInv' /\ ConnectionInvariant'
      BY <3>1, <3>2
    <3>5. Places' /\ BeforeConnect' /\ Remembered' /\ pc' \in [Threads -> Labels]
      BY <3>1, <3>2, <3>3
    <3> QED
      BY <3>1, <3>3, <3>4, <3>5
  <2>7. CASE BuildThrows
    BY <2>7 DEF BuildThrows, Lock
  <2> QED
    BY <2>1, <2>2, <2>3, <2>4, <2>5, <2>6, <2>7
<1> QED
  BY <1>3, <1>4 DEF BusInv, NotQueue, Types

\* Aborting, cancelling and throwing keep the invariant, whoever does it.
LEMMA AbortStep ==
  ASSUME BusInv, NEW t \in Threads,
         \/ AbortBuild /\ t = "adder"
         \/ t \in Readers /\ AbortRead(t)
         \/ CancelBus(t)
         \/ t # "stopper" /\ Throw(t)
  PROVE  BusInv'
<1> USE ThreadFacts
<1>1. queue \in Seq(Threads) /\ QueueInv /\ NotQueue
  BY DEF BusInv, NotQueue, Types
<1>2. pc \in [Threads -> Labels]
  BY <1>1 DEF NotQueue
<1>3. ASSUME NEW u \in Threads, NEW v \in Threads, pc[u] \in Inside, pc[v] \in Inside
      PROVE  u = v
  BY <1>1, <1>3 DEF QueueInv
<1>4. ASSUME Holds(t, "abort build") \/ Holds(t, "reading"), Abort(t, "cancel")
      PROVE  BusInv'
  <2>1. PICK l \in {"cancel", "thrown"} :
          /\ pc' = [pc EXCEPT ![t] = l]
          /\ l = "cancel" => connected
    BY <1>4 DEF Abort, Goto
  <2>2. QueueInv' /\ queue' \in Seq(Threads)
    BY <1>1, <1>2, <1>4, <2>1, HoldKeeps DEF Abort, Goto, Queueing
  <2>3. /\ connected' = FALSE /\ devices_to_deregister' = {}
        /\ registered' \subseteq registered
        /\ UNCHANGED <<known_devices, device, cancelled>>
        /\ pc[t] \in {"abort build", "reading"}
    BY <1>4 DEF Abort, StopConnection, Holds
  <2>4. CancelInv'
    BY <1>1, <1>2, <2>1, <2>3 DEF NotQueue, CancelInv
  <2>5. NotQueue'
    BY <1>1, <2>1, <2>3, <2>4
    DEF NotQueue, Places, BeforeConnect, Remembered, ConnectionInvariant, Labels
  <2> QED
    BY <2>2, <2>5 DEF BusInv, NotQueue, Types
<1>5. ASSUME CancelBus(t)
      PROVE  BusInv'
  <2>1. /\ pc' = [pc EXCEPT ![t] = "thrown"] /\ pc[t] = "cancel"
        /\ cancelled' = cancelled + 1
        /\ UNCHANGED <<queue, connected, devices_to_deregister, registered,
                        known_devices, device>>
    BY <1>5 DEF CancelBus, Goto, Holds, connection
  <2>2. QueueInv' /\ queue' \in Seq(Threads)
    BY <1>1, <1>2, <1>5, HoldKeeps DEF CancelBus, Queueing
  <2>3. ~ connected /\ cancelled = 0
    BY <1>1, <2>1 DEF NotQueue, CancelInv
  <2>4. cancelled' = 1
    BY <2>1, <2>3
  <2>5. \A u \in Threads : pc'[u] # "cancel"
    BY <1>2, <1>3, <2>1 DEF Inside
  <2>6. CancelInv'
    BY <2>1, <2>3, <2>4, <2>5 DEF CancelInv
  <2>7. cancelled' \in Nat
    BY <2>4
  <2>8. Places' /\ pc' \in [Threads -> Labels]
    BY <1>1, <1>2, <2>1 DEF NotQueue, Places, Labels
  <2>9. BeforeConnect' /\ Remembered' /\ ConnectionInvariant'
    BY <1>1, <2>1 DEF NotQueue, Places, BeforeConnect, Remembered,
        ConnectionInvariant
  <2>10. NotQueue'
    BY <1>1, <2>1, <2>6, <2>7, <2>8, <2>9 DEF NotQueue
  <2> QED
    BY <2>2, <2>10 DEF BusInv, NotQueue, Types
<1>6. ASSUME Throw(t), t # "stopper"
      PROVE  BusInv'
  <2>1. PICK l \in {"failed", "idle"} :
          Unlock(t, l) /\ (l = "failed" <=> t = "adder")
    BY <1>6 DEF Throw
  <2>2. QueueInv' /\ queue' \in Seq(Threads)
    BY <1>1, <1>2, <1>6, <2>1, UnlockKeeps DEF Throw, Queueing
  <2>3. /\ pc' = [pc EXCEPT ![t] = l]
        /\ UNCHANGED <<connected, devices_to_deregister, registered,
                        known_devices, device, cancelled>>
        /\ pc[t] = "thrown"
    BY <1>6, <2>1 DEF Throw, Unlock, Goto, Holds, connection
  <2>4. NotQueue'
    BY <1>1, <1>6, <2>1, <2>3
    DEF NotQueue, Places, BeforeConnect, CancelInv, Remembered,
        ConnectionInvariant, Labels
  <2> QED
    BY <2>2, <2>4 DEF BusInv, NotQueue, Types
<1> QED
  BY <1>4, <1>5, <1>6 DEF AbortBuild, AbortRead

\* So do the calls of read and stop.
LEMMA CallStep ==
  ASSUME BusInv,
         StopLocks \/ Stop \/ \E r \in Readers : CallRead(r) \/ Read(r) \/ ReadEnds(r)
  PROVE  BusInv'
<1> USE ThreadFacts
<1>1. queue \in Seq(Threads) /\ QueueInv /\ NotQueue
  BY DEF BusInv, NotQueue, Types
<1>2. pc \in [Threads -> Labels]
  BY <1>1 DEF NotQueue
<1>3. CASE StopLocks
  <2>1. QueueInv' /\ queue' \in Seq(Threads)
    BY <1>1, <1>2, <1>3, LockKeeps DEF StopLocks, Queueing, Inside
  <2>2. NotQueue'
    BY <1>1, <1>3
    DEF StopLocks, Lock, Goto, connection, NotQueue, Places, BeforeConnect,
        CancelInv, Remembered, ConnectionInvariant, Labels
  <2> QED
    BY <2>1, <2>2 DEF BusInv, NotQueue, Types
<1>4. CASE Stop
  <2>1. QueueInv' /\ queue' \in Seq(Threads)
    BY <1>1, <1>2, <1>4, UnlockKeeps DEF Stop, Queueing
  <2>2. NotQueue'
    BY <1>1, <1>4
    DEF Stop, Holds, StopConnection, Unlock, Goto, NotQueue, Places, BeforeConnect,
        CancelInv, Remembered, ConnectionInvariant, Labels
  <2> QED
    BY <2>1, <2>2 DEF BusInv, NotQueue, Types
<1>5. ASSUME NEW r \in Readers, CallRead(r)
      PROVE  BusInv'
  <2>1. QueueInv' /\ queue' \in Seq(Threads)
    BY <1>1, <1>2, <1>5, LockKeeps DEF CallRead, Queueing, Inside
  <2>2. NotQueue'
    BY <1>1, <1>5
    DEF CallRead, Lock, Goto, connection, NotQueue, Places, BeforeConnect,
        CancelInv, Remembered, ConnectionInvariant, Labels
  <2> QED
    BY <2>1, <2>2 DEF BusInv, NotQueue, Types
<1>6. ASSUME NEW r \in Readers, Read(r)
      PROVE  BusInv'
  <2>1. PICK l \in {"reading", "thrown"} : Goto(r, l)
    BY <1>6 DEF Read
  <2>2. QueueInv' /\ queue' \in Seq(Threads)
    BY <1>1, <1>2, <1>6, <2>1, HoldKeeps DEF Read, Queueing
  <2>3. NotQueue'
    BY <1>1, <1>6, <2>1
    DEF Read, Holds, Goto, connection, NotQueue, Places, BeforeConnect,
        CancelInv, Remembered, ConnectionInvariant, Labels
  <2> QED
    BY <2>2, <2>3 DEF BusInv, NotQueue, Types
<1>7. ASSUME NEW r \in Readers, ReadEnds(r)
      PROVE  BusInv'
  <2>1. QueueInv' /\ queue' \in Seq(Threads)
    BY <1>1, <1>2, <1>7, UnlockKeeps DEF ReadEnds, Queueing
  <2>2. NotQueue'
    BY <1>1, <1>7
    DEF ReadEnds, Holds, Unlock, Goto, connection, NotQueue, Places, BeforeConnect,
        CancelInv, Remembered, ConnectionInvariant, Labels
  <2> QED
    BY <2>1, <2>2 DEF BusInv, NotQueue, Types
<1> QED
  BY <1>3, <1>4, <1>5, <1>6, <1>7

\* Every step, and every stutter, keeps the invariant.
LEMMA NextInv == BusInv /\ [Next]_vars => BusInv'
<1> SUFFICES ASSUME BusInv, [Next]_vars PROVE BusInv'
  OBVIOUS
<1> USE ThreadFacts
<1>1. CASE UNCHANGED vars
  <2> USE DEF vars
  <2>1. Types' /\ QueueInv' /\ Places'
    BY <1>1 DEF BusInv, Types, QueueInv, Places
  <2>2. BeforeConnect' /\ CancelInv' /\ Remembered' /\ ConnectionInvariant'
    BY <1>1 DEF BusInv, BeforeConnect, CancelInv, Remembered, ConnectionInvariant
  <2> QED
    BY <2>1, <2>2 DEF BusInv
<1>2. CASE Adder \/ ConnectFails \/ BuildThrows
  BY <1>2, AdderStep, AbortStep DEF Adder
<1>3. CASE \E r \in Readers : CallRead(r) \/ Reading(r)
  BY <1>3, CallStep, AbortStep DEF Reading
<1>4. CASE StopLocks \/ Stop
  BY <1>4, CallStep
<1> QED
  BY <1>1, <1>2, <1>3, <1>4 DEF Next

\* The invariant holds in every state of a bus.
THEOREM BusInvariant == Spec => []BusInv
<1>1. Init => BusInv
  BY InitInv
<1>2. BusInv /\ [Next]_vars => BusInv'
  BY NextInv
<1> QED
  BY <1>1, <1>2, PTL DEF Spec

-----------------------------------------------------------------------------
(* What follows from it                                                    *)

\* The queue of connection_ never holds more than all threads, and all
\* variables have their types.
THEOREM TypeCorrect == Spec => []TypeOK
<1>1. BusInv => TypeOK
  <2> SUFFICES ASSUME BusInv PROVE TypeOK
    OBVIOUS
  <2>1. Types /\ QueueInv
    BY DEF BusInv
  <2>2. IsFiniteSet(Threads)
    <3>1. IsFiniteSet(Readers \cup {"adder"})
      BY ReadersType, FS_AddElement
    <3>2. IsFiniteSet((Readers \cup {"adder"}) \cup {"stopper"})
      BY <3>1, FS_AddElement
    <3> QED
      BY <3>2 DEF Threads
  <2>3. queue \in Injection(1 .. Len(queue), Threads)
    BY <2>1 DEF Types, QueueInv, Injection, IsInjective
  <2>4. Len(queue) \in Nat
    BY <2>1 DEF Types
  <2>5. Cardinality(1 .. Len(queue)) = Len(queue)
    <3>1. 1 \in Int /\ Len(queue) \in Int
      BY <2>4
    <3>2. Cardinality(1 .. Len(queue))
            = IF 1 > Len(queue) THEN 0 ELSE Len(queue) - 1 + 1
      BY <3>1, FS_Interval
    <3> QED
      BY <2>4, <3>2
  <2>6. Len(queue) <= Cardinality(Threads)
    BY <2>2, <2>3, <2>5, FS_Injection
  <2> QED
    BY <2>1, <2>6 DEF Types, TypeOK
<1>2. QED
  BY <1>1, BusInvariant, PTL

\* Bus.hpp:33: cancelBus is called at most once, after the connection was closed.
\* Who is about to call it has the lock, and has itself closed the connection.
THEOREM CancelledOnceCorrect == Spec => []CancelledOnce
<1>1. BusInv => CancelledOnce
  <2> SUFFICES ASSUME BusInv PROVE CancelledOnce
    OBVIOUS
  <2> DEFINE C == {t \in Threads : pc[t] = "cancel"}
  <2>1. CancelInv /\ QueueInv
    BY DEF BusInv
  <2>2. \A t, u \in C : t = u
    BY <2>1 DEF QueueInv, Inside
  <2>3. CASE C = {}
    <3>1. Cardinality(C) = 0
      BY <2>3, FS_EmptySet
    <3> QED
      BY <2>1, <3>1 DEF CancelledOnce, CancelInv
  <2>4. CASE C # {}
    <3>1. PICK t : C = {t}
      BY <2>2, <2>4
    <3>2. Cardinality(C) = 1
      BY <3>1, FS_Singleton
    <3>3. ~ connected /\ cancelled = 0
      BY <2>1, <2>4 DEF CancelInv
    <3> QED
      BY <3>2, <3>3 DEF CancelledOnce
  <2> QED
    BY <2>3, <2>4
<1>2. QED
  BY <1>1, BusInvariant, PTL

\* Bus.hpp:70: devices_to_deregister is empty unless connected; while connected,
\* it has all registered devices, although a device is registered without the lock.
THEOREM ConnectionCorrect == Spec => []ConnectionInvariant
<1>1. BusInv => ConnectionInvariant
  BY DEF BusInv
<1> QED
  BY <1>1, BusInvariant, PTL

-----------------------------------------------------------------------------
(* The bus implements the connection that its owner sees                   *)

\* There is at most one thread that is about to call cancelBus: it has the lock.
LEMMA OneIsInside ==
  ASSUME BusInv, NEW t \in Threads, NEW u \in Threads,
         pc[t] \in Inside, pc[u] \in Inside \/ Holds(u, pc[u])
  PROVE  t = u
BY DEF BusInv, QueueInv, Holds

\* The owner sees nothing of a step that leaves the connection alone, and neither
\* connects nor has to do with cancelBus.
LEMMA NothingSeen ==
  ASSUME pc \in [Threads -> Labels], NEW t \in Threads, NEW label,
         pc' = [pc EXCEPT ![t] = label], UNCHANGED <<connected, registered>>,
         pc[t] # "cancel" /\ label # "cancel",
         t = "adder" => (pc[t] \in {"start", "connect"} <=> label \in {"start", "connect"})
  PROVE  UNCHANGED Abstract!vars
<1> USE ThreadFacts
<1>1. ASSUME NEW u \in Threads PROVE pc'[u] = "cancel" <=> pc[u] = "cancel"
  BY <1>1
<1>2. pc'["adder"] \in {"start", "connect"} <=> pc["adder"] \in {"start", "connect"}
  BY DEF Labels
<1> QED
  BY <1>1, <1>2 DEF Abstract!vars, OwnersView

\* Once the connection is closed, closing it again deregisters nothing.
LEMMA NothingToDeregister ==
  ASSUME BusInv, ~ connected
  PROVE  registered \ devices_to_deregister = registered
<1>1. devices_to_deregister = {}
  BY DEF BusInv, ConnectionInvariant
<1> QED
  BY <1>1

\* Whoever aborts closes the connection and has the bus cancelled, or finds the
\* connection closed.
LEMMA AbortSeen ==
  ASSUME BusInv, NEW t \in Threads, Abort(t, "cancel"),
         Holds(t, "abort build") \/ Holds(t, "reading")
  PROVE  [Abstract!Next]_Abstract!vars
<1>1. /\ pc \in [Threads -> Labels] /\ pc[t] \in {"abort build", "reading"}
      /\ connected' = FALSE /\ registered' = registered \ devices_to_deregister
  BY DEF BusInv, Types, Holds, Abort, StopConnection
<1>2. CASE connected
  <2>1. registered' = {}
    BY <1>1, <1>2 DEF BusInv, ConnectionInvariant
  <2>2. pc' = [pc EXCEPT ![t] = "cancel"]
    BY <1>2 DEF Abort, Goto
  <2>3. OwnersView = "open" /\ OwnersView' = "lost"
    BY <1>1, <1>2, <2>2 DEF OwnersView
  <2> QED
    BY <2>1, <2>3 DEF Abstract!Next, Abstract!Lose, Abstract!Close
<1>3. CASE ~ connected
  <2>1. UNCHANGED <<connected, registered>>
    BY <1>1, <1>3, NothingToDeregister DEF BusInv, Types
  <2>2. pc' = [pc EXCEPT ![t] = "thrown"]
    BY <1>3 DEF Abort, Goto
  <2> QED
    BY <1>1, <2>1, <2>2, NothingSeen
<1> QED
  BY <1>2, <1>3 DEF BusInv, Types

\* What the starting thread does is a step of the connection, or not seen.
LEMMA AdderSeen ==
  ASSUME BusInv,
         StartLocks \/ Connect \/ ConnectFails \/ BuildDevice \/ Remember
           \/ Registrate \/ BuildThrows
  PROVE  [Abstract!Next]_Abstract!vars
<1> USE ThreadFacts
<1>1. pc \in [Threads -> Labels] /\ connected \in BOOLEAN
  BY DEF BusInv, Types
<1>2. CASE StartLocks
  BY <1>1, <1>2, NothingSeen DEF StartLocks, Lock, Goto, connection
<1>3. ASSUME pc["adder"] = "connect"
      PROVE  ~ connected /\ registered = {} /\ OwnersView = "new"
  <2>1. ~ connected /\ registered = {} /\ \A t \in Threads : pc[t] # "cancel"
    BY <1>3 DEF BusInv, BeforeConnect, Types
  <2> QED
    BY <1>3, <2>1 DEF OwnersView
<1>4. CASE Connect
  <2>1. pc["adder"] = "connect" /\ connected' = TRUE /\ UNCHANGED registered
    BY <1>4 DEF Connect, Holds
  <2>2. OwnersView' = "open"
    BY <2>1 DEF OwnersView
  <2> QED
    BY <1>3, <2>1, <2>2 DEF Abstract!Next, Abstract!Open
<1>5. CASE ConnectFails
  <2>1. /\ pc["adder"] = "connect" /\ UNCHANGED <<connected, registered>>
        /\ pc' = [pc EXCEPT !["adder"] = "failed"]
    BY <1>5 DEF ConnectFails, Holds, Unlock, Goto, connection
  <2>2. \A t \in Threads : pc'[t] # "cancel"
    BY <1>1, <2>1 DEF BusInv, BeforeConnect
  <2>3. OwnersView' = "closed"
    BY <1>1, <1>3, <2>1, <2>2 DEF OwnersView
  <2> QED
    BY <1>3, <2>1, <2>3 DEF Abstract!Next, Abstract!OpenFails
<1>6. CASE BuildDevice
  BY <1>1, <1>6, NothingSeen DEF BuildDevice, Lock, Goto, connection
<1>7. CASE Remember
  BY <1>1, <1>7, NothingSeen DEF Remember, Holds, Unlock, Goto
<1>8. CASE Registrate
  <2>1. /\ pc["adder"] = "registrate" /\ registered' = registered \cup {device}
        /\ connected' = connected /\ device \in Devices
    BY <1>8 DEF Registrate, BusInv, Remembered
  <2>2. PICK l \in {"started", "build"} : pc' = [pc EXCEPT !["adder"] = l]
    BY <1>8 DEF Registrate, Goto
  <2>3. ASSUME NEW t \in Threads PROVE pc'[t] = "cancel" <=> pc[t] = "cancel"
    BY <1>1, <2>1, <2>2, <2>3
  <2>4. OwnersView' = OwnersView /\ OwnersView # "new"
    BY <1>1, <2>1, <2>2, <2>3 DEF OwnersView
  <2> QED
    BY <2>1, <2>4 DEF Abstract!Next, Abstract!Registrate
<1>9. CASE BuildThrows
  <2>1. PICK from \in {"build", "registrate"} : Lock("adder", from, "abort build")
    BY <1>9 DEF BuildThrows
  <2>2. UNCHANGED <<connected, registered>>
    BY <1>9 DEF BuildThrows, connection
  <2> QED
    BY <1>1, <2>1, <2>2, NothingSeen DEF Lock, Goto
<1> QED
  BY <1>2, <1>4, <1>5, <1>6, <1>7, <1>8, <1>9

\* So is the call of cancelBus: the thread which makes it is the only one.
LEMMA CancelSeen ==
  ASSUME BusInv, NEW t \in Threads, CancelBus(t)
  PROVE  [Abstract!Next]_Abstract!vars
<1>1. /\ pc \in [Threads -> Labels] /\ pc[t] = "cancel" /\ Holds(t, "cancel")
      /\ pc' = [pc EXCEPT ![t] = "thrown"]
      /\ UNCHANGED <<connected, registered>>
  BY DEF BusInv, Types, CancelBus, Holds, Goto, connection
<1>2. ~ connected /\ pc["adder"] \notin {"start", "connect"}
  BY <1>1, ThreadFacts DEF BusInv, CancelInv, BeforeConnect
<1>3. \A u \in Threads : pc'[u] # "cancel"
  BY <1>1, OneIsInside DEF Inside
<1>4. pc'["adder"] \notin {"start", "connect"}
  BY <1>1, <1>2, ThreadFacts
<1>5. OwnersView = "lost" /\ OwnersView' = "closed"
  BY <1>1, <1>2, <1>3, <1>4 DEF OwnersView
<1> QED
  BY <1>1, <1>5 DEF Abstract!Next, Abstract!CancelBus

\* Stopping closes the connection, unless it is closed; it is not lost any more.
LEMMA StopSeen ==
  ASSUME BusInv, Stop
  PROVE  [Abstract!Next]_Abstract!vars
<1> USE ThreadFacts
<1>1. /\ pc \in [Threads -> Labels] /\ pc["stopper"] = "stop" /\ Holds("stopper", "stop")
      /\ connected' = FALSE /\ registered' = registered \ devices_to_deregister
      /\ pc' = [pc EXCEPT !["stopper"] = "stopped"]
  BY DEF BusInv, Types, Stop, Holds, StopConnection, Unlock, Goto
<1>2. CASE connected
  <2>1. registered' = {}
    BY <1>1, <1>2 DEF BusInv, ConnectionInvariant
  <2>2. \A t \in Threads : pc'[t] # "cancel"
    BY <1>1, <1>2 DEF BusInv, CancelInv
  <2>3. pc'["adder"] \notin {"start", "connect"}
    BY <1>1, <1>2 DEF BusInv, BeforeConnect
  <2>4. OwnersView = "open" /\ OwnersView' = "closed"
    BY <1>1, <1>2, <2>2, <2>3 DEF OwnersView
  <2> QED
    BY <2>1, <2>4 DEF Abstract!Next, Abstract!Stop, Abstract!Close
<1>3. CASE ~ connected
  <2>1. UNCHANGED <<connected, registered>>
    BY <1>1, <1>3, NothingToDeregister DEF BusInv, Types
  <2> QED
    BY <1>1, <2>1, NothingSeen
<1> QED
  BY <1>2, <1>3 DEF BusInv, Types

\* Every step of the bus is one of the connection, or not seen.
LEMMA StepSeen == BusInv /\ [Next]_vars => [Abstract!Next]_Abstract!vars
<1> SUFFICES ASSUME BusInv, [Next]_vars PROVE [Abstract!Next]_Abstract!vars
  OBVIOUS
<1> USE ThreadFacts
<1>1. pc \in [Threads -> Labels]
  BY DEF BusInv, Types
<1>2. CASE UNCHANGED vars
  BY <1>2 DEF vars, Abstract!vars, OwnersView
<1>3. CASE StartLocks \/ Connect \/ ConnectFails \/ BuildDevice \/ Remember
             \/ Registrate \/ BuildThrows
  BY <1>3, AdderSeen
<1>4. CASE AbortBuild \/ \E r \in Readers : AbortRead(r)
  BY <1>4, AbortSeen DEF AbortBuild, AbortRead
<1>5. ASSUME NEW t \in Threads, CancelBus(t)
      PROVE  [Abstract!Next]_Abstract!vars
  BY <1>5, CancelSeen
<1>6. ASSUME NEW t \in Threads, Throw(t)
      PROVE  [Abstract!Next]_Abstract!vars
  BY <1>1, <1>6, NothingSeen DEF Throw, Holds, Unlock, Goto, connection
<1>7. ASSUME NEW r \in Readers, CallRead(r) \/ Read(r) \/ ReadEnds(r)
      PROVE  [Abstract!Next]_Abstract!vars
  <2>1. PICK l \in {"read", "reading", "thrown", "idle"} : pc' = [pc EXCEPT ![r] = l]
    BY <1>7 DEF CallRead, Read, ReadEnds, Lock, Unlock, Goto
  <2>2. UNCHANGED <<connected, registered>> /\ pc[r] # "cancel"
    BY <1>7 DEF CallRead, Read, ReadEnds, Lock, Holds, connection
  <2> QED
    BY <1>1, <2>1, <2>2, NothingSeen
<1>8. CASE StopLocks
  BY <1>1, <1>8, NothingSeen DEF StopLocks, Lock, Goto, connection
<1>9. CASE Stop
  BY <1>9, StopSeen
<1> QED
  BY <1>2, <1>3, <1>4, <1>5, <1>6, <1>7, <1>8, <1>9 DEF Next, Adder, Reading

\* Bus.hpp's promises, together: the bus connects at most once, closes the connection
\* once with everything that is registered, and has itself cancelled just if nobody
\* stopped it, before anyone can.
THEOREM ConnectionRefinement == Spec => ImplementsConnection
<1>1. Init => Abstract!Init
  <2> SUFFICES ASSUME Init PROVE Abstract!Init
    OBVIOUS
  <2> USE ThreadFacts
  <2>1. ~ connected /\ pc["adder"] = "start" /\ \A t \in Threads : pc[t] # "cancel"
    BY DEF Init
  <2> QED
    BY <2>1 DEF Init, OwnersView, Abstract!Init
<1>2. BusInv /\ [Next]_vars => [Abstract!Next]_Abstract!vars
  BY StepSeen
<1> QED
  BY <1>1, <1>2, BusInvariant, PTL DEF Spec, ImplementsConnection, Abstract!Spec

=============================================================================
