--------------------------------- MODULE Bus ---------------------------------
(***************************************************************************)
(* One bus while it is connected (class Bus): the adapter's thread that    *)
(* starts it and registers its devices, the threads that read metrics of   *)
(* the registered devices, and the thread that stops the bus.  All of them *)
(* use the connection under the lock of connection_, a QueuedMutex.        *)
(***************************************************************************)
EXTENDS Naturals, Sequences, FiniteSets

CONSTANTS
  NumDevices,     \* config_->devices, in the order in which they are registered
  Readers,        \* bound: threads that read metrics
  BuildFails      \* whether the device builder or the registry may throw

ASSUME NumDevicesType == NumDevices \in Nat \ {0}
ASSUME BuildFailsType == BuildFails \in BOOLEAN
ASSUME ReadersType ==
  /\ "adder" \notin Readers /\ "stopper" \notin Readers
  /\ IsFiniteSet(Readers)

VARIABLES
  queue,                  \* threads that have or wait for connection_, in order
  connected,              \* Connection::connected
  devices_to_deregister,  \* Connection::devices_to_deregister
  registered,             \* the devices in model_registry_
  known_devices,          \* devices that somebody may hold for reading
  device,                 \* the device that buildModel is about
  pc,                     \* per thread: where it is
  cancelled               \* how often owner_.cancelBus has been called

vars == <<queue, connected, devices_to_deregister, registered, known_devices,
          device, pc, cancelled>>

Devices == 1 .. NumDevices
Threads == Readers \cup {"adder", "stopper"}

Init ==
  /\ queue = <<>>
  /\ connected = FALSE
  /\ devices_to_deregister = {}
  /\ registered = {}
  /\ known_devices = {}
  /\ device = 0
  /\ pc = [t \in Threads |-> IF t = "adder" THEN "start" ELSE "idle"]
  /\ cancelled = 0

-----------------------------------------------------------------------------
(* connection_.lock() appends to the queue; the lock is held by its head.  *)

Goto(t, label) == pc' = [pc EXCEPT ![t] = label]

Lock(t, from, label) ==
  /\ pc[t] = from
  /\ queue' = Append(queue, t)
  /\ Goto(t, label)

Holds(t, label) == pc[t] = label /\ queue # <<>> /\ Head(queue) = t

Unlock(t, label) == queue' = Tail(queue) /\ Goto(t, label)

connection == <<connected, devices_to_deregister, registered>>

\* mutated: nothing is deregistered
ForgetConnection ==
  /\ devices_to_deregister' = {}
  /\ connected' = FALSE
  /\ UNCHANGED registered

\* stop(accessor): deregister everything and close
StopConnection ==
  /\ registered' = registered \ devices_to_deregister
  /\ devices_to_deregister' = {}
  /\ connected' = FALSE

-----------------------------------------------------------------------------
(* start and buildModel                                                    *)

StartLocks ==
  /\ Lock("adder", "start", "connect")
  /\ UNCHANGED <<connection, known_devices, device, cancelled>>

Connect ==
  /\ Holds("adder", "connect")
  /\ connected' = TRUE
  /\ device' = 1
  /\ Unlock("adder", "build")
  /\ UNCHANGED <<devices_to_deregister, registered, known_devices, cancelled>>

\* connect() throws: start throws, and the owner forgets the bus
ConnectFails ==
  /\ Holds("adder", "connect")
  /\ Unlock("adder", "failed")
  /\ UNCHANGED <<connection, known_devices, device, cancelled>>

\* buildGroup etc. for the device, and then the lock
BuildDevice ==
  /\ Lock("adder", "build", "remember")
  /\ UNCHANGED <<connection, known_devices, device, cancelled>>

Remember ==
  /\ Holds("adder", "remember")
  /\ devices_to_deregister' =
       IF connected THEN devices_to_deregister \cup {device}
                    ELSE devices_to_deregister
  /\ Unlock("adder", "registrate")
  /\ UNCHANGED <<connected, registered, known_devices, device, cancelled>>

\* mutated: one device too many
RegistrateMore ==
  /\ pc["adder"] = "registrate"
  /\ registered' = registered \cup {device}
  /\ known_devices' = known_devices \cup {device}
  /\ IF device > NumDevices
     THEN Goto("adder", "started") /\ UNCHANGED device
     ELSE Goto("adder", "build") /\ device' = device + 1
  /\ UNCHANGED <<queue, connected, devices_to_deregister, cancelled>>

\* model_registry_->registrate is called without the lock
Registrate ==
  /\ pc["adder"] = "registrate"
  /\ registered' = registered \cup {device}
  /\ known_devices' = known_devices \cup {device}
  /\ IF device = NumDevices
     THEN Goto("adder", "started") /\ UNCHANGED device
     ELSE Goto("adder", "build") /\ device' = device + 1
  /\ UNCHANGED <<queue, connected, devices_to_deregister, cancelled>>

\* The builder, or the registry, throws
BuildThrows ==
  /\ BuildFails
  /\ \E from \in {"build", "registrate"} : Lock("adder", from, "abort build")
  /\ UNCHANGED <<connection, known_devices, device, cancelled>>

-----------------------------------------------------------------------------
(* abort: stop the connection and, if it was open, have the bus cancelled, *)
(* all under the lock                                                      *)

\* mutated: was_connected is not asked
AbortAnyway(t, label) ==
  /\ StopConnection
  /\ Goto(t, label)
  /\ UNCHANGED <<queue, known_devices, device, cancelled>>

\* mutated: connected is read after stop(accessor)
AbortLate(t, label) ==
  /\ StopConnection
  /\ Goto(t, IF connected' THEN label ELSE "thrown")
  /\ UNCHANGED <<queue, known_devices, device, cancelled>>

\* mutated: it locks again, and so waits for itself
AbortLocksAgain(t, label) ==
  /\ Lock(t, pc[t], "waiting")
  /\ UNCHANGED <<connection, known_devices, device, cancelled>>

Abort(t, label) ==
  /\ StopConnection
  /\ Goto(t, IF connected THEN label ELSE "thrown")
  /\ UNCHANGED <<queue, known_devices, device, cancelled>>

AbortBuild == Holds("adder", "abort build") /\ Abort("adder", "cancel")

\* A read has failed after its retries (Readcallback)
AbortRead(r) == Holds(r, "reading") /\ Abort(r, "cancel")

CancelBus(t) ==
  /\ Holds(t, "cancel")
  /\ cancelled' = cancelled + 1
  /\ Goto(t, "thrown")
  /\ UNCHANGED <<queue, connection, known_devices, device>>

\* The exception releases the lock
Throw(t) ==
  /\ Holds(t, "thrown")
  /\ Unlock(t, IF t = "adder" THEN "failed" ELSE "idle")
  /\ UNCHANGED <<connection, known_devices, device, cancelled>>

-----------------------------------------------------------------------------
(* Readcallback::operator()                                                *)

CallRead(r) ==
  /\ known_devices # {}
  /\ Lock(r, "idle", "read")
  /\ UNCHANGED <<connection, known_devices, device, cancelled>>

\* Without a connection, the call throws
Read(r) ==
  /\ Holds(r, "read")
  /\ Goto(r, IF connected THEN "reading" ELSE "thrown")
  /\ UNCHANGED <<queue, connection, known_devices, device, cancelled>>

\* All bursts are read, or selectDevice throws, which aborts nothing
ReadEnds(r) ==
  /\ Holds(r, "reading")
  /\ Unlock(r, "idle")
  /\ UNCHANGED <<connection, known_devices, device, cancelled>>

-----------------------------------------------------------------------------
(* stop, which the adapter calls when start has returned; so does ~Bus,    *)
(* when no thread uses the bus any more                                    *)

StopLocks ==
  /\ pc["adder"] = "started"
  /\ Lock("stopper", "idle", "stop")
  /\ UNCHANGED <<connection, known_devices, device, cancelled>>

Stop ==
  /\ Holds("stopper", "stop")
  /\ StopConnection
  /\ Unlock("stopper", "stopped")
  /\ UNCHANGED <<known_devices, device, cancelled>>

Adder ==
  \/ StartLocks \/ Connect \/ BuildDevice \/ Remember \/ Registrate
  \/ AbortBuild \/ CancelBus("adder") \/ Throw("adder")

Reading(r) ==
  \/ Read(r) \/ ReadEnds(r) \/ AbortRead(r) \/ CancelBus(r) \/ Throw(r)

Next ==
  \/ Adder \/ ConnectFails \/ BuildThrows
  \/ \E r \in Readers : CallRead(r) \/ Reading(r)
  \/ StopLocks \/ Stop

\* Threads that have called an operation run; who calls read again and again
\* need not let others pass, but the queue of the lock does.
Fairness ==
  /\ WF_vars(Adder)
  /\ \A r \in Readers : WF_vars(Reading(r))
  /\ WF_vars(Stop)

Spec == Init /\ [][Next]_vars
FairSpec == Spec /\ Fairness

-----------------------------------------------------------------------------

Labels == {"idle", "start", "connect", "build", "remember", "registrate",
           "started", "abort build", "cancel", "thrown", "failed", "read",
           "reading", "stop", "stopped"}

\* Type invariant of all variables.
TypeOK ==
  /\ queue \in Seq(Threads) /\ Len(queue) <= Cardinality(Threads)
  /\ connected \in BOOLEAN
  /\ devices_to_deregister \subseteq Devices
  /\ registered \subseteq known_devices
  /\ known_devices \subseteq Devices
  /\ device \in Devices \cup {0}
  /\ pc \in [Threads -> Labels]
  /\ cancelled \in Nat

Started == pc["adder"] \in {"started", "failed"}

\* Bus.hpp:33: cancelBus is called at most once in the lifetime of the bus,
\* and only if the connection has been closed.
CancelledOnce ==
  LET calls == cancelled + Cardinality({t \in Threads : pc[t] = "cancel"})
  IN calls <= 1 /\ (calls = 1 => ~ connected)

\* The connection and the registry agree: devices_to_deregister is empty unless
\* connected (Bus.hpp:70), and contains what is registered while connected.
ConnectionInvariant ==
  IF connected THEN registered \subseteq devices_to_deregister
               ELSE devices_to_deregister = {}

\* The connection as the owner sees it: it is lost until the thread that has
\* closed it has called cancelBus.
OwnersView ==
  IF connected THEN "open"
  ELSE IF \E t \in Threads : pc[t] = "cancel" THEN "lost"
  ELSE IF pc["adder"] \in {"start", "connect"} THEN "new"
  ELSE "closed"

\* Bus.hpp:31-59: whatever starts, reads and stops the bus at the same time, it is
\* connected at most once; the connection is closed once, with all devices that are
\* registered by then; and cancelBus is called just if this was not done by stop.
Abstract == INSTANCE BusConnection WITH
  connection <- OwnersView, served <- registered
ImplementsConnection == Abstract!Spec

\* Whoever calls read, start or stop gets an answer or an exception, no matter
\* how often others read.
CallsReturn ==
  /\ \A r \in Readers : pc[r] = "read" ~> pc[r] = "idle"
  /\ pc["adder"] = "connect" ~> Started
  /\ pc["stopper"] = "stop" ~> pc["stopper"] = "stopped"

\* A bus whose connection is lost is cancelled, unless it was stopped, so that
\* it is searched for again.
LostIsCancelled ==
  (~ connected /\ device # 0) ~> (cancelled = 1 \/ pc["stopper"] = "stopped")

\* Bus.hpp, abort: "Deregisters all devices".  Whoever closes the connection,
\* no device is registered when it is closed and start is over.
ClosedIsDeregistered == ~ connected /\ Started => registered = {}

=============================================================================
