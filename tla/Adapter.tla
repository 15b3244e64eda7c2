------------------------------- MODULE Adapter -------------------------------
(***************************************************************************)
(* The adapter (ModbusTechnologyAdapterImplementation) with its PortFinder *)
(* and its buses: a main thread that starts and stops the adapter, the     *)
(* callback threads of the ports, which add the buses that are found, and  *)
(* threads that read a bus and have it cancelled when it fails.  Of a bus  *)
(* only its connection is modelled (Bus has the details).  Buses are       *)
(* plugged into ports, and whoever looks for a bus finds it where all its  *)
(* registers can be read.                                                  *)
(*                                                                         *)
(* The model ends, with a reason in `derailed', where the code has         *)
(* undefined behaviour (an iterator that is end() is used), and where a    *)
(* thread or a search that has survived a stop() goes on with the previous *)
(* plan or meddles with what follows.                                      *)
(***************************************************************************)
EXTENDS PortFinder

CONSTANTS
  main,          \* the thread that starts and stops the adapter
  Plugged,       \* where each port's bus is plugged in at the start
  ThrowsLate,    \* whether building the model may throw
  MaxFailures,   \* bound: failing buses and failing calls of addBus
  MaxStarts,     \* bound: calls of start
  MaxMoves       \* bound: how often buses are moved to other ports

ASSUME MainType == main \in Threads
ASSUME PluggedType ==
  /\ Plugged \in [Ports -> Buses \cup {NoBus}]
  /\ \A p, q \in Ports : p # q /\ Plugged[p] # NoBus => Plugged[p] # Plugged[q]
ASSUME BoundsType ==
  ThrowsLate \in BOOLEAN /\ {MaxFailures, MaxStarts, MaxMoves} \subseteq Nat

VARIABLES
  stopping,        \* stopping_
  stopping_locked, \* whether a thread in addBus holds the lock of stopping_
  buses,           \* buses_: for each port, its bus
  buses_copy,      \* buses_copy in stop
  up,              \* buses whose connection is open, with their ports
  throwing,        \* the threads in cancelBus from an addBus that will throw
  outdated,        \* the threads that have survived a stop
  thrown,          \* whether building a model has thrown
  derailed,        \* why the model ends
  plugged,         \* per port: the bus which is connected to it
  failures, starts, moves

adapterVars == <<stopping, stopping_locked, buses, buses_copy, up, throwing, outdated>>
worldVars == <<plugged, failures, starts, moves, thrown>>
vars == <<finderVars, adapterVars, derailed, worldVars>>

Workers == Threads \ {main}

Init ==
  /\ FinderInit
  /\ stopping = FALSE /\ stopping_locked = FALSE
  /\ buses = [p \in Ports |-> NoBus] /\ buses_copy = {}
  /\ up = {} /\ throwing = {} /\ outdated = {}
  /\ derailed = "no"
  /\ plugged = Plugged
  /\ failures = 0 /\ starts = 0 /\ moves = 0 /\ thrown = FALSE

-----------------------------------------------------------------------------
(* start and stop                                                          *)

\* What starts while a search is left over is not modelled
Start ==
  /\ pc[main] = "idle" /\ starts < MaxStarts /\ ports = {}
  /\ AddAllBuses(main)
  /\ starts' = starts + 1
  /\ UNCHANGED <<adapterVars, plugged, failures, moves, thrown>>

Started ==
  /\ Added(main, "add buses")
  /\ Goto(main, "started")
  /\ UNCHANGED <<planVars, portVars, job, todo, callbacks, adapterVars, worldVars>>

\* mutated: a thread that is in addBus is not waited for
StopAtOnce ==
  /\ pc[main] = "started"
  /\ stopping' = TRUE
  /\ Goto(main, "stopping")
  /\ UNCHANGED <<planVars, portVars, job, todo, callbacks, stopping_locked, buses,
                 buses_copy, up, throwing, outdated, worldVars>>

\* "From now on, no thread can be in the main part of addBus"
StopAdding ==
  /\ pc[main] = "started" /\ ~ stopping_locked
  /\ stopping' = TRUE
  /\ Goto(main, "stopping")
  /\ UNCHANGED <<planVars, portVars, job, todo, callbacks, stopping_locked, buses,
                 buses_copy, up, throwing, outdated, worldVars>>

TakeBuses ==
  /\ pc[main] = "stopping"
  /\ buses_copy' = {<<buses[p], p>> : p \in {q \in Ports : buses[q] # NoBus}}
  /\ buses' = [p \in Ports |-> NoBus]
  /\ Goto(main, "stop buses")
  /\ UNCHANGED <<planVars, portVars, job, todo, callbacks, stopping, stopping_locked,
                 up, throwing, outdated, worldVars>>

\* Bus::stop waits for a reader that is about to cancel the bus
StopBus(c) ==
  /\ pc[main] = "stop buses" /\ c \in buses_copy
  /\ \A t \in Threads : pc[t] = "cancel" => job[t] # c
  /\ up' = up \ {c}
  /\ buses_copy' = buses_copy \ {c}
  /\ UNCHANGED <<finderVars, stopping, stopping_locked, buses, throwing, outdated, worldVars>>

\* port_finder_.reset(): the ports first ...
ResetPorts ==
  /\ \/ pc[main] = "stop buses" /\ buses_copy = {} /\ LockPorts(main)
     \/ \E p \in Ports : ClearPort(main, p)
     \/ PortsCleared(main)
  /\ UNCHANGED <<adapterVars, worldVars>>

\* ... and then the plan.  A reader may have added candidates in between, so that
\* there are ports again, whose searches and callbacks use the previous plan.
ResetPlan ==
  /\ NewPlan(main)
  /\ outdated' = {t \in Workers : pc[t] # "idle"}
  /\ UNCHANGED <<stopping, stopping_locked, buses, buses_copy, up, throwing, worldVars>>

Stopped ==
  /\ pc[main] = "reset" /\ ~ stopping_locked
  /\ stopping' = FALSE
  /\ Goto(main, "idle")
  /\ UNCHANGED <<planVars, portVars, job, todo, callbacks, stopping_locked, buses,
                 buses_copy, up, throwing, outdated, worldVars>>

-----------------------------------------------------------------------------
(* addBus, called by confirmCandidate when all candidates are added        *)

AddBus(t) ==
  /\ Added(t, "confirmed") /\ ~ stopping_locked /\ ~ stopping
  /\ stopping_locked' = TRUE
  /\ buses' = [buses EXCEPT ![job[t][2]] = job[t][1]]   \* insert_or_assign
  /\ Goto(t, "add bus")
  /\ UNCHANGED <<planVars, portVars, job, todo, callbacks, stopping, buses_copy, up,
                 throwing, outdated, worldVars>>

\* mutated: the lock is not released
AddNothingLocked(t) ==
  /\ Added(t, "confirmed") /\ ~ stopping_locked /\ stopping
  /\ stopping_locked' = TRUE
  /\ End(t)
  /\ UNCHANGED <<planVars, portVars, stopping, buses, buses_copy, up, throwing,
                 outdated, worldVars>>

\* Don't add anything while stopping
AddNothing(t) ==
  /\ Added(t, "confirmed") /\ ~ stopping_locked /\ stopping
  /\ End(t)
  /\ outdated' = outdated \ {t}
  /\ UNCHANGED <<planVars, portVars, stopping, stopping_locked, buses, buses_copy, up,
                 throwing, worldVars>>

\* Bus::start connects, and then builds the model, while others may read
Connect(t) ==
  /\ pc[t] = "add bus"
  /\ up' = up \cup {job[t]}
  /\ Goto(t, "build model")
  /\ UNCHANGED <<planVars, portVars, job, todo, callbacks, stopping, stopping_locked,
                 buses, buses_copy, throwing, outdated, worldVars>>

BusAdded(t) ==
  /\ pc[t] = "build model"
  /\ stopping_locked' = FALSE
  /\ End(t)
  /\ UNCHANGED <<planVars, portVars, stopping, buses, buses_copy, up, throwing,
                 outdated, worldVars>>

\* start throws: erase the bus, unlock, and confirmCandidate calls unassign
AddBusThrows(t) ==
  /\ buses' = [buses EXCEPT ![job[t][2]] = NoBus]
  /\ stopping_locked' = FALSE
  /\ Goto(t, "unassign")
  /\ throwing' = throwing \ {t}
  /\ UNCHANGED <<planVars, portVars, job, todo, callbacks, stopping, buses_copy, outdated>>

ConnectFails(t) ==
  /\ pc[t] = "add bus" /\ failures < MaxFailures
  /\ failures' = failures + 1
  /\ AddBusThrows(t)
  /\ UNCHANGED <<up, plugged, starts, moves, thrown>>

\* Bus::abort has the bus cancelled, unless a reader has closed the connection
BuildThrows(t) ==
  /\ ThrowsLate /\ pc[t] = "build model" /\ failures < MaxFailures
  /\ failures' = failures + 1
  /\ IF job[t] \in up
       THEN /\ up' = up \ {job[t]}
            /\ throwing' = throwing \cup {t}
            /\ Goto(t, "cancel")
            /\ UNCHANGED <<planVars, portVars, job, todo, callbacks, stopping,
                           stopping_locked, buses, buses_copy, outdated>>
       ELSE AddBusThrows(t) /\ UNCHANGED up
  /\ thrown' = TRUE
  /\ UNCHANGED <<plugged, starts, moves>>

-----------------------------------------------------------------------------
(* A bus fails                                                             *)

\* mutated: each reader that fails has the bus cancelled
ReadFailsAgain(t) ==
  /\ failures < MaxFailures
  /\ \E c \in up : Fork(t, "cancel", c[1], c[2])
  /\ failures' = failures + 1
  /\ UNCHANGED <<planVars, portVars, callbacks, stopping, stopping_locked, buses,
                 buses_copy, up, throwing, outdated, plugged, starts, moves, thrown>>

\* A reader closes the connection (Bus::abort) and calls cancelBus, at most once
\* for each bus
ReadFails(t) ==
  /\ failures < MaxFailures
  /\ \E c \in up : up' = up \ {c} /\ Fork(t, "cancel", c[1], c[2])
  /\ failures' = failures + 1
  /\ UNCHANGED <<planVars, portVars, callbacks, stopping, stopping_locked, buses,
                 buses_copy, throwing, outdated, plugged, starts, moves, thrown>>

\* cancelBus: erase the bus and call unassign
CancelBus(t) ==
  /\ pc[t] = "cancel" /\ buses[job[t][2]] # NoBus
  /\ buses' = [buses EXCEPT ![job[t][2]] = NoBus]
  /\ Goto(t, "unassign")
  /\ UNCHANGED <<planVars, portVars, job, todo, callbacks, stopping, stopping_locked,
                 buses_copy, up, throwing, outdated, worldVars>>

\* The thread ends, or cancelBus was called from addBus, which throws
Unassigned(t) ==
  /\ Added(t, "unassigned")
  /\ IF t \in throwing
       THEN AddBusThrows(t)
       ELSE /\ End(t)
            /\ outdated' = outdated \ {t}
            /\ UNCHANGED <<planVars, portVars, stopping, stopping_locked, buses,
                           buses_copy, throwing>>
  /\ UNCHANGED <<up, worldVars>>

\* erase(end()) in cancelBus, end()->second in unassign, or a port that the plan
\* does not know
UsesEnd(t) ==
  /\ \/ pc[t] = "cancel" /\ buses[job[t][2]] = NoBus
     \/ pc[t] = "unassign" /\ ~ ports_locked /\ job[t][2] \notin ports
     \/ pc[t] = "reset port" /\ On(known, job[t][2]) = {}
  /\ derailed' = "end()"
  /\ UNCHANGED <<finderVars, adapterVars, worldVars>>

\* Who is still in cancelBus after stop: a reader that resets a search which was
\* started later, unassigns in the next plan, or starts a search for a candidate
\* of the previous one.  Or a callback that one of these has led to adds a bus.
Meddles(t) ==
  /\ derailed' = "outdated"
  /\ \/ /\ ResetPort(t) \/ UnassignPort(t) \/ AddCandidate(t) \/ JoinSearch(t)
        /\ UNCHANGED <<adapterVars, worldVars>>
     \/ AddBus(t)

\* The plan of the ports, if there are any, is not the one that PortFinder has.
PlanReset == pc[main] \in {"reset", "idle"}

\* A search or a callback goes on with the previous plan, or main starts another one
UsesOldPlan ==
  /\ PlanReset /\ ports # {}
  /\ derailed' = "outdated"
  /\ UNCHANGED <<finderVars, adapterVars, worldVars>>

-----------------------------------------------------------------------------

\* Buses are exchanged, or one is moved to a free port
Move(p, q) ==
  /\ p # q /\ plugged[p] # NoBus /\ moves < MaxMoves
  /\ plugged' = [plugged EXCEPT ![p] = plugged[q], ![q] = plugged[p]]
  /\ moves' = moves + 1
  /\ UNCHANGED <<finderVars, adapterVars, failures, starts, thrown>>

\* All registers of the bus that is looked for can be read
Find(p) ==
  /\ ~ PlanReset /\ plugged[p] # NoBus
  /\ trying[p] # NoBus /\ BusLeq(devices[trying[p]], devices[plugged[p]])
  /\ \E t \in Workers : Found(p, t)
  /\ UNCHANGED <<adapterVars, worldVars>>

FinderStep(t) ==
  /\ t \notin outdated
  /\ \/ AddCandidate(t) \/ JoinSearch(t)
     \/ ConfirmCandidate(t) \/ ResetPort(t) \/ UnassignPort(t)
  /\ UNCHANGED <<adapterVars, worldVars>>

WorkerStep(t) ==
  \/ (t \notin outdated /\ AddBus(t)) \/ AddNothing(t) \/ Connect(t) \/ BusAdded(t)
  \/ CancelBus(t) \/ Unassigned(t)

MainStep ==
  \/ Started \/ TakeBuses \/ (\E c \in buses_copy : StopBus(c))
  \/ ResetPorts \/ ResetPlan \/ Stopped

Search(p) ==
  ~ PlanReset /\ SearchStep(p) /\ UNCHANGED <<adapterVars, worldVars>>

Failing(t) == ConnectFails(t) \/ BuildThrows(t) \/ ReadFails(t)

OnTrack == derailed = "no" /\ UNCHANGED derailed

Next ==
  \/ OnTrack /\ (Start \/ StopAdding \/ MainStep)
  \/ OnTrack /\ \E t \in Threads : FinderStep(t)
  \/ OnTrack /\ \E t \in Workers : WorkerStep(t) \/ Failing(t)
  \/ OnTrack /\ \E p \in Ports : Search(p) \/ Find(p)
  \/ OnTrack /\ \E p, q \in Ports : Move(p, q)
  \/ derailed = "no" /\ UsesOldPlan
  \/ derailed = "no" /\ \E t \in Workers : UsesEnd(t)
  \/ derailed = "no" /\ \E t \in outdated : Meddles(t)

Spec == Init /\ [][Next]_vars

MainRuns == OnTrack /\ (MainStep \/ FinderStep(main))

WorkerRuns(t) ==
  \/ OnTrack /\ (FinderStep(t) \/ WorkerStep(t))
  \/ derailed = "no" /\ UsesEnd(t)

\* Threads run, a stop gets the lock it waits for (PrivateResource does not keep
\* it waiting forever), and a bus that is plugged in is found in one of the turns
\* it is given again and again.
Fairness ==
  /\ WF_vars(MainRuns)
  /\ \A t \in Workers : WF_vars(WorkerRuns(t))
  /\ \A p \in Ports :
       /\ WF_vars(OnTrack /\ Search(p))
       /\ SF_vars(OnTrack /\ trying[p] = plugged[p] /\ Find(p))

FairSpec == Spec /\ Fairness

-----------------------------------------------------------------------------
(* What the adapter makes of its ports and of their buses, in terms of     *)
(* PortSearch, which Port implements, and BusConnection, which Bus does    *)

Phase(p) ==
  CASE found[p] -> "assigned"
    [] search_thread[p] = "empty" -> "giving up"
    [] OTHER -> "unassigned"

Wanted(p) == {b \in Buses : SearchedFor(b, p)}

Confirming(p) == {b \in Buses : \E t \in callbacks : job[t] = <<b, p>>}

SearchOn(p) == INSTANCE PortSearch WITH
  Candidates <- Buses, phase <- Phase(p), wanted <- Wanted(p), confirming <- Confirming(p)

\* The destructor of the port waits for the callbacks.
PortStep(p) ==
  IF p \in ports \ ports' THEN (SearchOn(p)!Init)'
  ELSE SearchOn(p)!Next \/ UNCHANGED SearchOn(p)!vars

OpenAt(p) == {c \in up : c[2] = p}

ThreadsAt(label, p) == {t \in Workers : pc[t] = label /\ job[t][2] = p}

One(S) == \E x \in S : S = {x}

ConnectionAt(p) ==
  LET open == OpenAt(p)
      lost == ThreadsAt("cancel", p)
      new == ThreadsAt("add bus", p)
  IN CASE One(open) /\ lost = {} /\ new = {} -> "open"
       [] One(lost) /\ open = {} /\ new = {} -> "lost"
       [] One(new) /\ open = {} /\ lost = {} -> "new"
       [] open = {} /\ lost = {} /\ new = {} -> "closed"
       [] OTHER -> "several"

ConnectionOn(p) == INSTANCE BusConnection WITH
  Devices <- {}, connection <- ConnectionAt(p), served <- {}

\* The next bus is started when the last one is closed.
BusStep(p) ==
  \/ ConnectionOn(p)!Next \/ UNCHANGED ConnectionOn(p)!vars
  \/ ConnectionAt(p) = "closed" /\ (ConnectionOn(p)!Init)'

-----------------------------------------------------------------------------

Labels == {"idle", "add buses", "started", "stopping", "stop buses", "clear ports",
           "new plan", "reset", "confirm", "confirmed", "add bus", "build model",
           "cancel", "unassign", "reset port", "unassigned"}

\* Type invariant of all variables.
TypeOK ==
  /\ FinderTypeOK
  /\ pc \in [Threads -> Labels]
  /\ {stopping, stopping_locked} \subseteq BOOLEAN
  /\ buses \in [Ports -> Buses \cup {NoBus}]
  /\ buses_copy \subseteq Candidates /\ up \subseteq Candidates
  /\ throwing \subseteq Workers /\ outdated \subseteq Workers
  /\ derailed \in {"no", "end()", "outdated"}
  /\ plugged \in [Ports -> Buses \cup {NoBus}]
  /\ failures \in 0 .. MaxFailures /\ starts \in 0 .. MaxStarts
  /\ moves \in 0 .. MaxMoves /\ thrown \in BOOLEAN

\* unassign's documentation (PortFinder.hpp:41): "a new search thread starts for
\* the port and [...] the bus is (again) searched for on all feasible ports", as far
\* as the ports do not miss candidates.  (Unless a bus is moved before it is
\* confirmed: then it is confirmed on two ports.)
UnassignSearches == moves = 0 /\ derailed = "no" /\ ~ stopping => FeasibleSearched

\* Unless building a model throws, then, whatever is feasible is searched for, or
\* about to be, while the adapter is not being stopped, or it was added to a search
\* that was running out: no other interleaving of confirming, unassigning, adding
\* and searching loses a candidate.
FeasibleIsSearched == ~ thrown => UnassignSearches

\* While nobody moves a bus, a bus is detected where it is plugged in, though
\* others may have all its registers and candidates are confirmed some time
\* after they have been checked.  (Unless building a model throws: then a port may
\* be reset twice, and the same bus be confirmed there twice.)
DetectedWherePlugged ==
  ~ thrown /\ moves = 0 =>
    \A p \in Ports : assigned[p] # NoBus => assigned[p] = plugged[p]

\* unassign is called for assigned ports only (PortFinder.hpp:44), so it never stops
\* a search that should go on.  (Except by threads that have survived a stop, and
\* unless building a model throws: then a port may be unassigned twice.)
UnassignsAssigned ==
  ~ thrown /\ derailed = "no" => \A t \in Workers \ outdated :
    pc[t] \in {"unassign", "reset port"} => assigned[job[t][2]] = job[t][1]

\* From the end of a stop to the next start no connection is open, no bus is kept,
\* the plan is empty, and of the ports that were destroyed no callback is alive.
\* (A late reader may have made ports for the previous plan, and these may have
\* callbacks: so not even then "there is noone to call `addBus`", as is said in
\* ModbusTechnologyAdapterImplementation.hpp:60; but until one of them goes on, none
\* has.  Unless building a model throws: then one bus may have replaced another one
\* that runs.)
StopCleans ==
  pc[main] = "idle" /\ derailed = "no" /\ ~ thrown =>
    /\ up = {} /\ buses = [p \in Ports |-> NoBus]
    /\ known = {} /\ \A t \in callbacks : job[t][2] \in ports

\* As long as the adapter is not stopped, cancelBus finds the bus in buses_ and
\* unassign finds the port: end() is used only during or after a stop.  (Unless
\* building a model throws while a reader is about to cancel the bus.)
EndIsNotUsed == derailed = "end()" /\ ~ thrown => stopping \/ outdated # {}

\* PortFinder and its ports rely on each other as PortSearch has it: a port is
\* reset only while it is assigned (Port.hpp:55), it is destroyed only when its
\* callbacks have returned, it drops or finds what it wants, and forgets only what
\* it is given while it gives up.  (Unless building a model throws, or reset is about
\* to make a new plan: then ports may be constructed for the old one, and reset
\* though unassigned.)
PortsAsPromised ==
  [][~ thrown' /\ derailed' = "no" /\ pc[main] # "new plan" =>
       \A p \in Ports : PortStep(p)]_vars

\* The adapter and its buses rely on each other as BusConnection has it: the bus on
\* a port connects once, a connection that is lost is cancelled once, and the
\* next bus on the port is started only when the last one is closed.  (Unless
\* building a model throws.)
BusesAsPromised ==
  [][~ thrown' /\ derailed' = "no" => \A p \in Ports : BusStep(p)]_vars

\* addCandidate and the search thread wait for each other.
SearchJoined == \E p \in Ports : search_thread[p] = "joined"

\* reset waits for a callback, which waits for the lock of ports_.
CallbackJoined ==
  /\ pc[main] = "clear ports"
  /\ \E t \in callbacks : todo[t] # {} \/ pc[t] = "unassign"

\* After the last failure, if the adapter is not stopped, every bus that is
\* plugged in is detected, and remains so, unless its port misses it, or addCandidate
\* does not return.  (Unless building a model throws.)
AllDetected ==
  \/ <>[](\A p \in Ports : plugged[p] # NoBus => assigned[p] = plugged[p])
  \/ []<>(pc[main] # "started" \/ moves > 0 \/ thrown \/ derailed # "no")
  \/ []<>(SearchJoined \/ \E p \in Ports : plugged[p] \in missed[p])

\* stop returns, whatever the other threads do, unless one of them fails for
\* end(), or one of two deadlocks happens.
StopReturns ==
  stopping ~> pc[main] = "idle" \/ derailed # "no" \/ SearchJoined \/ CallbackJoined

=============================================================================
