----------------------------- MODULE PortFinder -----------------------------
(***************************************************************************)
(* Port detection as a whole (class PortFinder): the plan, one search per  *)
(* port, and the threads that call into PortFinder.  A port is seen from   *)
(* outside (Port has the details): it searches for the candidates it has   *)
(* been given, in turn, until it finds one or runs out of them.  Between   *)
(* checking that a candidate is feasible, finding it, and confirming it,   *)
(* other threads run, and so they do while a search runs out.  The owner,  *)
(* which makes the calls, is in module Adapter.                            *)
(***************************************************************************)
EXTENDS PortFinderPlan, Sequences

CONSTANTS
  Threads        \* bound: threads that are in PortFinder at the same time

VARIABLES
  ports,         \* the ports that ports_ contains
  ports_locked,  \* whether the lock of ports_ is held for more than one step
  search_thread, \* per port: what its search does
  searching,     \* per port: the candidates of the running search, by turns
  found,         \* per port: whether it is in state Found
  trying,        \* per port: the bus that is being looked for
  missed,        \* history, per port: what was added while a search ran out
  pc,            \* per thread: where it is
  job,           \* per thread: the bus and the port it is about
  todo,          \* per thread: the candidates addCandidates still has to add
  callbacks      \* the threads that the ports have started and have to join

searchVars == <<search_thread, searching, found, trying, missed>>
portVars == <<ports, ports_locked, searchVars>>
threadVars == <<pc, job, todo, callbacks>>
finderVars == <<planVars, portVars, threadVars>>

FinderInit ==
  /\ PlanInit
  /\ ports = {} /\ ports_locked = FALSE
  /\ search_thread = [p \in Ports |-> "ended"]
  /\ searching = [p \in Ports |-> <<>>]
  /\ found = [p \in Ports |-> FALSE]
  /\ trying = [p \in Ports |-> NoBus]
  /\ missed = [p \in Ports |-> {}]
  /\ pc = [t \in Threads |-> "idle"]
  /\ job = [t \in Threads |-> NoBus]
  /\ todo = [t \in Threads |-> {}]
  /\ callbacks = {}

-----------------------------------------------------------------------------
(* The threads in PortFinder                                               *)

Goto(t, label) == pc' = [pc EXCEPT ![t] = label]

\* The start of a thread that executes at `label' for bus b on port p
Fork(t, label, b, p) ==
  /\ pc[t] = "idle"
  /\ Goto(t, label)
  /\ job' = [job EXCEPT ![t] = <<b, p>>]
  /\ UNCHANGED todo

\* The thread ends, and what it was about is forgotten
End(t) ==
  /\ Goto(t, "idle")
  /\ job' = [job EXCEPT ![t] = NoBus]
  /\ callbacks' = callbacks \ {t}
  /\ UNCHANGED todo

\* plan_->... has returned candidates: next come the iterations of addCandidates
Returned(t, label) ==
  /\ Goto(t, label)
  /\ todo' = [todo EXCEPT ![t] = new_candidates']

\* addBuses for all configured buses
AddAllBuses(t) ==
  /\ AddBuses(Buses)
  /\ Returned(t, "add buses")
  /\ UNCHANGED <<job, callbacks, portVars>>

\* mutated: a running search is not given the candidate
AddCandidateIfIdle(t) ==
  \E c \in todo[t] :
    LET b == c[1]  p == c[2] IN
    /\ ~ ports_locked /\ search_thread[p] \notin {"leaves", "joined"}
    /\ ports' = ports \cup {p}
    /\ searching' = [searching EXCEPT ![p] =
         IF found[p] \/ search_thread[p] # "ended" THEN @ ELSE Append(@, b)]
    /\ search_thread' = [search_thread EXCEPT ![p] =
         IF @ = "ended" /\ ~ found[p] THEN "runs" ELSE @]
    /\ missed' = [missed EXCEPT ![p] = @ \ {b}]
    /\ todo' = [todo EXCEPT ![t] = @ \ {c}]
    /\ UNCHANGED <<planVars, ports_locked, found, trying, pc, job, callbacks>>

\* One iteration of addCandidates with Port::addCandidate: a port that has found
\* a bus ignores the candidate, a search that runs takes it up in its cycle, and if
\* there is none, one is started.
AddCandidate(t) ==
  \E c \in todo[t] :
    LET b == c[1]  p == c[2] IN
    /\ ~ ports_locked /\ search_thread[p] \notin {"leaves", "joined"}
    /\ ports' = ports \cup {p}
    /\ searching' = [searching EXCEPT ![p] =
         IF found[p] \/ \E i \in DOMAIN @ : @[i] = b THEN @ ELSE Append(@, b)]
    /\ search_thread' = [search_thread EXCEPT ![p] =
         IF @ = "ended" /\ ~ found[p] THEN "runs" ELSE @]
    /\ missed' = [missed EXCEPT ![p] = @ \ {b}]
    /\ todo' = [todo EXCEPT ![t] = @ \ {c}]
    /\ UNCHANGED <<planVars, ports_locked, found, trying, pc, job, callbacks>>

\* addCandidate joins a search thread which needs the lock of state_, held by
\* addCandidate, to leave its loop: both wait, with the lock of ports_, forever.
JoinSearch(t) ==
  \E c \in todo[t] :
    /\ ~ ports_locked /\ search_thread[c[2]] = "leaves"
    /\ ports_locked' = TRUE
    /\ search_thread' = [search_thread EXCEPT ![c[2]] = "joined"]
    /\ UNCHANGED <<planVars, ports, searching, found, trying, missed, threadVars>>

\* confirmCandidate: first the plan, and then the owner
ConfirmCandidate(t) ==
  /\ pc[t] = "confirm"
  /\ Assign(job[t][1], job[t][2])
  /\ Returned(t, "confirmed")
  /\ UNCHANGED <<job, callbacks, portVars>>

\* The search of p is told to stop, and its thread is joined
StopThread(p) ==
  /\ search_thread' = [search_thread EXCEPT ![p] = "ended"]
  /\ searching' = [searching EXCEPT ![p] = <<>>]
  /\ found' = [found EXCEPT ![p] = FALSE]
  /\ trying' = [trying EXCEPT ![p] = NoBus]

\* unassign: Port::reset stops the search and waits for its thread ...
ResetPort(t) ==
  /\ pc[t] = "unassign" /\ ~ ports_locked
  /\ job[t][2] \in ports
  /\ StopThread(job[t][2])
  /\ UNCHANGED missed
  /\ Goto(t, "reset port")
  /\ UNCHANGED <<planVars, ports, ports_locked, job, todo, callbacks>>

\* ... then the plan
UnassignPort(t) ==
  /\ pc[t] = "reset port"
  /\ Unassign(job[t][2])
  /\ Returned(t, "unassigned")
  /\ UNCHANGED <<job, callbacks, portVars>>

Added(t, label) == pc[t] = label /\ todo[t] = {}

-----------------------------------------------------------------------------
(* reset, by thread t                                                      *)

LockPorts(t) ==
  /\ ~ ports_locked /\ ports_locked' = TRUE
  /\ Goto(t, "clear ports")
  /\ UNCHANGED <<planVars, ports, searchVars, job, todo, callbacks>>

\* mutated: the callbacks are not waited for
ClearPortAtOnce(t, p) ==
  /\ pc[t] = "clear ports" /\ p \in ports
  /\ ports' = ports \ {p}
  /\ StopThread(p)
  /\ missed' = [missed EXCEPT ![p] = {}]
  /\ UNCHANGED <<planVars, ports_locked, threadVars>>

\* ~Port stops the search and waits for the callbacks of the port
ClearPort(t, p) ==
  /\ pc[t] = "clear ports" /\ p \in ports
  /\ \A callback \in callbacks : job[callback][2] # p
  /\ ports' = ports \ {p}
  /\ StopThread(p)
  /\ missed' = [missed EXCEPT ![p] = {}]
  /\ UNCHANGED <<planVars, ports_locked, threadVars>>

PortsCleared(t) ==
  /\ pc[t] = "clear ports" /\ ports = {}
  /\ ports_locked' = FALSE
  /\ Goto(t, "new plan")
  /\ UNCHANGED <<planVars, ports, searchVars, job, todo, callbacks>>

NewPlan(t) ==
  /\ pc[t] = "new plan"
  /\ known' = {} /\ new_candidates' = {}
  /\ assigned' = [p \in Ports |-> NoBus]
  /\ available' = [p \in Ports |-> {}]
  /\ num_ambiguators' = [p \in Ports |-> [b \in Buses |-> 0]]
  /\ Goto(t, "reset")
  /\ UNCHANGED <<portVars, job, todo, callbacks>>

-----------------------------------------------------------------------------
(* The searches of the ports                                               *)

\* A candidate's turn: stillFeasible, or it is dropped
Check(p) ==
  /\ search_thread[p] = "runs" /\ searching[p] # <<>> /\ trying[p] = NoBus
  /\ LET b == Head(searching[p]) IN
       IF Feasible(b, p)
       THEN trying' = [trying EXCEPT ![p] = b] /\ UNCHANGED searching
       ELSE searching' = [searching EXCEPT ![p] = Tail(@)] /\ UNCHANGED trying
  /\ UNCHANGED <<planVars, ports, ports_locked, search_thread, found, missed, threadVars>>

NotFound(p) ==
  /\ trying[p] # NoBus
  /\ searching' = [searching EXCEPT ![p] = Append(Tail(@), Head(@))]
  /\ trying' = [trying EXCEPT ![p] = NoBus]
  /\ UNCHANGED <<planVars, ports, ports_locked, search_thread, found, missed, threadVars>>

\* All registers can be read: a thread is started to confirm the candidate
Found(p, t) ==
  /\ trying[p] # NoBus
  /\ Fork(t, "confirm", trying[p], p)
  /\ callbacks' = callbacks \cup {t}
  /\ search_thread' = [search_thread EXCEPT ![p] = "ended"]
  /\ searching' = [searching EXCEPT ![p] = <<>>]
  /\ found' = [found EXCEPT ![p] = TRUE]
  /\ trying' = [trying EXCEPT ![p] = NoBus]
  /\ missed' = [missed EXCEPT ![p] = {}]
  /\ UNCHANGED <<planVars, ports, ports_locked>>

\* next: the list is found empty ...
FindEmpty(p) ==
  /\ search_thread[p] = "runs" /\ searching[p] = <<>>
  /\ search_thread' = [search_thread EXCEPT ![p] = "empty"]
  /\ UNCHANGED <<planVars, ports, ports_locked, searching, found, trying, missed, threadVars>>

\* ... but whatever it contains by now, the state becomes OutOfCandidates ...
SetOutOfCandidates(p) ==
  /\ search_thread[p] = "empty"
  /\ search_thread' = [search_thread EXCEPT ![p] = "leaves"]
  /\ missed' = [missed EXCEPT ![p] = @ \cup {searching[p][i] : i \in DOMAIN searching[p]}]
  /\ searching' = [searching EXCEPT ![p] = <<>>]
  /\ UNCHANGED <<planVars, ports, ports_locked, found, trying, threadVars>>

\* ... and the condition of the loop is evaluated.
LeaveSearch(p) ==
  /\ search_thread[p] = "leaves"
  /\ search_thread' = [search_thread EXCEPT ![p] = "ended"]
  /\ UNCHANGED <<planVars, ports, ports_locked, searching, found, trying, missed, threadVars>>

SearchStep(p) ==
  Check(p) \/ NotFound(p) \/ FindEmpty(p) \/ SetOutOfCandidates(p) \/ LeaveSearch(p)

-----------------------------------------------------------------------------

FinderTypeOK ==
  /\ PlanTypeOK
  /\ ports \subseteq Ports /\ ports_locked \in BOOLEAN
  /\ search_thread \in [Ports -> {"ended", "runs", "empty", "leaves", "joined"}]
  /\ searching \in [Ports -> Seq(Buses)]
  /\ \A p \in Ports : searching[p] # <<>> => search_thread[p] \in {"runs", "empty"}
  /\ missed \in [Ports -> SUBSET Buses]
  /\ found \in [Ports -> BOOLEAN]
  /\ trying \in [Ports -> Buses \cup {NoBus}]
  /\ job \in [Threads -> Candidates \cup {NoBus}]
  /\ todo \in [Threads -> SUBSET Candidates]
  /\ callbacks \subseteq Threads

SearchedFor(b, p) == \E i \in DOMAIN searching[p] : searching[p][i] = b

\* unassign's documentation: "a new search thread starts for the port and
\* [...] the bus is (again) searched for on all feasible ports".  Whatever is
\* feasible is searched for, or a thread is about to add it to the search, or
\* to confirm another bus on the port.  Only what was added to a search that had
\* just found its list empty is not, until it is added once more or the port has
\* found another bus.
FeasibleSearched ==
  \A c \in FeasibleCandidates :
    \/ SearchedFor(c[1], c[2])
    \/ \E t \in Threads :
         c \in todo[t] \/ (pc[t] = "confirm" /\ job[t][2] = c[2])
    \/ c[1] \in missed[c[2]]

=============================================================================
