-------------------------------- MODULE Port --------------------------------
(***************************************************************************)
(* The search for buses on one serial port (class Port): a search thread   *)
(* that cycles through a list of candidates, a client that adds candidates,*)
(* resets and finally destroys the port, and the threads in which the      *)
(* SuccessCallback runs.  Each action is what happens under one lock of    *)
(* state_ or one operation of the thread-safe list.                        *)
(***************************************************************************)
EXTENDS Naturals, FiniteSets, FiniteSetsExt

CONSTANT MaxAdds      \* bound: how many candidates the client adds

ASSUME MaxAddsType == MaxAdds \in Nat \ {0}

VARIABLES
  state,          \* state_
  state_locked,   \* the client holds the lock of state_ across several steps
  candidates,     \* candidates_, a set of nodes
  next_candidate, \* the iterator of the running search
  search,         \* what search_thread_ does; "none" if there is no thread
  client,         \* what the client does
  adds,           \* number of nodes so far
  callbacks,      \* threads of other_threads_ that run the SuccessCallback
  confirmed       \* nodes for which a callback thread has been started

vars == <<state, state_locked, candidates, next_candidate, search, client,
          adds, callbacks, confirmed>>
stateVars == <<state, state_locked>>
listVars == <<candidates, adds>>
callbackVars == <<callbacks, confirmed>>

(***************************************************************************)
(* The list.  emplace_front numbers the nodes 1, 2, ..., so the list is in *)
(* descending order.  An iterator remains valid when its node is erased.   *)
(***************************************************************************)
Nodes == 1 .. MaxAdds
End == 0
Begin(list) == IF list = {} THEN End ELSE Max(list)
After(list, it) == Begin({n \in list : n < it})

States == {"Idle", "Searching", "Found", "OutOfCandidates", "Stopping"}

Init ==
  /\ state = "Idle"
  /\ state_locked = FALSE
  /\ candidates = {}
  /\ next_candidate = End
  /\ search = "none"
  /\ client = "idle"
  /\ adds = 0
  /\ callbacks = {}
  /\ confirmed = {}

-----------------------------------------------------------------------------
(* The client.  PortFinder calls one operation at a time.                  *)

EmplaceFront(list) == candidates' = list \cup {adds + 1} /\ adds' = adds + 1

\* Cases Idle and, after the join, OutOfCandidates of addCandidate
StartSearch ==
  /\ EmplaceFront({})
  /\ state' = "Searching"
  /\ search' = "begin"
  /\ UNCHANGED <<next_candidate, callbackVars>>

AddFirst ==
  /\ client = "idle" /\ adds < MaxAdds
  /\ state = "Idle"
  /\ StartSearch
  /\ UNCHANGED <<client, state_locked>>

\* mutated: the list is started anew
AddOnlyThis ==
  /\ client = "idle" /\ adds < MaxAdds
  /\ state = "Searching"
  /\ EmplaceFront({})
  /\ UNCHANGED <<stateVars, next_candidate, search, client, callbackVars>>

AddAnother ==
  /\ client = "idle" /\ adds < MaxAdds
  /\ state = "Searching"
  /\ EmplaceFront(candidates)
  /\ UNCHANGED <<stateVars, next_candidate, search, client, callbackVars>>

\* Cases Found and Stopping: the candidate is dropped
AddIgnored ==
  /\ client = "idle" /\ adds < MaxAdds
  /\ state \in {"Found", "Stopping"}
  /\ adds' = adds + 1
  /\ UNCHANGED <<stateVars, candidates, next_candidate, search, client, callbackVars>>

\* Case OutOfCandidates joins the old thread while it holds the lock
AddJoins ==
  /\ client = "idle" /\ adds < MaxAdds
  /\ state = "OutOfCandidates"
  /\ client' = "adding"
  /\ state_locked' = TRUE
  /\ UNCHANGED <<state, listVars, next_candidate, search, callbackVars>>

\* mutated: the lock is not released
AddJoinedLocked ==
  /\ client = "adding" /\ search = "finished"
  /\ StartSearch
  /\ client' = "idle"
  /\ UNCHANGED state_locked

AddJoined ==
  /\ client = "adding"
  /\ search = "finished"
  /\ StartSearch
  /\ client' = "idle"
  /\ state_locked' = FALSE

\* mutated: the search is not told
StopSilently(caller) ==
  /\ client = "idle"
  /\ client' = caller
  /\ UNCHANGED <<stateVars, listVars, next_candidate, search, callbackVars>>

\* stopThread, as called by reset and by the destructor
StopThread(caller) ==
  /\ client = "idle"
  /\ client' = caller
  /\ state' = "Stopping"
  /\ UNCHANGED <<state_locked, listVars, next_candidate, search, callbackVars>>

\* mutated: the thread is not joined
DetachSearch(caller, next) ==
  /\ client = caller
  /\ client' = next
  /\ UNCHANGED <<stateVars, listVars, next_candidate, search, callbackVars>>

JoinSearch(caller, next) ==
  /\ client = caller
  /\ search \in {"none", "finished"}
  /\ search' = "none"
  /\ client' = next
  /\ UNCHANGED <<stateVars, listVars, next_candidate, callbackVars>>

\* A callback has been started for what the current search has found
Assigned == state = "Found" /\ search # "callback"

\* reset, whose precondition is that the port is assigned
Reset == Assigned /\ StopThread("resetting")

ResetJoined == JoinSearch("resetting", "stopped")

ResetIdle ==
  /\ client = "stopped"
  /\ client' = "idle"
  /\ state' = "Idle"
  /\ UNCHANGED <<state_locked, listVars, next_candidate, search, callbackVars>>

\* The destructor joins the search thread, then the callback threads
Destroy == StopThread("destroying")

DestroyJoined == JoinSearch("destroying", "joining callbacks")

\* mutated: other_threads_ are not joined
DestroyedEarly ==
  /\ client = "joining callbacks"
  /\ client' = "destroyed"
  /\ UNCHANGED <<stateVars, listVars, next_candidate, search, callbackVars>>

Destroyed ==
  /\ client = "joining callbacks"
  /\ callbacks = {}
  /\ client' = "destroyed"
  /\ UNCHANGED <<stateVars, listVars, next_candidate, search, callbackVars>>

Client ==
  \/ AddFirst \/ AddAnother \/ AddIgnored \/ AddJoins \/ AddJoined
  \/ Reset \/ ResetJoined \/ ResetIdle
  \/ Destroy \/ DestroyJoined \/ Destroyed

-----------------------------------------------------------------------------
(* The search thread                                                       *)

SearchBegin ==
  /\ search = "begin"
  /\ next_candidate' = Begin(candidates)
  /\ search' = "while"
  /\ UNCHANGED <<stateVars, listVars, client, callbackVars>>

\* The loop condition, and whether there is a candidate at all
SearchWhile ==
  /\ search = "while"
  /\ ~ state_locked
  /\ search' = IF state # "Searching" THEN "finished"
               ELSE IF next_candidate = End THEN "out" ELSE "check"
  /\ UNCHANGED <<stateVars, listVars, next_candidate, client, callbackVars>>

\* tryCandidate: the candidate is no longer feasible ...
CheckInfeasible ==
  /\ search = "check"
  /\ candidates' = candidates \ {next_candidate}
  /\ search' = "advance"
  /\ UNCHANGED <<stateVars, next_candidate, client, adds, callbackVars>>

\* ... or it is, and is not found (or there is no port) ...
TryNotFound ==
  /\ search = "check"
  /\ search' = "advance"
  /\ UNCHANGED <<stateVars, listVars, next_candidate, client, callbackVars>>

\* ... or it is found, which counts if the port is still searching
TryFound ==
  /\ search = "check"
  /\ search' = "found"
  /\ UNCHANGED <<stateVars, listVars, next_candidate, client, callbackVars>>

SetFound ==
  /\ search = "found"
  /\ ~ state_locked
  /\ state' = IF state = "Searching" THEN "Found" ELSE state
  /\ search' = IF state = "Searching" THEN "callback" ELSE "advance"
  /\ UNCHANGED <<state_locked, listVars, next_candidate, client, callbackVars>>

StartCallback ==
  /\ search = "callback"
  /\ callbacks' = callbacks \cup {next_candidate}
  /\ confirmed' = confirmed \cup {next_candidate}
  /\ search' = "advance"
  /\ UNCHANGED <<stateVars, listVars, next_candidate, client>>

\* mutated: the search restarts at the newest candidate
AdvanceToNewest ==
  /\ search = "advance"
  /\ next_candidate' = IF adds \in candidates /\ next_candidate # adds
                       THEN adds ELSE After(candidates, next_candidate)
  /\ search' = "next"
  /\ UNCHANGED <<stateVars, listVars, client, callbackVars>>

\* next
Advance ==
  /\ search = "advance"
  /\ next_candidate' = After(candidates, next_candidate)
  /\ search' = "next"
  /\ UNCHANGED <<stateVars, listVars, client, callbackVars>>

\* The condition holds the lock of state_ until it is evaluated
AtEnd ==
  /\ search = "next"
  /\ ~ state_locked
  /\ search' = IF state = "Searching" /\ next_candidate = End
               THEN "wrap" ELSE "while"
  /\ UNCHANGED <<stateVars, listVars, next_candidate, client, callbackVars>>

WrapAround ==
  /\ search = "wrap"
  /\ next_candidate' = Begin(candidates)
  /\ search' = IF candidates = {} THEN "out" ELSE "while"
  /\ UNCHANGED <<stateVars, listVars, client, callbackVars>>

\* state_ is locked again, and set whatever it is by now
SetOutOfCandidates ==
  /\ search = "out"
  /\ ~ state_locked
  /\ state' = "OutOfCandidates"
  /\ search' = "while"
  /\ UNCHANGED <<state_locked, listVars, next_candidate, client, callbackVars>>

Search ==
  \/ SearchBegin \/ SearchWhile \/ CheckInfeasible \/ TryNotFound \/ TryFound
  \/ SetFound \/ StartCallback \/ Advance \/ AtEnd \/ WrapAround
  \/ SetOutOfCandidates

\* The SuccessCallback returns (PortFinder::confirmCandidate)
CallbackReturns ==
  \E n \in callbacks :
    /\ callbacks' = callbacks \ {n}
    /\ UNCHANGED <<stateVars, listVars, next_candidate, search, client, confirmed>>

Next == Client \/ Search \/ CallbackReturns

\* Every thread that can take a step eventually does; the client need not
\* call an operation, but completes those it has called.
Fairness ==
  /\ WF_vars(Search)
  /\ WF_vars(CallbackReturns)
  /\ WF_vars(AddJoined \/ ResetJoined \/ ResetIdle \/ DestroyJoined \/ Destroyed)

Spec == Init /\ [][Next]_vars /\ Fairness

-----------------------------------------------------------------------------

\* Type invariant of all variables; only addCandidate keeps the lock for long.
TypeOK ==
  /\ state \in States
  /\ candidates \subseteq Nodes
  /\ next_candidate \in Nodes \cup {End}
  /\ search \in {"none", "begin", "while", "check", "found", "callback",
                 "advance", "next", "wrap", "out", "finished"}
  /\ client \in {"idle", "adding", "resetting", "stopped", "destroying",
                 "joining callbacks", "destroyed"}
  /\ state_locked = (client = "adding")
  /\ adds \in 0 .. MaxAdds
  /\ callbacks \subseteq confirmed /\ confirmed \subseteq Nodes

\* The search thread may run its loop
Running == search \notin {"none", "finished"}

\* Port.hpp, Invariants: search_thread_ is empty in state Idle, and there is
\* one in the states Searching and OutOfCandidates; a new one is started only
\* when the old one has ended, so only one thread runs search().
SearchThreadInvariant ==
  /\ state = "Idle" => search = "none"
  /\ state \in {"Searching", "Found"} => search # "none"
  /\ state = "OutOfCandidates" =>
       search # "none" \/ client \in {"joining callbacks", "destroyed"}
  /\ state = "Searching" => Running
  /\ client \in {"stopped", "joining callbacks", "destroyed"} => ~ Running

\* The list is not cleared under the search thread's iterator: what a running
\* search points to is a node which it has been given and has not lost, except
\* for the one it has just erased itself ("The fact that nothing else runs
\* provides the thread-safety we need", addCandidate).
IteratorValid ==
  search \in {"check", "found", "callback"} => next_candidate \in candidates

\* A search that has found a bus finds no other one, nor the same one again: from one
\* start of a search to the next, at most one callback is started.
FindsOnce ==
  [][StartCallback =>
       \A n \in confirmed : n < next_candidate /\ n \notin candidates]_vars

\* Resetting and destroying the port come to an end, whatever the search
\* thread does to state_ meanwhile.
StopReturns ==
  /\ client \in {"resetting", "stopped"} ~> client = "idle"
  /\ client = "destroying" ~> client = "destroyed"

\* The search cycles: as long as the port is searching, each candidate of the
\* list is tried (or dropped as infeasible) again and again, also when others
\* are added meanwhile.
Cycles ==
  \A n \in Nodes :
    []<>( \/ state # "Searching" \/ n \notin candidates
          \/ search = "check" /\ next_candidate = n )

\* "If we entered via `OutOfCandidates`, we have already called `join`", and a
\* new search thread starts (Port.cpp:49-60): addCandidate returns.
AddCandidateReturns == client = "adding" ~> client = "idle"

\* The port as PortFinder sees it.  While it is reset it is still assigned; a
\* candidate is confirmed from the moment when the state is set to Found.
Phase ==
  CASE client \in {"destroying", "joining callbacks"} -> "closing"
    [] state = "Searching" /\ search = "out" -> "giving up"
    [] state = "Found" \/ client \in {"resetting", "stopped"} -> "assigned"
    [] OTHER -> "unassigned"

Wanted == IF state = "Searching" THEN candidates ELSE {}

Confirming ==
  IF search = "callback" THEN callbacks \cup {next_candidate} ELSE callbacks

\* Port.hpp:19-25, "For analysis, we pretend there were a member `assigned`": a
\* port becomes assigned by finding a candidate that it was given and still wants,
\* which starts one callback, and unassigned only by reset; whatever it does with
\* its list and its threads, it loses no candidate other than those added after
\* the search has found the list empty, and before it says so; and when it is
\* destroyed, all callbacks have returned.
Abstract == INSTANCE PortSearch WITH
  Candidates <- Nodes, phase <- Phase, wanted <- Wanted, confirming <- Confirming
ImplementsSearch == Abstract!Spec

=============================================================================
