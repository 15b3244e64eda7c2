------------------------------ MODULE PortProofs ------------------------------
(***************************************************************************)
(* Theorems about Port, for any number of candidates.                      *)
(***************************************************************************)
EXTENDS Port, WellFoundedInduction, TLAPS

-----------------------------------------------------------------------------
(* The list                                                                *)

\* A list of nodes that is not empty has a first node.
LEMMA MaxExists ==
  ASSUME NEW list \in SUBSET Nodes, list # {}
  PROVE  Max(list) \in list /\ \A n \in list : n <= Max(list)
<1> DEFINE T == {MaxAdds - n : n \in list}
<1>1. \A n \in list : n \in Nat /\ n <= MaxAdds
  BY MaxAddsType DEF Nodes
<1>2. T \subseteq Nat /\ T # {}
  BY <1>1, MaxAddsType
<1>3. PICK min \in T : \A t \in T : <<t, min>> \notin OpToRel(<, Nat)
  <2> HIDE DEF T
  <2> QED
    BY <1>2, NatLessThanWellFounded, WFMin
<1>4. \A t \in T : ~ t < min
  <2> SUFFICES ASSUME NEW t \in T, t < min PROVE FALSE
    OBVIOUS
  <2>1. t \in Nat /\ min \in Nat
    BY <1>2
  <2> HIDE DEF T
  <2> QED
    BY <1>3, <2>1 DEF OpToRel
<1>5. PICK m \in list : min = MaxAdds - m
  OBVIOUS
<1>6. \A n \in list : m >= n
  <2> SUFFICES ASSUME NEW n \in list PROVE m >= n
    OBVIOUS
  <2>1. MaxAdds - n \in T
    OBVIOUS
  <2>2. ~ MaxAdds - n < MaxAdds - m
    BY <1>4, <1>5, <2>1
  <2> QED
    BY <1>1, <2>2, MaxAddsType
<1>7. Max(list) \in list /\ \A n \in list : Max(list) >= n
  BY <1>6 DEF Max
<1> QED
  BY <1>1, <1>7

\* Iterators point into the list, or to its end.
LEMMA IteratorOf ==
  ASSUME NEW list \in SUBSET Nodes, NEW it
  PROVE  /\ Begin(list) \in list \cup {End}
         /\ After(list, it) \in list \cup {End}
         /\ list # {} => Begin(list) # End
<1>1. ASSUME NEW l \in SUBSET list PROVE Begin(l) \in l \cup {End}
  BY <1>1, MaxExists DEF Begin
<1>2. list # {} => Begin(list) \in Nodes
  BY MaxExists DEF Begin
<1> QED
  BY <1>1, <1>2 DEF After, Nodes, End

-----------------------------------------------------------------------------
(* The inductive invariant                                                 *)

\* What state_ tells of the search thread.  A search that was told to stop
\* after it had found its bus does not look at another candidate.
StateInv ==
  /\ state = "Idle" => search = "none"
  /\ state = "Searching" => Running
  /\ state = "Found" =>
       search \in {"callback", "advance", "next", "while", "finished"}
  /\ state = "OutOfCandidates" => search \in {"while", "finished", "none"}
  /\ search = "callback" => state \in {"Found", "Stopping"}

\* What the client's operation tells of state_ and of the search thread
ClientInv ==
  /\ client = "adding" => state = "OutOfCandidates" /\ adds < MaxAdds
  /\ client \in {"stopped", "joining callbacks", "destroyed"} => search = "none"
  /\ client \in {"resetting", "stopped"} =>
       /\ state = "Stopping"
       /\ search \in {"advance", "next", "while", "finished", "none"}
  /\ client \in {"destroying", "joining callbacks", "destroyed"} =>
       state \in {"Stopping", "OutOfCandidates"}
  /\ state = "OutOfCandidates" /\ search = "none" =>
       client \in {"joining callbacks", "destroyed"}
  /\ client = "destroyed" => callbacks = {}

\* Where the iterator may point
IteratorInv ==
  /\ search \in {"check", "found", "callback"} => next_candidate \in candidates
  /\ search \in {"while", "next"} => next_candidate \in candidates \cup {End}
  /\ search = "out" => next_candidate = End
  /\ search = "begin" => candidates # {}
  /\ search = "while" /\ state = "Searching" => next_candidate # End

\* Candidates are new: as long as the search may find one, all of them are newer
\* than those that were found before.
FreshInv ==
  /\ candidates \subseteq 1 .. adds /\ confirmed \subseteq 1 .. adds
  /\ \/ state = "Searching"
     \/ search \in {"begin", "check", "found", "callback", "wrap", "out"}
     => \A n \in confirmed, m \in candidates : n < m

PortInv == TypeOK /\ StateInv /\ ClientInv /\ IteratorInv /\ FreshInv

\* The node of an added candidate is in bounds.
LEMMA NextNode ==
  ASSUME adds \in 0 .. MaxAdds, adds < MaxAdds
  PROVE  adds + 1 \in Nodes /\ adds + 1 \in 0 .. MaxAdds
BY MaxAddsType DEF Nodes

\* Every step keeps the types.
LEMMA TypeStep ==
  ASSUME TypeOK, ClientInv, IteratorInv, Next
  PROVE  TypeOK'
<1> USE DEF TypeOK, ClientInv, IteratorInv, stateVars, listVars, callbackVars,
    States, End
<1>1. CASE AddFirst
  BY <1>1, NextNode DEF AddFirst, StartSearch, EmplaceFront
<1>2. CASE AddAnother
  BY <1>2, NextNode DEF AddAnother, EmplaceFront
<1>3. CASE AddIgnored
  BY <1>3, NextNode DEF AddIgnored
<1>4. CASE AddJoins
  BY <1>4 DEF AddJoins
<1>5. CASE AddJoined
  BY <1>5, NextNode DEF AddJoined, StartSearch, EmplaceFront
<1>6. CASE Reset
  BY <1>6 DEF Reset, StopThread, Assigned
<1>7. CASE ResetJoined
  BY <1>7 DEF ResetJoined, JoinSearch
<1>8. CASE ResetIdle
  BY <1>8 DEF ResetIdle
<1>9. CASE Destroy
  BY <1>9 DEF Destroy, StopThread
<1>10. CASE DestroyJoined
  BY <1>10 DEF DestroyJoined, JoinSearch
<1>11. CASE Destroyed
  BY <1>11 DEF Destroyed
<1>12. CASE SearchBegin
  BY <1>12, IteratorOf DEF SearchBegin
<1>13. CASE SearchWhile
  BY <1>13 DEF SearchWhile
<1>14. CASE CheckInfeasible
  BY <1>14 DEF CheckInfeasible
<1>15. CASE TryNotFound
  BY <1>15 DEF TryNotFound
<1>16. CASE TryFound
  BY <1>16 DEF TryFound
<1>17. CASE SetFound
  BY <1>17 DEF SetFound
<1>18. CASE StartCallback
  BY <1>18 DEF StartCallback
<1>19. CASE Advance
  BY <1>19, IteratorOf DEF Advance
<1>20. CASE AtEnd
  BY <1>20 DEF AtEnd
<1>21. CASE WrapAround
  BY <1>21, IteratorOf DEF WrapAround
<1>22. CASE SetOutOfCandidates
  BY <1>22 DEF SetOutOfCandidates
<1>23. CASE CallbackReturns
  BY <1>23 DEF CallbackReturns
<1> QED
  BY <1>1, <1>2, <1>3, <1>4, <1>5, <1>6, <1>7, <1>8, <1>9, <1>10, <1>11,
     <1>12, <1>13, <1>14, <1>15, <1>16, <1>17, <1>18, <1>19, <1>20, <1>21, <1>22, <1>23
  DEF Next, Client, Search

\* ... what state_ tells of the search thread.
LEMMA StateStep ==
  ASSUME TypeOK, StateInv, ClientInv, Next
  PROVE  StateInv'
<1> USE DEF TypeOK, StateInv, ClientInv, Running, stateVars, listVars, callbackVars
<1>1. CASE AddFirst
  BY <1>1 DEF AddFirst, StartSearch, EmplaceFront
<1>2. CASE AddAnother
  BY <1>2 DEF AddAnother, EmplaceFront
<1>3. CASE AddIgnored
  BY <1>3 DEF AddIgnored
<1>4. CASE AddJoins
  BY <1>4 DEF AddJoins
<1>5. CASE AddJoined
  BY <1>5 DEF AddJoined, StartSearch, EmplaceFront
<1>6. CASE Reset
  BY <1>6 DEF Reset, StopThread, Assigned
<1>7. CASE ResetJoined
  BY <1>7 DEF ResetJoined, JoinSearch
<1>8. CASE ResetIdle
  BY <1>8 DEF ResetIdle
<1>9. CASE Destroy
  BY <1>9 DEF Destroy, StopThread
<1>10. CASE DestroyJoined
  BY <1>10 DEF DestroyJoined, JoinSearch
<1>11. CASE Destroyed
  BY <1>11 DEF Destroyed
<1>12. CASE SearchBegin
  BY <1>12 DEF SearchBegin
<1>13. CASE SearchWhile
  BY <1>13 DEF SearchWhile
<1>14. CASE CheckInfeasible
  BY <1>14 DEF CheckInfeasible
<1>15. CASE TryNotFound
  BY <1>15 DEF TryNotFound
<1>16. CASE TryFound
  BY <1>16 DEF TryFound
<1>17. CASE SetFound
  BY <1>17 DEF SetFound
<1>18. CASE StartCallback
  BY <1>18 DEF StartCallback
<1>19. CASE Advance
  BY <1>19 DEF Advance
<1>20. CASE AtEnd
  BY <1>20 DEF AtEnd
<1>21. CASE WrapAround
  BY <1>21 DEF WrapAround
<1>22. CASE SetOutOfCandidates
  BY <1>22 DEF SetOutOfCandidates
<1>23. CASE CallbackReturns
  BY <1>23 DEF CallbackReturns
<1> QED
  BY <1>1, <1>2, <1>3, <1>4, <1>5, <1>6, <1>7, <1>8, <1>9, <1>10, <1>11,
     <1>12, <1>13, <1>14, <1>15, <1>16, <1>17, <1>18, <1>19, <1>20, <1>21, <1>22, <1>23
  DEF Next, Client, Search

\* ... what the client's operation tells.
LEMMA ClientStep ==
  ASSUME TypeOK, StateInv, ClientInv, Next
  PROVE  ClientInv'
<1> USE DEF TypeOK, StateInv, ClientInv, Running, stateVars, listVars, callbackVars
<1>1. CASE AddFirst
  BY <1>1 DEF AddFirst, StartSearch, EmplaceFront
<1>2. CASE AddAnother
  BY <1>2 DEF AddAnother, EmplaceFront
<1>3. CASE AddIgnored
  BY <1>3 DEF AddIgnored
<1>4. CASE AddJoins
  BY <1>4 DEF AddJoins
<1>5. CASE AddJoined
  BY <1>5 DEF AddJoined, StartSearch, EmplaceFront
<1>6. CASE Reset
  BY <1>6 DEF Reset, StopThread, Assigned
<1>7. CASE ResetJoined
  BY <1>7 DEF ResetJoined, JoinSearch
<1>8. CASE ResetIdle
  BY <1>8 DEF ResetIdle
<1>9. CASE Destroy
  BY <1>9 DEF Destroy, StopThread
<1>10. CASE DestroyJoined
  BY <1>10 DEF DestroyJoined, JoinSearch
<1>11. CASE Destroyed
  BY <1>11 DEF Destroyed
<1>12. CASE SearchBegin
  BY <1>12 DEF SearchBegin
<1>13. CASE SearchWhile
  BY <1>13 DEF SearchWhile
<1>14. CASE CheckInfeasible
  BY <1>14 DEF CheckInfeasible
<1>15. CASE TryNotFound
  BY <1>15 DEF TryNotFound
<1>16. CASE TryFound
  BY <1>16 DEF TryFound
<1>17. CASE SetFound
  BY <1>17 DEF SetFound
<1>18. CASE StartCallback
  BY <1>18 DEF StartCallback
<1>19. CASE Advance
  BY <1>19 DEF Advance
<1>20. CASE AtEnd
  BY <1>20 DEF AtEnd
<1>21. CASE WrapAround
  BY <1>21 DEF WrapAround
<1>22. CASE SetOutOfCandidates
  BY <1>22 DEF SetOutOfCandidates
<1>23. CASE CallbackReturns
  BY <1>23 DEF CallbackReturns
<1> QED
  BY <1>1, <1>2, <1>3, <1>4, <1>5, <1>6, <1>7, <1>8, <1>9, <1>10, <1>11,
     <1>12, <1>13, <1>14, <1>15, <1>16, <1>17, <1>18, <1>19, <1>20, <1>21, <1>22, <1>23
  DEF Next, Client, Search

\* ... where the iterator may point.
LEMMA IteratorStep ==
  ASSUME TypeOK, StateInv, ClientInv, IteratorInv, Next
  PROVE  IteratorInv'
<1> USE DEF TypeOK, StateInv, ClientInv, IteratorInv, stateVars, listVars,
    callbackVars
<1>1. CASE AddFirst
  BY <1>1 DEF AddFirst, StartSearch, EmplaceFront
<1>2. CASE AddAnother
  BY <1>2 DEF AddAnother, EmplaceFront
<1>3. CASE AddIgnored
  BY <1>3 DEF AddIgnored
<1>4. CASE AddJoins
  BY <1>4 DEF AddJoins
<1>5. CASE AddJoined
  BY <1>5 DEF AddJoined, StartSearch, EmplaceFront
<1>6. CASE Reset
  BY <1>6 DEF Reset, StopThread, Assigned
<1>7. CASE ResetJoined
  BY <1>7 DEF ResetJoined, JoinSearch
<1>8. CASE ResetIdle
  BY <1>8 DEF ResetIdle
<1>9. CASE Destroy
  BY <1>9 DEF Destroy, StopThread
<1>10. CASE DestroyJoined
  BY <1>10 DEF DestroyJoined, JoinSearch
<1>11. CASE Destroyed
  BY <1>11 DEF Destroyed
<1>12. CASE SearchBegin
  BY <1>12, IteratorOf DEF SearchBegin
<1>13. CASE SearchWhile
  BY <1>13 DEF SearchWhile
<1>14. CASE CheckInfeasible
  BY <1>14 DEF CheckInfeasible
<1>15. CASE TryNotFound
  BY <1>15 DEF TryNotFound
<1>16. CASE TryFound
  BY <1>16 DEF TryFound
<1>17. CASE SetFound
  BY <1>17 DEF SetFound
<1>18. CASE StartCallback
  BY <1>18 DEF StartCallback
<1>19. CASE Advance
  BY <1>19, IteratorOf DEF Advance
<1>20. CASE AtEnd
  BY <1>20 DEF AtEnd
<1>21. CASE WrapAround
  BY <1>21, IteratorOf DEF WrapAround
<1>22. CASE SetOutOfCandidates
  BY <1>22 DEF SetOutOfCandidates
<1>23. CASE CallbackReturns
  BY <1>23 DEF CallbackReturns
<1> QED
  BY <1>1, <1>2, <1>3, <1>4, <1>5, <1>6, <1>7, <1>8, <1>9, <1>10, <1>11,
     <1>12, <1>13, <1>14, <1>15, <1>16, <1>17, <1>18, <1>19, <1>20, <1>21, <1>22, <1>23
  DEF Next, Client, Search

\* ... that all candidates are newer than those found.
LEMMA FreshStep ==
  ASSUME PortInv, Next
  PROVE  FreshInv'
<1> USE DEF PortInv, TypeOK, StateInv, ClientInv, IteratorInv, FreshInv,
    stateVars, listVars, callbackVars
<1>1. CASE AddFirst
  BY <1>1 DEF AddFirst, StartSearch, EmplaceFront
<1>2. CASE AddAnother
  BY <1>2 DEF AddAnother, EmplaceFront
<1>3. CASE AddIgnored
  BY <1>3 DEF AddIgnored
<1>4. CASE AddJoins
  BY <1>4 DEF AddJoins
<1>5. CASE AddJoined
  BY <1>5 DEF AddJoined, StartSearch, EmplaceFront
<1>6. CASE Reset
  BY <1>6 DEF Reset, StopThread, Assigned
<1>7. CASE ResetJoined
  BY <1>7 DEF ResetJoined, JoinSearch
<1>8. CASE ResetIdle
  BY <1>8 DEF ResetIdle
<1>9. CASE Destroy
  BY <1>9 DEF Destroy, StopThread
<1>10. CASE DestroyJoined
  BY <1>10 DEF DestroyJoined, JoinSearch
<1>11. CASE Destroyed
  BY <1>11 DEF Destroyed
<1>12. CASE SearchBegin
  BY <1>12 DEF SearchBegin
<1>13. CASE SearchWhile
  BY <1>13 DEF SearchWhile
<1>14. CASE CheckInfeasible
  BY <1>14 DEF CheckInfeasible
<1>15. CASE TryNotFound
  BY <1>15 DEF TryNotFound
<1>16. CASE TryFound
  BY <1>16 DEF TryFound
<1>17. CASE SetFound
  BY <1>17 DEF SetFound
<1>18. CASE StartCallback
  BY <1>18 DEF StartCallback
<1>19. CASE Advance
  BY <1>19 DEF Advance
<1>20. CASE AtEnd
  BY <1>20 DEF AtEnd
<1>21. CASE WrapAround
  BY <1>21 DEF WrapAround
<1>22. CASE SetOutOfCandidates
  BY <1>22 DEF SetOutOfCandidates
<1>23. CASE CallbackReturns
  BY <1>23 DEF CallbackReturns
<1> QED
  BY <1>1, <1>2, <1>3, <1>4, <1>5, <1>6, <1>7, <1>8, <1>9, <1>10, <1>11,
     <1>12, <1>13, <1>14, <1>15, <1>16, <1>17, <1>18, <1>19, <1>20, <1>21, <1>22, <1>23
  DEF Next, Client, Search

\* The invariant is inductive.
LEMMA NextInv == PortInv /\ [Next]_vars => PortInv'
<1> SUFFICES ASSUME PortInv, [Next]_vars PROVE PortInv'
  OBVIOUS
<1> USE DEF PortInv
<1>1. CASE Next
  BY <1>1, TypeStep, StateStep, ClientStep, IteratorStep, FreshStep
<1>2. CASE UNCHANGED vars
  <2> USE DEF vars
  <2>1. TypeOK'
    BY <1>2 DEF TypeOK
  <2>2. StateInv' /\ ClientInv'
    BY <1>2 DEF StateInv, ClientInv, Running
  <2>3. IteratorInv' /\ FreshInv'
    BY <1>2 DEF IteratorInv, FreshInv
  <2> QED
    BY <2>1, <2>2, <2>3
<1> QED
  BY <1>1, <1>2

\* The invariant holds in every state of a port, whatever runs fairly.
THEOREM PortInvariant == Spec => []PortInv
<1>1. Init => PortInv
  <2> SUFFICES ASSUME Init PROVE PortInv
    OBVIOUS
  <2> USE DEF Init
  <2>1. TypeOK
    <3>1. adds \in 0 .. MaxAdds
      BY MaxAddsType
    <3>2. state_locked = (client = "adding")
      OBVIOUS
    <3> QED
      BY <3>1, <3>2 DEF TypeOK, States, End
  <2>2. StateInv /\ ClientInv /\ IteratorInv /\ FreshInv
    BY DEF StateInv, ClientInv, IteratorInv, FreshInv
  <2> QED
    BY <2>1, <2>2 DEF PortInv
<1>2. PortInv /\ [Next]_vars => PortInv'
  BY NextInv
<1> QED
  BY <1>1, <1>2, PTL DEF Spec

-----------------------------------------------------------------------------
(* What follows from it                                                    *)

\* All variables have their types, and addCandidate alone keeps the lock.
THEOREM TypeCorrect == Spec => []TypeOK
<1>1. PortInv => TypeOK
  BY DEF PortInv
<1> QED
  BY <1>1, PortInvariant, PTL

\* Port.hpp, Invariants: state_ tells truly whether there is a search thread.
THEOREM SearchThreadCorrect == Spec => []SearchThreadInvariant
<1>1. PortInv => SearchThreadInvariant
  BY DEF PortInv, StateInv, ClientInv, SearchThreadInvariant, Running
<1> QED
  BY <1>1, PortInvariant, PTL

\* The list is never cleared under the iterator of a running search.
THEOREM IteratorCorrect == Spec => []IteratorValid
<1>1. PortInv => IteratorValid
  BY DEF PortInv, IteratorInv, IteratorValid
<1> QED
  BY <1>1, PortInvariant, PTL

\* Each search starts one callback at most: what it confirms is newer than, and
\* no longer listed with, whatever was confirmed before.
THEOREM FindsOnceCorrect == Spec => FindsOnce
<1>1. PortInv /\ [Next]_vars =>
        [StartCallback =>
           \A n \in confirmed : n < next_candidate /\ n \notin candidates]_vars
  <2> SUFFICES ASSUME PortInv, StartCallback, NEW n \in confirmed
               PROVE  n < next_candidate /\ n \notin candidates
    BY DEF vars
  <2>2. search = "callback"
    BY DEF StartCallback
  <2>3. next_candidate \in candidates /\ \A m \in candidates : n < m
    BY <2>2 DEF PortInv, IteratorInv, FreshInv
  <2>4. n \in Nat
    <3>1. n \in Nodes
      BY DEF PortInv, TypeOK
    <3> QED
      BY <3>1, MaxAddsType DEF Nodes
  <2>5. ~ n < n
    BY <2>4
  <2> QED
    BY <2>3, <2>5
<1> QED
  BY <1>1, PortInvariant, PTL DEF Spec, FindsOnce

-----------------------------------------------------------------------------
(* The port implements the search that PortFinder sees                     *)

\* What the client does is an operation on the search, or not seen.
LEMMA ClientSeen ==
  ASSUME PortInv, Client
  PROVE  [Abstract!Next]_Abstract!vars
<1> USE DEF PortInv, TypeOK, StateInv, ClientInv, stateVars, listVars, callbackVars,
    Running, Abstract!vars, Phase, Wanted, Confirming, Abstract!Next
<1>1. ASSUME StartSearch, state \in {"Idle", "OutOfCandidates"},
             search \in {"none", "finished"}, adds < MaxAdds,
             client \in {"idle", "adding"}, client' = "idle"
      PROVE  Abstract!Next
  <2>1. adds + 1 \in Nodes
    BY <1>1, NextNode
  <2>2. Phase = "unassigned" /\ Phase' = "unassigned"
    BY <1>1 DEF StartSearch
  <2>3. Wanted = {} /\ Wanted' = {adds + 1} /\ Confirming' = Confirming
    BY <1>1 DEF StartSearch, EmplaceFront
  <2>4. Abstract!AddCandidate(adds + 1)
    BY <2>2, <2>3 DEF Abstract!AddCandidate
  <2> QED
    BY <2>1, <2>4
<1>2. CASE AddFirst
  BY <1>1, <1>2 DEF AddFirst
<1>3. CASE AddAnother
  <2>1. adds + 1 \in Nodes
    BY <1>3, NextNode DEF AddAnother
  <2>2. Phase \in {"unassigned", "giving up"} /\ Phase' = Phase
    BY <1>3 DEF AddAnother
  <2>3. Wanted' = Wanted \cup {adds + 1} /\ Confirming' = Confirming
    BY <1>3 DEF AddAnother, EmplaceFront
  <2>4. Abstract!AddCandidate(adds + 1)
    BY <2>2, <2>3 DEF Abstract!AddCandidate
  <2> QED
    BY <2>1, <2>4
<1>4. CASE AddIgnored
  BY <1>4 DEF AddIgnored
<1>5. CASE AddJoins
  BY <1>5 DEF AddJoins
<1>6. CASE AddJoined
  BY <1>1, <1>6 DEF AddJoined
<1>7. CASE Reset
  BY <1>7 DEF Reset, StopThread, Assigned
<1>8. CASE ResetJoined
  BY <1>8 DEF ResetJoined, JoinSearch
<1>9. CASE ResetIdle
  <2>1. Phase = "assigned" /\ Phase' = "unassigned"
    BY <1>9 DEF ResetIdle
  <2>2. Wanted = {} /\ Wanted' = {} /\ Confirming' = Confirming
    BY <1>9 DEF ResetIdle
  <2> QED
    BY <2>1, <2>2 DEF Abstract!Reset
<1>10. CASE Destroy
  <2>1. Phase' = "closing" /\ Wanted' = {} /\ Confirming' = Confirming
    BY <1>10 DEF Destroy, StopThread
  <2> QED
    BY <2>1 DEF Abstract!Close
<1>11. CASE DestroyJoined
  BY <1>11 DEF DestroyJoined, JoinSearch
<1>12. CASE Destroyed
  <2>1. /\ callbacks = {} /\ search = "none" /\ state \in {"Stopping", "OutOfCandidates"}
        /\ client' = "destroyed" /\ UNCHANGED <<state, search, callbacks>>
    BY <1>12 DEF Destroyed
  <2>2. Confirming = {} /\ Confirming' = Confirming /\ Wanted' = {}
    BY <2>1
  <2>3. Phase = "closing" /\ Phase' = "unassigned" /\ Wanted' = Wanted
    BY <1>12, <2>1 DEF Destroyed
  <2> QED
    BY <2>2, <2>3 DEF Abstract!Destroyed
<1> QED
  BY <1>2, <1>3, <1>4, <1>5, <1>6, <1>7, <1>8, <1>9, <1>10, <1>11, <1>12 DEF Client

\* What the search thread does is a step of the search, or not seen: what it tries is
\* on the list, and it gives up only if nothing is.
LEMMA SearchSeen ==
  ASSUME PortInv, Search
  PROVE  [Abstract!Next]_Abstract!vars
<1> USE DEF PortInv, TypeOK, StateInv, ClientInv, IteratorInv, stateVars, listVars,
    callbackVars, Running, Abstract!vars, Phase, Wanted, Confirming, Abstract!Next
<1>1. CASE SearchBegin
  BY <1>1 DEF SearchBegin
<1>2. CASE SearchWhile
  BY <1>2 DEF SearchWhile
<1>3. CASE CheckInfeasible
  <2>1. /\ search = "check" /\ next_candidate \in candidates /\ search' = "advance"
        /\ candidates' = candidates \ {next_candidate}
        /\ UNCHANGED <<state, client, callbacks, next_candidate>>
    BY <1>3 DEF CheckInfeasible
  <2>2. Phase' = Phase /\ Confirming' = Confirming
    BY <2>1
  <2>3. CASE state = "Searching"
    <3>1. Phase = "unassigned" /\ next_candidate \in Nodes
      BY <2>1, <2>3
    <3>2. Wanted' = Wanted \ {next_candidate} /\ next_candidate \in Wanted
      BY <2>1, <2>3
    <3> QED
      BY <2>2, <3>1, <3>2 DEF Abstract!DropInfeasible
  <2>4. CASE state # "Searching"
    BY <2>1, <2>2, <2>4
  <2> QED
    BY <2>3, <2>4
<1>4. CASE TryNotFound
  BY <1>4 DEF TryNotFound
<1>5. CASE TryFound
  BY <1>5 DEF TryFound
<1>6. CASE SetFound
  <2>1. /\ search = "found" /\ next_candidate \in candidates
        /\ UNCHANGED <<candidates, next_candidate, client, callbacks>>
    BY <1>6 DEF SetFound
  <2>2. CASE state = "Searching"
    <3>1. state' = "Found" /\ search' = "callback"
      BY <1>6, <2>2 DEF SetFound
    <3>2. client \notin {"resetting", "stopped", "destroying", "joining callbacks"}
      BY <2>2
    <3>3. Phase = "unassigned" /\ Phase' = "assigned"
      BY <2>1, <2>2, <3>1, <3>2
    <3>4. next_candidate \in Wanted /\ next_candidate \in Nodes /\ Wanted' = {}
      BY <2>1, <2>2, <3>1
    <3>5. Confirming' = Confirming \cup {next_candidate}
      BY <2>1, <3>1
    <3> QED
      BY <3>3, <3>4, <3>5 DEF Abstract!Find
  <2>3. CASE state # "Searching"
    BY <1>6, <2>1, <2>3 DEF SetFound
  <2> QED
    BY <2>2, <2>3
<1>7. CASE StartCallback
  BY <1>7 DEF StartCallback
<1>8. CASE Advance
  BY <1>8 DEF Advance
<1>9. CASE AtEnd
  BY <1>9 DEF AtEnd
<1>10. CASE WrapAround
  <2>1. search = "wrap" /\ UNCHANGED <<state, client, candidates, callbacks>>
    BY <1>10 DEF WrapAround
  <2>2. CASE candidates = {} /\ state = "Searching"
    <3>1. search' = "out"
      BY <1>10, <2>2 DEF WrapAround
    <3>2. client \notin {"resetting", "stopped", "destroying", "joining callbacks"}
      BY <2>2
    <3>3. Phase = "unassigned" /\ Phase' = "giving up"
      BY <2>1, <2>2, <3>1, <3>2
    <3>4. Wanted = {} /\ Wanted' = {} /\ Confirming' = Confirming
      BY <2>1, <2>2, <3>1
    <3> QED
      BY <3>3, <3>4 DEF Abstract!GiveUp
  <2>3. CASE candidates # {} \/ state # "Searching"
    BY <1>10, <2>1, <2>3 DEF WrapAround
  <2> QED
    BY <2>2, <2>3
<1>11. CASE SetOutOfCandidates
  <2>1. /\ search = "out" /\ search' = "while" /\ state' = "OutOfCandidates"
        /\ UNCHANGED <<client, callbacks>>
    BY <1>11 DEF SetOutOfCandidates
  <2>2. Wanted' = {} /\ Confirming' = Confirming
    BY <2>1
  <2>3. CASE state = "Searching"
    <3>1. Phase = "giving up" /\ Phase' = "unassigned"
      BY <2>1, <2>3
    <3> QED
      BY <2>2, <3>1 DEF Abstract!Forget
  <2>4. CASE state # "Searching"
    BY <2>1, <2>2, <2>4
  <2> QED
    BY <2>3, <2>4
<1> QED
  BY <1>1, <1>2, <1>3, <1>4, <1>5, <1>6, <1>7, <1>8, <1>9, <1>10, <1>11 DEF Search

\* The return of a callback is seen as such: no other callback of the same candidate
\* is being started, because each candidate is found once.
LEMMA CallbackSeen ==
  ASSUME PortInv, CallbackReturns
  PROVE  [Abstract!Next]_Abstract!vars
<1>1. PICK n \in callbacks :
        callbacks' = callbacks \ {n}
        /\ UNCHANGED <<state, candidates, next_candidate, search, client>>
  BY DEF CallbackReturns, stateVars, listVars
<1>2. n \in confirmed /\ n \in Nodes
  BY DEF PortInv, TypeOK
<1>3. search = "callback" => n # next_candidate
  <2>1. SUFFICES ASSUME search = "callback" PROVE n # next_candidate
    OBVIOUS
  <2>2. n < next_candidate
    BY <1>2, <2>1 DEF PortInv, IteratorInv, FreshInv
  <2> QED
    BY <1>2, <2>2, MaxAddsType DEF Nodes
<1>4. Confirming' = Confirming \ {n}
  BY <1>1, <1>3 DEF Confirming
<1>5. UNCHANGED <<Phase, Wanted>>
  BY <1>1 DEF Phase, Wanted
<1> QED
  BY <1>2, <1>4, <1>5 DEF Abstract!Next, Abstract!CallbackReturns

\* Port.hpp's pretended member `assigned', and which candidates the port wants: of
\* these, none gets lost but those that are added while the search gives up.
THEOREM SearchRefinement == Spec => ImplementsSearch
<1>1. Init => Abstract!Init
  <2> SUFFICES ASSUME Init PROVE Abstract!Init
    OBVIOUS
  <2>1. Phase = "unassigned" /\ Wanted = {} /\ Confirming = {}
    BY DEF Init, Phase, Wanted, Confirming
  <2> QED
    BY <2>1 DEF Abstract!Init
<1>2. PortInv /\ [Next]_vars => [Abstract!Next]_Abstract!vars
  <2> SUFFICES ASSUME PortInv, [Next]_vars PROVE [Abstract!Next]_Abstract!vars
    OBVIOUS
  <2>1. CASE UNCHANGED vars
    BY <2>1 DEF vars, Abstract!vars, Phase, Wanted, Confirming
  <2> QED
    BY <2>1, ClientSeen, SearchSeen, CallbackSeen DEF Next
<1> QED
  BY <1>1, <1>2, PortInvariant, PTL DEF Spec, ImplementsSearch, Abstract!Spec

=============================================================================
