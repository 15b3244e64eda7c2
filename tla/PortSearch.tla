------------------------------ MODULE PortSearch ------------------------------
(***************************************************************************)
(* What a Port promises to PortFinder, with the member `assigned' that its *)
(* documentation pretends there were: it looks for the candidates it is    *)
(* given until it has found one; then it is assigned, and a callback       *)
(* confirms the candidate, until the port is reset.                        *)
(*                                                                         *)
(* A candidate that is wanted is dropped when it is no longer feasible,    *)
(* and whatever is wanted is forgotten when the port is assigned or        *)
(* destroyed.  The only other way to lose candidates is Forget: a search   *)
(* that has run out of candidates takes some time to say so.               *)
(***************************************************************************)

CONSTANT Candidates

VARIABLES
  phase,        \* "unassigned", "giving up", "assigned", or "closing"
  wanted,       \* the candidates that are searched for
  confirming    \* the candidates whose callback has not returned

vars == <<phase, wanted, confirming>>

Init == phase = "unassigned" /\ wanted = {} /\ confirming = {}

-----------------------------------------------------------------------------
(* Operations of the client                                                *)

\* An assigned port ignores the candidate.
AddCandidate(c) ==
  /\ phase \in {"unassigned", "giving up"}
  /\ wanted' = wanted \cup {c}
  /\ UNCHANGED <<phase, confirming>>

Reset ==
  /\ phase = "assigned" /\ phase' = "unassigned"
  /\ UNCHANGED <<wanted, confirming>>

Close ==
  /\ phase' = "closing" /\ wanted' = {}
  /\ UNCHANGED confirming

\* Only when all callbacks have returned; another port may be constructed then
Destroyed ==
  /\ phase = "closing" /\ confirming = {}
  /\ phase' = "unassigned"
  /\ UNCHANGED <<wanted, confirming>>

-----------------------------------------------------------------------------
(* The search                                                              *)

DropInfeasible(c) ==
  /\ phase = "unassigned" /\ c \in wanted
  /\ wanted' = wanted \ {c}
  /\ UNCHANGED <<phase, confirming>>

Find(c) ==
  /\ phase = "unassigned" /\ c \in wanted
  /\ phase' = "assigned" /\ wanted' = {}
  /\ confirming' = confirming \cup {c}

CallbackReturns(c) ==
  /\ confirming' = confirming \ {c}
  /\ UNCHANGED <<phase, wanted>>

\* What is added from now on ...
GiveUp ==
  /\ phase = "unassigned" /\ wanted = {}
  /\ phase' = "giving up"
  /\ UNCHANGED <<wanted, confirming>>

\* ... is lost.
Forget ==
  /\ phase = "giving up" /\ phase' = "unassigned"
  /\ wanted' = {}
  /\ UNCHANGED confirming

Next ==
  \/ Reset \/ GiveUp \/ Forget \/ Close \/ Destroyed
  \/ \E c \in Candidates :
       AddCandidate(c) \/ DropInfeasible(c) \/ Find(c) \/ CallbackReturns(c)

Spec == Init /\ [][Next]_vars

=============================================================================
