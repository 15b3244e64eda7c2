--------------------------- MODULE PortFinderPlan ---------------------------
(***************************************************************************)
(* The combinatorial part of port detection (class PortFinderPlan).  All   *)
(* operations run under the plan's mutex, so each is one action.  The      *)
(* global and the per-port indices of the code are the buses and ports     *)
(* themselves.                                                             *)
(***************************************************************************)
EXTENDS BusOrder, FiniteSets, Naturals

CONSTANTS
  Buses, Ports, NoBus, possible_serial_ports, devices,
  SIZE_MAX       \* greatest value of size_t

ASSUME BusesFinite == IsFiniteSet(Buses)
ASSUME NoBusIsNoBus == NoBus \notin Buses
ASSUME PossiblePortsType == possible_serial_ports \in [Buses -> SUBSET Ports]
ASSUME SizeType == SIZE_MAX \in Nat /\ Cardinality(Buses) <= SIZE_MAX

VARIABLES
  known,           \* GlobalData::bus_indexing
  assigned,        \* Port::assigned
  available,       \* Port::available
  num_ambiguators, \* Port::num_ambiguators
  new_candidates   \* what the last operation has returned

planVars == <<known, assigned, available, num_ambiguators, new_candidates>>

Candidates == Buses \X Ports

\* Checking for b2 may have b1 as a false positive
Ambiguates(b1, b2) == b1 # b2 /\ BusLeq(devices[b2], devices[b1])

\* Port::bus_indexing: the buses of B that list p
On(B, p) == {b \in B : p \in possible_serial_ports[b]}

\* size_t arithmetic
PlusCountsDown(n, k) == n - k       \* mutated: -- for ++
Plus(n, k) == IF n + k <= SIZE_MAX THEN n + k ELSE n + k - (SIZE_MAX + 1)
MinusNothing(n, k) == n             \* mutated: the decrement is forgotten
Minus(n, k) == IF k <= n THEN n - k ELSE n + (SIZE_MAX + 1) - k

Ambiguators(B, b) == {o \in B : Ambiguates(o, b)}

\* mutated: the ambiguators are not looked at
FeasibleIfAvailable(b, p) == assigned[p] = NoBus /\ b \in available[p]

Feasible(b, p) ==
  /\ assigned[p] = NoBus
  /\ b \in available[p]
  /\ num_ambiguators[p][b] = 0

-----------------------------------------------------------------------------

PlanInit ==
  /\ known = {}
  /\ assigned = [p \in Ports |-> NoBus]
  /\ available = [p \in Ports |-> {}]
  /\ num_ambiguators = [p \in Ports |-> [b \in Buses |-> 0]]
  /\ new_candidates = {}

\* addBuses: per port, the new buses become available, count the ambiguators
\* they find there and count as ambiguators of what they find there
AddBuses(new_buses) ==
  LET Counted(b, p) == IF b \in known
                     THEN On(new_buses, p)
                     ELSE available[p] \cup On(new_buses, p)
  IN
  /\ new_buses \cap known = {}
  /\ known' = known \cup new_buses
  /\ available' = [p \in Ports |-> available[p] \cup On(new_buses, p)]
  /\ num_ambiguators' = [p \in Ports |-> [b \in Buses |->
       IF b \in On(known', p)
       THEN Plus(num_ambiguators[p][b],
                 Cardinality(Ambiguators(Counted(b, p), b)))
       ELSE num_ambiguators[p][b]]]
  /\ UNCHANGED assigned
  /\ new_candidates' =
       {c \in Candidates : c[1] \in new_buses /\ Feasible(c[1], c[2])'}

\* mutated: other ports go on offering b
AssignKeepsOffers(b, p) ==
  LET Released(x, q) ==
        q \in possible_serial_ports[b] \ {p} /\ x \in On(known, q) /\ Ambiguates(b, x)
  IN
  /\ assigned' = [assigned EXCEPT ![p] = b]
  /\ num_ambiguators' = [q \in Ports |-> [x \in Buses |->
       IF Released(x, q) THEN Minus(num_ambiguators[q][x], 1)
                         ELSE num_ambiguators[q][x]]]
  /\ UNCHANGED <<known, available>>
  /\ new_candidates' =
       {c \in Candidates : Released(c[1], c[2]) /\ Feasible(c[1], c[2])'}

\* mutated: what has become unambiguous is not returned
AssignReturnsNothing(b, p) ==
  LET others == possible_serial_ports[b] \ {p} IN
  /\ assigned' = [assigned EXCEPT ![p] = b]
  /\ available' = [q \in Ports |->
       IF q \in others THEN available[q] \ {b} ELSE available[q]]
  /\ num_ambiguators' = [q \in Ports |-> [x \in Buses |->
       IF q \in others /\ x \in On(known, q) /\ Ambiguates(b, x)
       THEN Minus(num_ambiguators[q][x], 1) ELSE num_ambiguators[q][x]]]
  /\ new_candidates' = {}
  /\ UNCHANGED known

\* assign: b is no longer available on the other ports, and what it made
\* ambiguous there may become unambiguous
Assign(b, p) ==
  LET others == possible_serial_ports[b] \ {p}
      Released(x, q) == q \in others /\ x \in On(known, q) /\ Ambiguates(b, x)
  IN
  /\ assigned' = [assigned EXCEPT ![p] = b]
  /\ available' = [q \in Ports |->
       IF q \in others THEN available[q] \ {b} ELSE available[q]]
  /\ num_ambiguators' = [q \in Ports |-> [x \in Buses |->
       IF Released(x, q) THEN Minus(num_ambiguators[q][x], 1)
                         ELSE num_ambiguators[q][x]]]
  /\ UNCHANGED known
  /\ new_candidates' =
       {c \in Candidates : Released(c[1], c[2]) /\ Feasible(c[1], c[2])'}

\* mutated: only the bus is searched for again, not what else may be on p
UnassignForBus(p) ==
  LET b == assigned[p]
      others == IF b = NoBus THEN {} ELSE possible_serial_ports[b] \ {p}
  IN
  /\ On(known, p) # {}
  /\ assigned' = [assigned EXCEPT ![p] = NoBus]
  /\ available' = [q \in Ports |->
       IF q \in others THEN available[q] \cup {b} ELSE available[q]]
  /\ num_ambiguators' = [q \in Ports |-> [x \in Buses |->
       IF q \in others /\ x \in On(known, q) /\ Ambiguates(b, x)
       THEN Plus(num_ambiguators[q][x], 1) ELSE num_ambiguators[q][x]]]
  /\ UNCHANGED known
  /\ new_candidates' =
       {c \in Candidates : b # NoBus /\ c[1] = b /\ Feasible(c[1], c[2])'}

\* unassign: the port is searched for all its buses, and the bus on its other
\* ports, where it again makes others ambiguous.  These are counted after the
\* candidates have been collected.
Unassign(p) ==
  LET b == assigned[p]
      others == IF b = NoBus THEN {} ELSE possible_serial_ports[b] \ {p}
      Retired(x, q) == q \in others /\ x \in On(known, q) /\ Ambiguates(b, x)
      freed == [assigned EXCEPT ![p] = NoBus]
      offers == [q \in Ports |->
        IF q \in others THEN available[q] \cup {b} ELSE available[q]]
      Detected(x, q) == \/ q \in others /\ x = b
                        \/ q = p /\ x \in On(known, p)
  IN
  /\ On(known, p) # {}    \* the port is one the plan has
  /\ assigned' = freed
  /\ available' = offers
  /\ num_ambiguators' = [q \in Ports |-> [x \in Buses |->
       IF Retired(x, q) THEN Plus(num_ambiguators[q][x], 1)
                        ELSE num_ambiguators[q][x]]]
  /\ UNCHANGED known
  /\ new_candidates' =
       IF b = NoBus THEN {}
       ELSE {c \in Candidates :
               /\ Detected(c[1], c[2])
               /\ freed[c[2]] = NoBus
               /\ c[1] \in offers[c[2]]
               /\ num_ambiguators[c[2]][c[1]] = 0}

-----------------------------------------------------------------------------
(***************************************************************************)
(* A client that confirms a candidate only while it is feasible: the check *)
(* stillFeasible() and confirm() are one step.  (PortFinder shows what     *)
(* happens when they are not.)                                             *)
(***************************************************************************)

\* mutated: confirmed without asking stillFeasible
ConfirmUnchecked(b, p) == b \in On(known, p) /\ assigned[p] = NoBus /\ Assign(b, p)

Confirm(b, p) == Feasible(b, p) /\ Assign(b, p)

PlanNext ==
  \/ \E new_buses \in SUBSET Buses \ {{}} : AddBuses(new_buses)
  \/ \E b \in Buses, p \in Ports : Confirm(b, p)
  \/ \E p \in Ports : Unassign(p)

PlanSpec == PlanInit /\ [][PlanNext]_planVars

-----------------------------------------------------------------------------

PlanTypeOK ==
  /\ known \subseteq Buses
  /\ assigned \in [Ports -> Buses \cup {NoBus}]
  /\ available \in [Ports -> SUBSET Buses]
  /\ num_ambiguators \in [Ports -> [Buses -> 0 .. SIZE_MAX]]
  /\ new_candidates \subseteq Candidates

\* A bus is assigned to at most one port, and only to one it lists
\* (possible_ports in PortFinderPlan::assign and unassign).
AssignedOnce ==
  \A p \in Ports : assigned[p] # NoBus =>
    /\ assigned[p] \in On(known, p)
    /\ \A q \in Ports \ {p} : assigned[q] # assigned[p]

\* Port::available is what it is documented to be: the buses that list the
\* port and are not assigned to another one, i.e. what could be searched for
\* if the port were not assigned.
AvailableIsUnassigned ==
  \A p \in Ports :
    available[p] =
      {b \in On(known, p) : \A q \in Ports \ {p} : assigned[q] # b}

\* Port::num_ambiguators, which is only ever incremented and decremented,
\* always is the number of available other buses that ambiguate the bus.
CountsAmbiguators ==
  \A p \in Ports : \A b \in Buses :
    num_ambiguators[p][b] =
      IF b \in On(known, p) THEN Cardinality(Ambiguators(available[p], b))
                            ELSE 0

PlanInv ==
  PlanTypeOK /\ AssignedOnce /\ AvailableIsUnassigned /\ CountsAmbiguators

FeasibleCandidates == {c \in Candidates : Feasible(c[1], c[2])}

\* No two different buses of which one may be mistaken for the other are
\* searched for on a port at the same time: whatever answers on the port
\* is attributed to one bus only (feasible() and operator<= of the buses).
SearchIsUnambiguous ==
  \A c, d \in FeasibleCandidates :
    c[2] = d[2] => ~ Ambiguates(c[1], d[1])

\* On a port with no bus, some bus that may be there is searched for, unless
\* each of them may be mistaken for another of the same registers: no cycle
\* of ambiguities other than between equal buses starves the port.
SomethingToSearch ==
  \A p \in Ports :
    /\ assigned[p] = NoBus
    /\ available[p] # {}
    /\ \A b1, b2 \in available[p] : ~ (Ambiguates(b1, b2) /\ Ambiguates(b2, b1))
    => \E b \in available[p] : Feasible(b, p)

\* The operations return exactly the candidates which they make feasible:
\* none is forgotten (nobody would ever search for it), and none is returned
\* twice (addCandidateIfFeasible: "in fact, newly possible").
ReturnsNewlyFeasible ==
  [][new_candidates' = FeasibleCandidates' \ FeasibleCandidates]_planVars

\* The plan implements the matching of buses and ports
Abstract == INSTANCE PortAssignment WITH announced <- new_candidates
ImplementsAssignment == Abstract!Spec

=============================================================================
