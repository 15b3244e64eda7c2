--------------------------- MODULE PortAssignment ---------------------------
(***************************************************************************)
(* What PortFinderPlan promises to its callers: a partial matching between *)
(* the buses that are known and the ports they may be connected to, and,   *)
(* with every change of the matching, an announcement of exactly those     *)
(* searches <<bus, port>> which the change has made feasible.  Feasibility *)
(* is stated here as the comment in PortFinderPlan.hpp words it, without   *)
(* the counters and sets with which the code keeps track of it.            *)
(***************************************************************************)
EXTENDS BusOrder

CONSTANTS
  Buses,                  \* buses that may be configured
  Ports,                  \* serial port names
  NoBus,                  \* no bus is assigned to a port
  possible_serial_ports,  \* for each bus, the ports it may be connected to
  devices                 \* for each bus, the set of its devices

VARIABLES
  known,      \* buses added so far
  assigned,   \* for each port, the bus assigned to it, or NoBus
  announced   \* the searches the last operation has announced

vars == <<known, assigned, announced>>

Candidates == Buses \X Ports

\* A check for b2 might find b1 instead
Ambiguates(b1, b2) == b1 # b2 /\ BusLeq(devices[b2], devices[b1])

\* b is known, may be on p, and is assigned to no port
Missing(b, p) ==
  /\ b \in known
  /\ p \in possible_serial_ports[b]
  /\ \A q \in Ports : assigned[q] # b

\* Another missing bus might be found on p when looking for b
Ambiguous(b, p) == \E o \in Buses : Missing(o, p) /\ Ambiguates(o, b)

\* It makes sense to look for b on p
SearchFeasible(b, p) ==
  /\ assigned[p] = NoBus
  /\ Missing(b, p)
  /\ ~ Ambiguous(b, p)

FeasibleSearches == {c \in Candidates : SearchFeasible(c[1], c[2])}

-----------------------------------------------------------------------------

Init ==
  /\ known = {}
  /\ assigned = [p \in Ports |-> NoBus]
  /\ announced = {}

\* Every operation announces exactly what it makes feasible
Announce == announced' = FeasibleSearches' \ FeasibleSearches

AddBuses(new_buses) ==
  /\ new_buses \cap known = {}
  /\ known' = known \cup new_buses
  /\ UNCHANGED assigned
  /\ Announce

Assign(b, p) ==
  /\ SearchFeasible(b, p)
  /\ assigned' = [assigned EXCEPT ![p] = b]
  /\ UNCHANGED known
  /\ Announce

Unassign(p) ==
  /\ assigned' = [assigned EXCEPT ![p] = NoBus]
  /\ UNCHANGED known
  /\ Announce

Next ==
  \/ \E new_buses \in SUBSET Buses : AddBuses(new_buses)
  \/ \E b \in Buses, p \in Ports : Assign(b, p)
  \/ \E p \in Ports : Unassign(p)

Spec == Init /\ [][Next]_vars

=============================================================================
