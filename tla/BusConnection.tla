---------------------------- MODULE BusConnection ----------------------------
(***************************************************************************)
(* What a Bus promises to its owner and to the registry, as its            *)
(* documentation words it: it connects at most once; when the connection   *)
(* is lost, all its devices are deregistered at once and the owner is      *)
(* asked to cancel the bus; and when it is stopped, its devices are        *)
(* deregistered and the owner is asked nothing.  To stop a bus that is not *)
(* open changes nothing here.                                              *)
(***************************************************************************)

CONSTANT Devices      \* the devices that may be registered

VARIABLES
  connection,         \* "new", "open", "lost" (cancelBus is due), or "closed"
  served              \* the devices that are registered

vars == <<connection, served>>

Init == connection = "new" /\ served = {}

-----------------------------------------------------------------------------

Open ==
  /\ connection = "new" /\ connection' = "open"
  /\ UNCHANGED served

OpenFails ==
  /\ connection = "new" /\ connection' = "closed"
  /\ UNCHANGED served

\* Also when the connection is closed already
Registrate(d) ==
  /\ connection # "new"
  /\ served' = served \cup {d}
  /\ UNCHANGED connection

Close(next) ==
  /\ connection = "open" /\ connection' = next
  /\ served' = {}

Lose == Close("lost")

Stop == Close("closed")

CancelBus ==
  /\ connection = "lost" /\ connection' = "closed"
  /\ UNCHANGED served

Next ==
  \/ Open \/ OpenFails \/ Lose \/ CancelBus \/ Stop
  \/ \E d \in Devices : Registrate(d)

Spec == Init /\ [][Next]_vars

=============================================================================
