------------------------------ MODULE BusOrder ------------------------------
(***************************************************************************)
(* How the adapter compares configured buses when it looks for them on     *)
(* serial ports.  A bus is the set of its devices; a device is a record of *)
(* the slave id and the two sets of registers it is expected to have.      *)
(* Looking for a bus means reading all its registers, so a bus whose       *)
(* registers are all present on another bus may be found by mistake where  *)
(* that other bus is connected.                                            *)
(***************************************************************************)

\* `smaller <= larger` on devices: same slave, registers are subsets
DeviceLeq(smaller, larger) ==
  /\ smaller.slave_id = larger.slave_id
  /\ smaller.holding_registers \subseteq larger.holding_registers
  /\ smaller.input_registers \subseteq larger.input_registers

\* `smaller <= larger` on buses: every device is covered by some device
BusLeq(smaller, larger) ==
  \A s \in smaller : \E l \in larger : DeviceLeq(s, l)

=============================================================================
