-------------------------- MODULE MCPortFinderPlan --------------------------
(* Four buses and three ports for PortFinderPlan: `wide' has all the        *)
(* registers of `narrow' and of `far', which differ in the slave id; `twin' *)
(* has the same registers as `narrow'.                                      *)
EXTENDS PortFinderPlan

CONSTANTS narrow, wide, twin, far, p1, p2, p3

Registers(slave, holding) ==
  [slave_id |-> slave, holding_registers |-> holding, input_registers |-> {1}]

MCBuses == {narrow, wide, twin, far}
MCPorts == {p1, p2, p3}

MCDevices ==
  [b \in MCBuses |->
     CASE b = wide -> {Registers(1, {1, 2}), Registers(2, {1})}
       [] b = far  -> {Registers(2, {1})}
       [] OTHER    -> {Registers(1, {1})}]

MCPossiblePorts ==
  [b \in MCBuses |->
     CASE b = narrow -> {p1, p2, p3}
       [] b = wide   -> {p1, p2, p3}
       [] b = twin   -> {p2, p3}
       [] b = far    -> {p1, p2}]

=============================================================================
