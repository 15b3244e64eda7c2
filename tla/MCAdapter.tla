------------------------------ MODULE MCAdapter ------------------------------
(* Buses on ports for the adapter: `wide' has all registers of `narrow'.    *)
EXTENDS Adapter, TLC

CONSTANTS narrow, wide, p1, p2

Registers(slave, holding) ==
  [slave_id |-> slave, holding_registers |-> holding, input_registers |-> {1}]

MCDevices ==
  [b \in Buses |->
     CASE b = wide -> {Registers(1, {1, 2})}
       [] b = narrow -> {Registers(1, {1})}]

MCPossiblePorts == [b \in Buses |-> Ports]

MCPlugged == p1 :> wide @@ p2 :> narrow

WorkerSymmetry == Permutations(Workers)

=============================================================================
