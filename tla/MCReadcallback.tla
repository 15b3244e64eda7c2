--------------------------- MODULE MCReadcallback ---------------------------
(* Metrics of two registers, in bursts of one register and of two; the      *)
(* first register of the second burst is padding.  Two threads read one      *)
(* device, or three threads two devices.                                      *)
EXTENDS Readcallback, TLC

CONSTANTS r1, r2, r3

MCBurstEnds == {1, 3}
MCTask == <<1, 3>>

MCBus ==
  [inter_use_delay |-> [PortAutoDetection |-> 0, NormalOperation |-> 1],
   inter_device_delay |-> [PortAutoDetection |-> 2, NormalOperation |-> 1]]

OneDevice == r1 :> 1 @@ r2 :> 1
TwoDevices == r1 :> 1 @@ r2 :> 1 @@ r3 :> 2

=============================================================================
