---------------------------- MODULE ModbusContext ----------------------------
(***************************************************************************)
(* The delays that ModbusRTUContext keeps between bus uses.  A context is  *)
(* used by one thread at a time: it belongs to a search, or is guarded by  *)
(* the lock of the connection (Readcallback composes the two).  Instead of *)
(* a clock that grows there are the times that have elapsed since certain  *)
(* events, which count up to the longest delay that somebody waits for.    *)
(***************************************************************************)
EXTENDS Integers, FiniteSetsExt

CONSTANTS
  SlaveIds,   \* of the devices on the bus
  bus,        \* Config::Bus: its two delays, for each purpose
  purpose,    \* "PortAutoDetection" or "NormalOperation"
  Longest     \* bound: elapsed time is not counted further

ASSUME SlaveIdsType == SlaveIds \subseteq Nat
ASSUME PurposeType == purpose \in {"PortAutoDetection", "NormalOperation"}
ASSUME DelaysType ==
  /\ bus.inter_use_delay[purpose] \in Nat /\ bus.inter_device_delay[purpose] \in Nat
  /\ Longest \in Nat
  /\ bus.inter_use_delay[purpose] + bus.inter_device_delay[purpose] <= Longest

VARIABLES
  elapsed,            \* since end_of_last_use_
  last_use_slave_id,  \* last_use_slave_id_
  current_slave_id,   \* current_slave_id_
  using,              \* whether a read is going on
  since,              \* between the previous read, successful or not, and the one
                      \* that is going on, or until now
  previous            \* the slave of the previous read

contextVars == <<elapsed, last_use_slave_id, current_slave_id, using, since, previous>>

NoSlave == -1

interUseDelay == bus.inter_use_delay[purpose]

interDeviceDelay == bus.inter_device_delay[purpose]

inter_device_delay == interDeviceDelay + interUseDelay

\* The constructor
ContextInit ==
  /\ elapsed = 0
  /\ last_use_slave_id = NoSlave /\ current_slave_id = NoSlave
  /\ using = FALSE
  /\ since = Longest /\ previous = NoSlave

Tick(time) == Min({time + 1, Longest})

Pass ==
  /\ elapsed < Longest \/ (~ using /\ since < Longest)
  /\ elapsed' = Tick(elapsed)
  /\ since' = IF using THEN since ELSE Tick(since)
  /\ UNCHANGED <<last_use_slave_id, current_slave_id, using, previous>>

\* mutated: what is selected counts as used
selectDeviceAsUsed(slave) ==
  /\ current_slave_id' = slave /\ last_use_slave_id' = slave
  /\ UNCHANGED <<elapsed, using, since, previous>>

\* If libmodbus rejects the slave id, this is not reached
selectDevice(slave) ==
  /\ current_slave_id' = slave
  /\ UNCHANGED <<elapsed, last_use_slave_id, using, since, previous>>

required_delay ==
  IF current_slave_id = last_use_slave_id THEN interUseDelay ELSE inter_device_delay

\* readRegisters sleeps until the required delay has elapsed, and calls libmodbus
BeginUse ==
  /\ ~ using /\ elapsed >= required_delay
  /\ last_use_slave_id' = current_slave_id
  /\ using' = TRUE
  /\ UNCHANGED <<elapsed, current_slave_id, since, previous>>

\* If libmodbus throws, the assignment to end_of_last_use_ is not reached
EndUse(throws) ==
  /\ using' = FALSE
  /\ elapsed' = IF throws THEN elapsed ELSE 0
  /\ since' = 0 /\ previous' = current_slave_id
  /\ UNCHANGED <<last_use_slave_id, current_slave_id>>

-----------------------------------------------------------------------------

ContextTypeOK ==
  /\ elapsed \in 0 .. Longest /\ since \in 0 .. Longest
  /\ {last_use_slave_id, current_slave_id, previous} \subseteq SlaveIds \cup {NoSlave}
  /\ using \in BOOLEAN

\* The delay that the configuration asks for between two uses
DelayAfter(slave, next) == interUseDelay + IF slave = next THEN 0 ELSE interDeviceDelay

=============================================================================
