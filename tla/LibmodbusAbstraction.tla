------------------------- MODULE LibmodbusAbstraction -------------------------
(***************************************************************************)
(* What the wrapper of libmodbus makes of the results of the library: a    *)
(* negative result becomes a ModbusError that holds errno; some errors are *)
(* worth a retry.  Which error occurs is the library's choice.             *)
(***************************************************************************)
EXTENDS Integers

\* The codes of ModbusError, and POSIX codes
ErrorCodes ==
  {"XILFUN", "XILADD", "XILVAL", "XSFAIL", "XACK", "XSBUSY", "XNACK", "XMEMPAR",
   "XGPATH", "XGTAR", "BADCRC", "BADDATA", "BADEXC", "UNKEXC", "MDATA", "BADSLAVE",
   "ETIMEDOUT", "ENOENT"}

retryFeasible(errno) == errno \in {"XSBUSY", "XMEMPAR", "BADCRC", "ETIMEDOUT"}

\* What modbus_read_registers may return for nb registers: how many were read
Retvals(nb) == -1 .. nb

\* An RTU context has the parity as a letter.  The library's default for the delay
\* is not touched (0 here), unless there is a positive one.
charOfParity(parity) == [Even |-> "E", Odd |-> "O", None |-> "N"][parity]

ContextRTU(port, baud, parity, data_bits, stop_bits, rts_delay) ==
  [device_ |-> port, baud |-> baud, parity |-> charOfParity(parity),
   data_bits |-> data_bits, stop_bits |-> stop_bits,
   rts_delay |-> IF rts_delay > 0 THEN rts_delay ELSE 0]

\* Context::readRegisters throws a ModbusError
Fails(retval) == retval < 0

=============================================================================
