CONSTANTS
  NumDevices = 2
  Readers = {r1, r2, r3}
  BuildFails = FALSE
SPECIFICATION Spec
INVARIANT ClosedIsDeregistered
CHECK_DEADLOCK FALSE
