CONSTANTS
  NumDevices = 2
  Readers = {r1, r2, r3}
  BuildFails = TRUE
SPECIFICATION FairSpec
INVARIANTS TypeOK CancelledOnce
PROPERTIES ImplementsConnection CallsReturn LostIsCancelled
CHECK_DEADLOCK FALSE
