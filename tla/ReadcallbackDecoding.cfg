CONSTANTS
  r1 = r1
  r2 = r2
  r3 = r3
  Readers = {r1, r2}
  Nobody = Nobody
  SlaveIds = {1, 2}
  device <- OneDevice
  bus <- MCBus
  purpose = "NormalOperation"
  Longest = 2
  num_plan_registers = 3
  BurstEnds <- MCBurstEnds
  task_to_plan <- MCTask
  max_retries = 1
  retry_delay = 1
  SIZE_MAX = 3
SPECIFICATION Spec
INVARIANTS DecodesOwnRead
CHECK_DEADLOCK FALSE
