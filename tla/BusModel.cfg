CONSTANTS
  JsonConfigs <- MCJsonConfigs
  Memories <- MCMemories
  MaxCycles = 2
  ByteBase = 2
  WordRegisters = 4
  SIZE_MAX = 31
  INT_MAX = 7
SPECIFICATION Spec
INVARIANTS TypeOK RegisterSetsCorrect PlanOptimal ModelIsConfigured ReadsWhatIsConfigured
CHECK_DEADLOCK FALSE
