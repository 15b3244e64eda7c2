CONSTANTS
  narrow = narrow
  wide = wide
  p1 = p1
  p2 = p2
  NoBus = NoBus
  Buses = {narrow, wide}
  Ports = {p1, p2}
  main = main
  Threads = {main, t1, t2}
  devices <- MCDevices
  possible_serial_ports <- MCPossiblePorts
  Plugged <- MCPlugged
  SIZE_MAX = 3
  ThrowsLate = TRUE
  MaxFailures = 1
  MaxStarts = 2
  MaxMoves = 0
SPECIFICATION FairSpec
PROPERTIES AllDetected StopReturns
CHECK_DEADLOCK FALSE
