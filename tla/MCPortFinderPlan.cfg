CONSTANTS
  narrow = narrow
  wide = wide
  twin = twin
  far = far
  p1 = p1
  p2 = p2
  p3 = p3
  NoBus = NoBus
  Buses <- MCBuses
  Ports <- MCPorts
  devices <- MCDevices
  possible_serial_ports <- MCPossiblePorts
  SIZE_MAX = 7
SPECIFICATION PlanSpec
INVARIANTS
  PlanTypeOK
  AssignedOnce
  AvailableIsUnassigned
  CountsAmbiguators
  SearchIsUnambiguous
  SomethingToSearch
PROPERTIES
  ReturnsNewlyFeasible
  ImplementsAssignment
