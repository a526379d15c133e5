CONSTANTS
  Alias = {"a", "b"}
  MaxPorts = 1
  CarriedMax = 1
  Request = {1, 2, 3}
  MaxMade = 2
  MaxDefs = 2
  MaxCount = 1
  Cancels = FALSE
SPECIFICATION Spec
INVARIANTS
  StopAllStopsAll
CHECK_DEADLOCK FALSE
