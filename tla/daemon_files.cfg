SPECIFICATION SmallSpec
CONSTANTS
  Daemons = 2
  Commands = 2
  Kinds = {"stop", "restart"}
  Captures = {"x", "y"}
  MaxCrashes = 1
  Recycles = TRUE
  Writer = {"d", "e"}
  Value = {"u", "v"}
  Job <- TwoWritersSave
  MaxSaves = 2
  MaxEdits = 1
  MaxKills = 1
  Client = {"c", "d", "e"}
  FailMax = 2
  Window = 2
  Lockout = 3
  TableMax = 2
  MaxTicks = 6
  Day = 3
  Retry = 2
  MaxToday = 6
  MaxRuns = 3
INVARIANTS
  
  
  ConfigSound
  GuardSound
PROPERTIES
  RequestsAreSpaced
CHECK_DEADLOCK FALSE
