SPECIFICATION SmallSpec
CONSTANTS
  Days = 0
  Cap = 1
  Target = 0
  SweepChunk = 1
  MinSessions = {0, 1}
  MaxClock = 2
  MaxSweptId = 3
  MaxEnded = 1
  Req = {"r1", "r2"}
  Ops = {"start", "stop", "delete", "deleteData", "autoOn", "autoOff"}
  QueueMax = 1
  MaxSpanId = 6
  MaxOpened = 3
  MaxCalls = 2
  MaxRuns = 2
  Workers = 1
  Waiting = 0
  WaitersMax = 1
  MaxAsks = 3
  MaxPurges = 1
  MaxKills = 1
  Client = {"c"}
  Chunk = 2
  MaxNamedId = 3
  MaxBirths = 3
  MaxStarts = 2
  MaxLabels = 1
  Trouble = {"commitFails"}
INVARIANTS
  SweepsSound
  SessionsSound
  ExportsSound
  IdsKept
PROPERTIES
  
  ResetsAreOwed
CHECK_DEADLOCK FALSE
