SPECIFICATION FairSpec
CONSTANTS
  Caller = {c1, c2}
  LinesEach = 1
  Notice = {}
  Barrier = {b1}
  Sentinel = Sentinel
  NoTicket = NoTicket
  QueueMax = 4
  BatchMax = 2
  MaxRuns = 1
  MaxForeign = 0
  Trouble <- AnyTroubleButLocks
PROPERTIES
  EveryoneAnswered
CHECK_DEADLOCK FALSE
