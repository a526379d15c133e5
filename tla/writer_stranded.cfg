SPECIFICATION FairSpec
CONSTANTS
  Caller = {c1, c2}
  LinesEach = 1
  Notice = {}
  Barrier = {b1}
  Sentinel = Sentinel
  NoTicket = NoTicket
  QueueMax = 1
  BatchMax = 1
  MaxRuns = 1
  MaxForeign = 0
  Trouble <- StrandingTrouble
PROPERTIES
  EveryoneAnswered
CHECK_DEADLOCK FALSE
