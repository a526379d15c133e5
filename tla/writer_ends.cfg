SPECIFICATION Spec
CONSTANTS
  Caller = {c1, c2}
  LinesEach = 1
  Notice = {}
  Barrier = {b1}
  Sentinel = Sentinel
  NoTicket = NoTicket
  QueueMax = 1
  BatchMax = 2
  MaxRuns = 2
  MaxForeign = 1
  Trouble <- EndTrouble
INVARIANTS
  LossesCounted
PROPERTIES
  CaptureLogPromise
CHECK_DEADLOCK FALSE
