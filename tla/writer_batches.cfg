SPECIFICATION Spec
CONSTANTS
  Caller = {c1}
  LinesEach = 3
  Notice = {n1}
  Barrier = {b1}
  Sentinel = Sentinel
  NoTicket = NoTicket
  QueueMax = 1
  BatchMax = 2
  MaxRuns = 1
  MaxForeign = 1
  Trouble <- BatchTrouble
INVARIANTS
  TypeOK
  IdsSound
  StoredAndFedInOrder
  DrainMeansSettled
  LossesCounted
PROPERTIES
  CaptureLogPromise
CHECK_DEADLOCK FALSE
