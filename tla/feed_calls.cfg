SPECIFICATION Spec
CONSTANTS
  Socket = {}
  Poll = {"p"}
  Calls = {"wait", "expect", "forbid"}
  SocketSize = 2
  PollSize = 2
  FrameMax = 1
  MaxSubs = 1
  MaxRows = 3
  MaxTicks = 2
INVARIANTS
  NegativesAreJudged
  
  
PROPERTIES
  CallsAreAnswered
CHECK_DEADLOCK FALSE
