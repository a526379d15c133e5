SPECIFICATION Spec
CONSTANTS
  Cap = 1
  QueueMax = 2
  BatchMax = 2
  NamesMax = 1
  Names = {"a", "b"}
  MaxLines = 4
  Alias = {"a", "b"}
  MaxPorts = 1
  CarriedMax = 1
  Request = {1, 2, 3}
  MaxMade = 3
  MaxCount = 1
  MaxDefs = 2
  Cancels = TRUE
  Socket = {"w"}
  Poll = {}
  Calls = {}
  SocketSize = 2
  PollSize = 2
  FrameMax = 1
  MaxSubs = 1
  MaxRows = 4
  MaxTicks = 2
INVARIANTS
  IngestSound
  PortsSound
  
  BoardSound
  FeedSound
  FollowSound
PROPERTIES
  ReconnectUndoesNothing
CHECK_DEADLOCK FALSE
