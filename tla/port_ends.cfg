SPECIFICATION FairSpec
CONSTANTS
  SeqMax = 3
  Identify = FALSE
  Kinds <- Both
  Faults <- Ends
  MaxCalls = 2
  MaxLinks = 1
  MaxReady = 2
PROPERTIES
  CallsEnd
  ReleasesDevice
CHECK_DEADLOCK FALSE
