SPECIFICATION Spec
CONSTANTS
  SeqMax = 2
  Identify = FALSE
  Kinds <- Commands
  Faults <- Safety
  MaxCalls = 2
  MaxLinks = 2
  MaxReady = 2
INVARIANTS
  TypeOK
  AnswersMatch
  PendingExact
  NoCloseUnderWrite
  HealthIsOfTheLink
  StatusSettles
  DeadLinkNotAwaited
CHECK_DEADLOCK FALSE
