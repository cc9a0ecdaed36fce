SPECIFICATION FairSpec
CONSTANTS
  Threads = {a, b}
  Idle = idle
  Null = Null
  EnqueueOn = {"NEW"}
  HostTest = FALSE
CHECK_DEADLOCK FALSE
PROPERTIES
  ReadyExecutes
