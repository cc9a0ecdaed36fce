SPECIFICATION FairKernelSpec
CONSTANTS
  Threads = {a, b, c}
  Idle = idle
  Null = Null
  EnqueueOn = {"NEW", "RUNNING", "BLOCKED"}
  HostTest = TRUE
  WordCount = 16
  EhdrSize = 2
  PhdrSize = 2
  MaxLoadSegments = 2
  Aligns <- PowersOfTwo
  MaxWrite = 8
  Image <- Calls
  UserRegion <- CallRegions
  OpsGiven <- Registered
  Addr = {0, 3, 4, 11, 12, 15}
  Length = {0, 1, 8, 9, 15}
INVARIANTS
  ListIsFifo
  ReadyIffQueued
  UserBytesOnly
  NoNullCall
  PlanExact
  ImageUsable
PROPERTIES
  ReadyRuns
