SPECIFICATION LongSolveSpec
CONSTANTS
  Jobs = {j1, j2}
  SyncJobs = {}
  LPJobs = {j1}
  Handlers = {h1}
  AbortFlags <- RunningOnly
  NumSlots = 1
  MaxPid = 4
  MaxAborts = 1
  MaxCrashes = 1
  CrashPoints <- Anywhere
  Absent = Absent
  Aborted = Aborted
  Finished = Finished
  None = None
CHECK_DEADLOCK FALSE
PROPERTIES
  ImplementsLifecycle
  AbortStopsWork
