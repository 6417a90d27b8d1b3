SPECIFICATION FairSpec
CONSTANTS
  Jobs = {j1, j2}
  SyncJobs = {}
  LPJobs = {}
  Handlers = {h1}
  AbortFlags <- BothFlags
  NumSlots = 1
  MaxPid = 2
  MaxAborts = 1
  MaxCrashes = 0
  CrashPoints <- Nowhere
  Absent = Absent
  Aborted = Aborted
  Finished = Finished
  None = None
CHECK_DEADLOCK FALSE
PROPERTY
  JobCompletes
