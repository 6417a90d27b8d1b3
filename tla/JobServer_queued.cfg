SPECIFICATION FairSpec
CONSTANTS
  Jobs = {j1, j2}
  SyncJobs = {j2}
  LPJobs = {}
  Handlers = {h1}
  AbortFlags <- QueuedOnly
  NumSlots = 2
  MaxPid = 3
  MaxAborts = 1
  MaxCrashes = 1
  CrashPoints <- InSolve
  Absent = Absent
  Aborted = Aborted
  Finished = Finished
  None = None
INVARIANTS
  EntryHasOwner
PROPERTY
  JobCompletes
