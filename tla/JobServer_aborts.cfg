SPECIFICATION Spec
CONSTANTS
  Jobs = {j1, j2}
  SyncJobs = {}
  LPJobs = {}
  Handlers = {h1}
  AbortFlags <- BothFlags
  NumSlots = 1
  MaxPid = 4
  MaxAborts = 2
  MaxCrashes = 1
  CrashPoints <- Anywhere
  Absent = Absent
  Aborted = Aborted
  Finished = Finished
  None = None
SYMMETRY JobSymmetry
CHECK_DEADLOCK FALSE
INVARIANTS
  TypeOK
  AbortedResult
  NoEmptyResult
  AbortedIsSkipped
  OneProcessPerSlot
