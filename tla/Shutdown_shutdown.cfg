SPECIFICATION FairSpec
CONSTANTS
  Jobs = {j1}
  NumSlots = 1
  MaxPid = 3
  PipeRoom = 1
  MaxEvents = 1
  Exit = Exit
  NoJob = NoJob
  Absent = Absent
  Aborted = Aborted
  Finished = Finished
INVARIANTS
  TypeOK
  NoOrphanWaiter
PROPERTIES
  AnswerStands
  WaitersReleased
  EndsOrHangs
CHECK_DEADLOCK FALSE
