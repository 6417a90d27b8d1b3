SPECIFICATION FairSpec
CONSTANTS
  MaxIncumbents = 3
  MaxLog = 2
  MaxFaults = 2
INVARIANTS
  TypeOK
  NoneVanishes
  EndMarksAreTrue
  LogIsWhole
PROPERTIES
  ClientReturns
CHECK_DEADLOCK FALSE
