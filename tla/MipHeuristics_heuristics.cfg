SPECIFICATION TimedSpec
CONSTANTS
  Sols = {1, 2, 3, 4, 5}
  Defaults = {0}
  Vars = 2
  At <- MCAt
  Obj <- MCObj
  Excess <- MCExcess
  Feas = {1, 2, 3, 4}
  MaxObj = 6
  MaxCost = 7
  MaxWeight = 4
  MaxSolutions = 4
  AbsGap = 2
  RelGap = 0
  IslandSize = 1
  NewSols = 1
  MaxWithout = 1
INVARIANTS
  TypeOK
  TestInvariant
  ReportedIsHeld
  PreemptedIsOptimal
PROPERTIES
  Terminates
