SPECIFICATION Spec
CONSTANTS
  Inner = 3
  MaxObj = 1
  Problems <- AllProblems
  AbsGap = 0
  RelGap = 0
  MaxInjected = 0
INVARIANTS
  InfeasibleIsInfeasible
