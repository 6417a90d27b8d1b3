SPECIFICATION Spec
CONSTANTS
  Inner = 3
  MaxObj = 2
  Problems <- AllProblems
  AbsGap = 0
  RelGap = 50
  MaxInjected = 2
INVARIANTS
  TypeOK
  BoundsAreValid
  ExhaustedIsSolved
  StatusIsRight
  HeapIsAlive
