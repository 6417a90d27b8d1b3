CONSTANTS
  a = a  b = b  c = c  d = d
  u = u  v = v  w = w
  AllRequests = {a, b, c, d}
  AllVehicles = {u, v, w}
  Nobody = Nobody
  Problems <- MCProblems
  IterationLimit = 4
  MaxMultiple = 2
  ShuffleInterval = 2
  RouteThreshold = 1
  FewLeft = 3
  VeryFewLeft = 2
  Unset = 1000
SPECIFICATION Spec
INVARIANTS TypeOK EachOnce SolutionStands
PROPERTY Ends
