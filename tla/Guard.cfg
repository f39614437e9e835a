SPECIFICATION Spec
CONSTANTS
  Req = {q1, q2, q3, q4, q5}
  ip1 = ip1
  ip2 = ip2
  ip3 = ip3
  ip4 = ip4
  Ip = {ip1, ip2, ip3, ip4}
  Block <- Blocked
  Allow <- Allowed
  Requests = 1
  Window = 2
  MapLimit = 1
  MaxTime = 3
SYMMETRY Symmetric
INVARIANTS TypeOK WithinBudget
PROPERTIES RefusedWhenSpent RetryIsEnough WindowsApart SweptIsOver
