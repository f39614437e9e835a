SPECIFICATION FairProxySpec
CONSTANTS
  Req = {q1, q2}
  ip1 = ip1
  ip2 = ip2
  ip3 = ip3
  Ip = {ip1, ip2, ip3}
  Block <- Blocked
  Allow <- Allowed
  Requests = 1
  Window = 4
  MapLimit = 1
  MaxTime = 3
  Tls = TRUE
  Second = 2
  Chunks = 2
  Heads <- SomeHeads
INVARIANTS ProxyTypeOK WholeReplies HeadersKept
PROPERTIES RetryAfterReaches PassedOn
