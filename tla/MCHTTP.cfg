CONSTANTS
  r1 = r1
  r2 = r2
  w1 = w1
  w2 = w2
  Conns = {r1, r2}
  Workers = {w1, w2}
  kMaxHeaderLength = 8
  Claim <- MCClaim
  Size <- MCSize
  Cuts = {4, 11}
  MaxRequests = 1
  Builds = {"debug", "release"}
SPECIFICATION Spec
INVARIANTS
  AcceptorAlive
  WholeRequest
  WholeResponse
PROPERTIES
  RequestFinishes
CHECK_DEADLOCK FALSE
