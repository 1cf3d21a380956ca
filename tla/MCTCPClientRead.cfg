CONSTANTS
  App = App
  w1 = w1
  w2 = w2
  Workers = {w1, w2}
  Limit = 1
  MaxChunks = 1
  Builds = {"debug"}
SPECIFICATION Spec
INVARIANTS
  NoReadPending
CHECK_DEADLOCK FALSE
