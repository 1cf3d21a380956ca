CONSTANTS
  App = App
  w1 = w1
  w2 = w2
  Workers = {w1, w2}
  Limit = 1
  MaxChunks = 2
  Builds = {"debug", "release"}
SPECIFICATION Spec
SYMMETRY MCSymmetry
INVARIANTS
  TypeOK
  
  CalledAtMostOnce
  
  ReadyIsServed
PROPERTIES
  SilentAfterDisconnect
CHECK_DEADLOCK FALSE
