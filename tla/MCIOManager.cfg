CONSTANTS
  f1 = f1
  wakeup = wakeup
  c1 = c1
  c2 = c2
  cw = cw
  u1 = u1
  w1 = w1
  w2 = w2
  Fds = {f1, wakeup}
  WakeupFd = wakeup
  Controllers = {c1, c2, cw}
  WakeupController = cw
  ModesOf <- MCDisjoint
  Users = {u1}
  Workers = {w1, w2}
  ActsIn = {"readable"}
  Edges <- MCEdges
  MaxTasks = 2
  NDebug = FALSE
  None = None
SPECIFICATION Spec
SYMMETRY MCSymmetry
INVARIANTS
  RegistrationAgrees
  EdgeNotLost
  CalledAsAsked
