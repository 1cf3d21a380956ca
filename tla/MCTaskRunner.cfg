CONSTANTS
  w1 = w1
  w2 = w2
  c1 = c1
  c2 = c2
  k1 = k1
  k2 = k2
  k3 = k3
  Workers = {w1, w2}
  Clients = {c1}
  Dtor = Dtor
  Tasks = {k1, k2}
  Pill = Pill
  NoTask = NoTask
  NoThread = NoThread
  Cancellers = {w1, w2, c1}
  Awaits <- MCAwaits
SPECIFICATION FairSpec
INVARIANTS
  TypeOK
  NoLostWakeup
  OneHolder
  NotifiedMeansCompleted
  BlockedHasRunner
PROPERTIES
  PostedIsSettled
  BlockedReturns
  DestructorReturns
  ImplementsExecutor
