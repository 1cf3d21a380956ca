CONSTANTS
  s1 = s1
  s2 = s2
  t1 = t1
  t2 = t2
  t3 = t3
  c1 = c1
  c2 = c2
  Shards = {s1, s2}
  Timers = {t1, t2, t3}
  ShardOf <- MCShared
  Callers = {c1, c2}
  Timeouts = {1, 2}
  Ms = 2
  MaxTime = 2
  MaxArms = 1
  MaxDrains = 1
  Prompt = TRUE
  Infinite = 1000
  NoTimer = NoTimer
SPECIFICATION FairSpec
INVARIANTS
  TypeOK
  MinDeadlineCovers
  QueueSorted
  EachStartEndsOnce
  NoOversleep
PROPERTIES
  NeverEarly
  StartedFires
