CONSTANTS
  s1 = s1
  s2 = s2
  t1 = t1
  t2 = t2
  t3 = t3
  c1 = c1
  c2 = c2
  Shards = {s1, s2}
  Timers = {t1, t3}
  ShardOf <- MCTwoShards
  Callers = {c1, c2}
  Timeouts = {1, 2}
  Ms = 2
  MaxTime = 3
  MaxArms = 1
  MaxDrains = 2
  Prompt = FALSE
  Infinite = 1000
  NoTimer = NoTimer
SPECIFICATION FairSpec
PROPERTIES
  StartedFires
