CONSTANTS
  t1 = t1
  t2 = t2
  t3 = t3
  t4 = t4
  t5 = t5
  t6 = t6
  Timers = {t1, t2, t3, t4, t5, t6}
  Deadlines = {1, 2, 3, 4}
  Capacity = 6
  NoTimer = NoTimer
SPECIFICATION Spec
SYMMETRY MCSymmetry
INVARIANTS
  TypeOK
  HeapOrder
  IndexIsPosition
PROPERTIES
  ImplementsTimerSet
