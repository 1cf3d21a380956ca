---- MODULE MCTimerHeap ----
(* TimerHeap on small sets: see MCTimerHeap.cfg. *)
EXTENDS TimerHeap, TLC

CONSTANTS t1, t2, t3, t4, t5, t6

MCSymmetry == Permutations(Timers)

====
