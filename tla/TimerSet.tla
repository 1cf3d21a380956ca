------------------------------ MODULE TimerSet ------------------------------
(***************************************************************************)
(* What the heap of a shard promises to TimerManager (timer/timer_heap.h): *)
(* a set of timers with their deadlines, one of the earliest of which is   *)
(* on top.  Add tells whether the new timer went on top, which it does     *)
(* when it is earlier than every other.                                    *)
(***************************************************************************)
EXTENDS Integers

CONSTANTS Timers, Deadlines, NoTimer

VARIABLES
  set,    \* the timers in the heap, pairs of a timer and its deadline
  top,    \* TimerHeap::Top(), or NoTimer
  first   \* what the last operation returned, if it was Add

vars == <<set, top, first>>

Members == {e[1] : e \in set}

Init ==
  /\ set = {}
  /\ top = NoTimer
  /\ first = FALSE

Add(t, d) ==
  /\ t \notin Members
  /\ set' = set \cup {<<t, d>>}
  /\ first' = \A e \in set : d < e[2]
  /\ top' = IF first' THEN t ELSE top

Remove(t) ==
  /\ t \in Members
  /\ set' = {e \in set : e[1] # t}
  /\ first' = FALSE
  /\ \/ set' = {} /\ top' = NoTimer
     \/ \E e \in set' : top' = e[1] /\ \A f \in set' : e[2] <= f[2]

Next ==
  \/ \E t \in Timers, d \in Deadlines : Add(t, d)
  \/ \E t \in Timers : Remove(t)

Spec == Init /\ [][Next]_vars
=============================================================================
