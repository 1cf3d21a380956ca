----------------------------- MODULE TimerHeap -----------------------------
(***************************************************************************)
(* The binary heap of a timer shard (timer/timer_heap.cc), one step per    *)
(* turn of the loops of AdjustUpwards and AdjustDownwards.  The operations *)
(* run under the mutex of the shard, one at a time.  The array is          *)
(* timers_[0..count-1]; the slots beyond it hold NoTimer.  MaybeShrink     *)
(* only changes the capacity of the vector and is left out.  deadline_ and *)
(* heap_index_ of a timer outside the heap are 0: Add assigns both before  *)
(* they are read again.                                                    *)
(***************************************************************************)
EXTENDS Integers

CONSTANTS
  Timers,
  Deadlines,
  Capacity,   \* bound: the timers in the heap
  NoTimer

ASSUME HeapAssumption ==
  /\ Deadlines \subseteq Nat /\ Deadlines # {}
  /\ Capacity \in Nat \ {0}
  /\ NoTimer \notin Timers

VARIABLES
  deadline_,    \* Timer::deadline_
  heap_index_,  \* Timer::heap_index_
  timers_,      \* TimerHeap::timers_
  count,        \* timer_count()
  op,           \* the operation in progress: "none", "add" or "remove"
  subject,      \* its argument `timer`
  pc,           \* "idle", or the loop that runs: "up" or "down"
  i,            \* the local `i` of the loop
  moving,       \* the local `t` of the loop
  first,        \* what the last operation returned, if it was Add
  top           \* Top() after the last operation, or NoTimer

vars == <<deadline_, heap_index_, timers_, count, op, subject, pc, i, moving,
          first, top>>

Slots == 0..(Capacity - 1)

(***************************************************************************)
(* The type of every variable.                                             *)
(***************************************************************************)
TypeOK ==
  /\ deadline_ \in [Timers -> Deadlines \cup {0}]
  /\ heap_index_ \in [Timers -> Slots]
  /\ timers_ \in [Slots -> Timers \cup {NoTimer}]
  /\ count \in 0..Capacity
  /\ op \in {"none", "add", "remove"}
  /\ subject \in Timers \cup {NoTimer}
  /\ pc \in {"idle", "up", "down"}
  /\ i \in Slots
  /\ moving \in Timers \cup {NoTimer}
  /\ first \in BOOLEAN
  /\ top \in Timers \cup {NoTimer}

Init ==
  /\ deadline_ = [t \in Timers |-> 0]
  /\ heap_index_ = [t \in Timers |-> 0]
  /\ timers_ = [s \in Slots |-> NoTimer]
  /\ count = 0
  /\ op = "none" /\ subject = NoTimer
  /\ pc = "idle" /\ i = 0 /\ moving = NoTimer
  /\ first = FALSE /\ top = NoTimer

Contains(t) == \E s \in 0..(count - 1) : timers_[s] = t

\* Division in C rounds towards zero: the parent of the root is the root.
Parent(k) == IF k = 0 THEN 0 ELSE (k - 1) \div 2

At(s) == deadline_[timers_[s]]

\* Mutant: timer_count() is read after push_back.
IndexAfterPush == count + 1

\* The index Add gives a new timer.
NewIndex == count

(***************************************************************************)
(* Add, up to the call of AdjustUpwards.  TimerInit assigned the deadline  *)
(* under the same mutex.                                                   *)
(***************************************************************************)
Add(t, d) ==
  /\ pc = "idle"
  /\ ~Contains(t)
  /\ count < Capacity
  /\ deadline_' = [deadline_ EXCEPT ![t] = d]
  /\ heap_index_' = [heap_index_ EXCEPT ![t] = NewIndex]
  /\ timers_' = [timers_ EXCEPT ![count] = t]
  /\ count' = count + 1
  /\ op' = "add" /\ subject' = t
  /\ pc' = "up" /\ i' = NewIndex /\ moving' = t
  /\ UNCHANGED <<first, top>>

(***************************************************************************)
(* The end of an operation: Add returns whether its timer is the root.     *)
(* The deadline of the timer that left the heap, gone, is forgotten.       *)
(***************************************************************************)
Return(index, gone) ==
  /\ first' = (op = "add" /\ index = 0)
  /\ deadline_' = [t \in Timers |-> IF t = gone THEN 0 ELSE deadline_[t]]
  /\ top' = IF count' = 0 THEN NoTimer ELSE timers_'[0]
  /\ op' = "none" /\ subject' = NoTimer
  /\ pc' = "idle" /\ i' = 0 /\ moving' = NoTimer

\* Both loops end with t put where the hole is.
Place ==
  /\ timers_' = [timers_ EXCEPT ![i] = moving]
  /\ heap_index_' = [heap_index_ EXCEPT ![moving] = i]
  /\ UNCHANGED count
  /\ Return(i, IF op = "remove" THEN subject ELSE NoTimer)

\* Mutant: the timer is not told its new position.
MoveUntold(s) ==
  /\ timers_' = [timers_ EXCEPT ![i] = timers_[s]]
  /\ i' = s
  /\ UNCHANGED <<deadline_, heap_index_, count, op, subject, pc, moving, first,
                 top>>

\* The timer at s moves into the hole, and the hole to s.
MoveHole(s) ==
  /\ timers_' = [timers_ EXCEPT ![i] = timers_[s]]
  /\ heap_index_' = [heap_index_ EXCEPT ![timers_[s]] = i]
  /\ i' = s
  /\ UNCHANGED <<deadline_, count, op, subject, pc, moving, first, top>>

\* Mutant: a timer also goes past its equals.
GoesUpPastEqual == i > 0 /\ At(Parent(i)) >= deadline_[moving]

GoesUp == i > 0 /\ At(Parent(i)) > deadline_[moving]

AdjustUpwards ==
  /\ pc = "up"
  /\ IF GoesUp THEN MoveHole(Parent(i)) ELSE Place

\* The child of the hole that AdjustDownwards compares with.
NextChild ==
  LET left  == 1 + 2 * i
      right == left + 1
  IN  IF right < count /\ At(left) > At(right) THEN right ELSE left

GoesDown == 1 + 2 * i < count /\ deadline_[moving] > At(NextChild)

AdjustDownwards ==
  /\ pc = "down"
  /\ IF GoesDown THEN MoveHole(NextChild) ELSE Place

\* Mutant: the last timer is always moved down.
OnlyDownwards(s, last) == FALSE

\* Remove: the last timer, put in place of the removed one, is too early.
TooEarly(s, last) == s > 0 /\ At(Parent(s)) > deadline_[last]

(***************************************************************************)
(* Remove and, for the root, Pop.  The last timer takes the place of the   *)
(* removed one and goes up or down from there.                             *)
(***************************************************************************)
Remove(t) ==
  /\ pc = "idle"
  /\ Contains(t)
  /\ LET s    == heap_index_[t]
         last == timers_[count - 1]
     IN  /\ count' = count - 1
         /\ \/ /\ s = count - 1
               /\ timers_' = [timers_ EXCEPT ![s] = NoTimer]
               /\ heap_index_' = [heap_index_ EXCEPT ![t] = 0]
               /\ Return(s, t)
            \/ /\ s # count - 1
               /\ timers_' = [timers_ EXCEPT ![s] = last,
                                             ![count - 1] = NoTimer]
               /\ heap_index_' = [heap_index_ EXCEPT ![t] = 0, ![last] = s]
               /\ op' = "remove" /\ subject' = t
               /\ pc' = IF TooEarly(s, last) THEN "up" ELSE "down"
               /\ i' = s /\ moving' = last
               /\ UNCHANGED <<deadline_, first, top>>

Next ==
  \/ \E t \in Timers, d \in Deadlines : Add(t, d)
  \/ \E t \in Timers : Remove(t)
  \/ AdjustUpwards
  \/ AdjustDownwards

Spec == Init /\ [][Next]_vars

-----------------------------------------------------------------------------
(***************************************************************************)
(* CheckValid, between operations and, during one, around the hole: every  *)
(* timer is no earlier than its parent.                                    *)
(***************************************************************************)
HeapOrder ==
  \A s \in 1..(count - 1) :
    pc = "idle" \/ (s # i /\ Parent(s) # i) => At(Parent(s)) <= At(s)

(***************************************************************************)
(* heap_index_ of a timer in the heap is its position (Remove and          *)
(* TimerCancel go by it): between operations, the whole array; during one, *)
(* every slot but the hole.                                                *)
(***************************************************************************)
IndexIsPosition ==
  \A s \in 0..(count - 1) :
    pc = "idle" \/ s # i => /\ timers_[s] \in Timers
                            /\ heap_index_[timers_[s]] = s

-----------------------------------------------------------------------------
\* The timers in the heap before the operation in progress.
Contents ==
  LET others == {timers_[s] : s \in {r \in 0..(count - 1) : r # i}}
  IN  CASE op = "none"   -> {timers_[s] : s \in 0..(count - 1)}
        [] op = "add"    -> others
        [] op = "remove" -> others \cup {moving, subject}

Abstract ==
  INSTANCE TimerSet WITH set <- {<<t, deadline_[t]>> : t \in Contents}

(***************************************************************************)
(* The heap implements the set of timers that TimerManager takes it for:   *)
(* Top is a timer with the earliest deadline, and Add returns TRUE exactly *)
(* when the new timer is earlier than all others.                          *)
(***************************************************************************)
ImplementsTimerSet == Abstract!Spec
=============================================================================
