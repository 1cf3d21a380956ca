------------------------------ MODULE Executor ------------------------------
(***************************************************************************)
(* What TaskRunner promises to those who post to it                        *)
(* (threading/task_runner.h): a task that is accepted is handed out once,  *)
(* in the order of PostTask, to a worker that has no other; it is run at   *)
(* most once, and not at all if it is cancelled first; who waits for it    *)
(* waits for its end; no task is handed out once the destructor has begun, *)
(* and when it returns every task has run to its end or is cancelled.      *)
(***************************************************************************)
EXTENDS Sequences

CONSTANTS Tasks, Workers, Threads, NoTask

VARIABLES
  stage,   \* of every task: new, refused, posted, running, finished, dropped
  queue,   \* the tasks not yet handed out, in order
  hand,    \* the task a worker was handed, until it is done with it
  waits,   \* the task whose end a thread awaits
  pool     \* open, closed or gone

vars == <<stage, queue, hand, waits, pool>>

Init ==
  /\ stage = [k \in Tasks |-> "new"]
  /\ queue = <<>>
  /\ hand  = [w \in Workers |-> NoTask]
  /\ waits = [t \in Threads |-> NoTask]
  /\ pool  = "open"

Moves(k, from, to) == stage[k] = from /\ stage' = [stage EXCEPT ![k] = to]

Post(k) ==
  /\ pool = "open"
  /\ Moves(k, "new", "posted")
  /\ queue' = Append(queue, k)
  /\ UNCHANGED <<hand, waits, pool>>

Refuse(k) ==
  /\ pool = "closed"
  /\ Moves(k, "new", "refused")
  /\ UNCHANGED <<queue, hand, waits, pool>>

Take(w) ==
  /\ pool = "open" /\ queue # <<>> /\ hand[w] = NoTask
  /\ hand' = [hand EXCEPT ![w] = Head(queue)]
  /\ queue' = Tail(queue)
  /\ UNCHANGED <<stage, waits, pool>>

Start(w) ==
  /\ hand[w] \in Tasks
  /\ Moves(hand[w], "posted", "running")
  /\ UNCHANGED <<queue, hand, waits, pool>>

Finish(w) ==
  /\ hand[w] \in Tasks
  /\ Moves(hand[w], "running", "finished")
  /\ hand' = [hand EXCEPT ![w] = NoTask]
  /\ UNCHANGED <<queue, waits, pool>>

Drop(k) ==
  /\ Moves(k, "posted", "dropped")
  /\ UNCHANGED <<queue, hand, waits, pool>>

\* A worker was handed a task that is dropped.
Skip(w) ==
  /\ hand[w] \in Tasks /\ stage[hand[w]] = "dropped"
  /\ hand' = [hand EXCEPT ![w] = NoTask]
  /\ UNCHANGED <<stage, queue, waits, pool>>

\* A thread waits for a task that another one runs.
Await(t, k) ==
  /\ waits[t] = NoTask
  /\ \E w \in Workers \ {t} : hand[w] = k
  /\ stage[k] = "running"
  /\ waits' = [waits EXCEPT ![t] = k]
  /\ UNCHANGED <<stage, queue, hand, pool>>

Resume(t) ==
  /\ waits[t] \in Tasks /\ stage[waits[t]] = "finished"
  /\ waits' = [waits EXCEPT ![t] = NoTask]
  /\ UNCHANGED <<stage, queue, hand, pool>>

\* The destructor begins, and ends when nothing is left to do.
Close ==
  /\ pool = "open" /\ pool' = "closed"
  /\ queue' = <<>>
  /\ UNCHANGED <<stage, hand, waits>>

Vanish ==
  /\ pool = "closed" /\ pool' = "gone"
  /\ \A k \in Tasks : stage[k] \notin {"posted", "running"}
  /\ \A w \in Workers : hand[w] = NoTask
  /\ UNCHANGED <<stage, queue, hand, waits>>

Next ==
  \/ \E k \in Tasks : Post(k) \/ Refuse(k) \/ Drop(k)
  \/ \E w \in Workers : Take(w) \/ Start(w) \/ Finish(w) \/ Skip(w)
  \/ \E t \in Threads : Resume(t) \/ \E k \in Tasks : Await(t, k)
  \/ Close \/ Vanish

Spec == Init /\ [][Next]_vars
=============================================================================
