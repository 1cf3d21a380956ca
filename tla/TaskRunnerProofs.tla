-------------------------- MODULE TaskRunnerProofs --------------------------
(***************************************************************************)
(* Theorems about TaskRunner, for every finite set of workers and every    *)
(* set of clients and tasks: the inductive invariant IInv and what follows *)
(* from it.                                                                *)
(***************************************************************************)
EXTENDS TaskRunner, FiniteSetTheorems, TLAPS

Settling == {"claimed", "functor", "returned"}
Holding  == Settling \cup {"popped", "notify", "clear"}

\* The queue holds each waiting task once, and pills only after the stop.
QueueInv ==
  /\ \A i, j \in 1..Len(tasks_) :
       tasks_[i] = tasks_[j] /\ tasks_[i] # Pill => i = j
  /\ \A i \in 1..Len(tasks_) :
       IF tasks_[i] = Pill
         THEN stop_triggered_
         ELSE task_state_[tasks_[i]] \in {"kPending", "kCanceled"}

\* Held tasks are held once and are not queued.
HeldInv ==
  /\ \A w \in Workers : held[w] \in Tasks <=> pc[w] \in Holding
  /\ \A v, w \in Workers : held[v] = held[w] /\ held[v] # NoTask => v = w
  /\ \A w \in Workers : \A i \in 1..Len(tasks_) : tasks_[i] # held[w]

\* What the state of a held task can be at each point of Task::Run.
RunInv ==
  /\ \A w \in Workers :
       /\ pc[w] = "popped" =>
            task_state_[held[w]] \in {"kPending", "kCanceled"}
       /\ pc[w] \in Settling =>
            task_state_[held[w]] \in {"kRunning", "kCanceled"}
       /\ pc[w] \in {"notify", "clear"} => task_state_[held[w]] = "kCompleted"
       /\ pc[w] = "notify" => ~notified_[held[w]]
       /\ pc[w] \in {"functor", "returned", "notify", "clear"} =>
            task_runner_[held[w]] = w
  /\ \A k \in Tasks : task_state_[k] = "kRunning" =>
       \E w \in Workers : held[w] = k /\ pc[w] \in Settling
  /\ \A k \in Tasks : notified_[k] => task_state_[k] = "kCompleted"

\* The calls in progress are on tasks that exist.
CallInv ==
  /\ \A k \in Tasks : handle[k] \in {"none", "empty"} =>
       task_state_[k] = "kNone"
  /\ \A k \in Tasks : handle[k] = "live" => task_state_[k] # "kNone"
  /\ \A t \in Threads : at[t] # "none" =>
       arg[t] \in Tasks /\ task_state_[arg[t]] # "kNone"
  /\ \A t \in Threads : at[t] = "cancelCas" =>
       seen[t] \in {"kPending", "kRunning"}
  /\ \A w \in Workers : at[w] # "none" => pc[w] = "functor"

\* A worker past the check of task_runner_ does not wait for its own task.
WaitInv ==
  /\ \A w \in Workers : at[w] \in {"waitState", "blocked"} =>
       arg[w] # held[w]
  /\ \A t \in Threads : at[t] = "blocked" =>
       \/ notified_[arg[t]]
       \/ \E w \in Workers : held[w] = arg[t] /\ WillNotify(w)

HistoryInv ==
  /\ \A k \in doomed : /\ task_state_[k] = "kCanceled"
                       /\ \A w \in Workers :
                            pc[w] \in Settling \cup {"notify"} => held[w] # k
  /\ \A k \in started : task_state_[k] \notin {"kNone", "kPending"}
  /\ doomed \cap started = {}

DtorInv ==
  /\ stop_triggered_ <=> dtor # "alive"
  /\ dtor \in {"join", "pop"} => tasks_ # <<>>
  /\ dtor \in {"drain", "pop", "done"} =>
       \A w \in Workers : pc[w] = "exited"
  /\ dtor # "pop" => at[Dtor] = "none"

IInv ==
  /\ TypeOK
  /\ NoLostWakeup
  /\ QueueInv
  /\ HeldInv
  /\ RunInv
  /\ CallInv
  /\ WaitInv
  /\ HistoryInv
  /\ DtorInv
-----------------------------------------------------------------------------
(* Sequences *)

\* What tasks_.push(task) does to the queue.
LEMMA AppendFacts ==
  ASSUME NEW S, NEW s \in Seq(S), NEW e \in S
  PROVE  /\ Append(s, e) \in Seq(S)
         /\ Append(s, e) # <<>>
         /\ Len(Append(s, e)) = Len(s) + 1
         /\ \A i \in 1..Len(s) : Append(s, e)[i] = s[i]
         /\ Append(s, e)[Len(s) + 1] = e
  OBVIOUS

\* What tasks_.front() and tasks_.pop() do to a queue that is not empty.
LEMMA TailFacts ==
  ASSUME NEW S, NEW s \in Seq(S), s # <<>>
  PROVE  /\ Len(s) \in Nat \ {0}
         /\ Head(s) = s[1]
         /\ Head(s) \in S
         /\ Tail(s) \in Seq(S)
         /\ Len(Tail(s)) = Len(s) - 1
         /\ \A i \in 1..Len(Tail(s)) : Tail(s)[i] = s[i + 1]
  OBVIOUS

\* What the loop that pushes the empty tasks does to the queue.
LEMMA PillsFacts ==
  ASSUME NEW s \in Seq(Tasks \cup {Pill})
  PROVE  /\ s \o Pills \in Seq(Tasks \cup {Pill})
         /\ s \o Pills # <<>>
         /\ Len(s) <= Len(s \o Pills)
         /\ \A i \in 1..Len(s) : (s \o Pills)[i] = s[i]
         /\ \A i \in 1..Len(s \o Pills) : i > Len(s) => (s \o Pills)[i] = Pill
<1>1. Cardinality(Workers) \in Nat /\ Cardinality(Workers) # 0
  BY WorkersAssumption, FS_CardinalityType, FS_EmptySet
<1>2. Pills \in Seq(Tasks \cup {Pill}) /\ Len(Pills) = Cardinality(Workers)
  BY <1>1 DEF Pills
<1>3. \A i \in 1..Len(Pills) : Pills[i] = Pill
  BY <1>1, <1>2 DEF Pills
<1> QED BY <1>1, <1>2, <1>3

\* What a signal, or the signal to all, can do to the workers.
LEMMA SignalFacts ==
  ASSUME TypeOK, Signal \/ SignalAll \/ UNCHANGED pc
  PROVE  /\ pc' \in [Workers -> WorkerPC]
         /\ \A w \in Workers : \/ pc'[w] = pc[w]
                               \/ pc[w] = "waiting" /\ pc'[w] = "idle"
  BY DEF TypeOK, Signal, SignalAll, Waiting, WorkerPC

\* PostTask preserves the invariant.
LEMMA PostTaskPreserves ==
  ASSUME IInv, NEW t \in Threads, NEW k \in Tasks, PostTask(t, k)
  PROVE  IInv'
<1> USE DEF IInv
<1>1. CASE stop_triggered_
  <2>1. handle' = [handle EXCEPT ![k] = "empty"] /\ handle[k] = "none"
    BY <1>1 DEF PostTask
  <2>2. UNCHANGED <<poolVars, taskVars, workerVars, callVars, history>>
    BY <1>1 DEF PostTask, poolVars, taskVars, workerVars, callVars, history
  <2> USE <2>2 DEF poolVars, taskVars, workerVars, callVars, history
  <2>3. TypeOK' /\ CallInv'
    BY <2>1 DEF TypeOK, CallInv
  <2>4. NoLostWakeup' /\ QueueInv' /\ HeldInv' /\ DtorInv'
    BY DEF NoLostWakeup, Waiting, QueueInv, HeldInv, DtorInv
  <2>5. RunInv' /\ WaitInv' /\ HistoryInv'
    BY DEF RunInv, WaitInv, WillNotify, HistoryInv
  <2> QED BY <2>3, <2>4, <2>5
<1>2. CASE ~stop_triggered_
  <2>1. /\ handle[k] = "none"
        /\ task_state_' = [task_state_ EXCEPT ![k] = "kPending"]
        /\ handle' = [handle EXCEPT ![k] = "live"]
        /\ tasks_' = Append(tasks_, k)
        /\ SignalIfEmpty
        /\ UNCHANGED <<stop_triggered_, dtor, task_runner_, notified_, held,
                       callVars, history>>
    BY <1>2 DEF PostTask
  <2>2. /\ tasks_' \in Seq(Tasks \cup {Pill})
        /\ tasks_' # <<>>
        /\ Len(tasks_) \in Nat
        /\ Len(tasks_') = Len(tasks_) + 1
        /\ \A i \in 1..Len(tasks_) : tasks_'[i] = tasks_[i]
        /\ tasks_'[Len(tasks_) + 1] = k
    BY <2>1, AppendFacts DEF TypeOK
  <2>3. /\ pc' \in [Workers -> WorkerPC]
        /\ \A w \in Workers : \/ pc'[w] = pc[w]
                              \/ pc[w] = "waiting" /\ pc'[w] = "idle"
    BY <2>1, SignalFacts DEF SignalIfEmpty
  <2>4. task_state_[k] = "kNone" /\ task_state_' \in [Tasks -> TaskState]
    BY <2>1 DEF CallInv, TypeOK, TaskState
  <2>5. \A w \in Workers : held[w] # k
    BY <2>4, TasksAssumption DEF RunInv, HeldInv, Holding, Settling
  <2>6. \A i \in 1..Len(tasks_) : tasks_[i] # k
    BY <2>4, TasksAssumption DEF QueueInv
  <2>7. TypeOK'
    BY <2>1, <2>2, <2>3, <2>4 DEF TypeOK, callVars, history
  <2>8. NoLostWakeup'
    <3>1. CASE tasks_ # <<>>
      BY <3>1, <2>1, <2>2, <1>2, NoLostWakeup
      DEF NoLostWakeup, SignalIfEmpty, Waiting
    <3>2. CASE tasks_ = <<>>
      <4>1. (Waiting = {} /\ pc' = pc) \/ \E w \in Waiting : pc'[w] = "idle"
        BY <3>2, <2>1 DEF SignalIfEmpty, Signal, Waiting, TypeOK
      <4>2. Waiting' # Workers
        BY <4>1, WorkersAssumption DEF Waiting
      <4> QED BY <4>2, <2>1, <1>2 DEF NoLostWakeup
    <3> QED BY <3>1, <3>2
  <2>9. QueueInv'
    <3> SUFFICES ASSUME NEW i \in 1..Len(tasks_')
                 PROVE  /\ \A j \in 1..Len(tasks_') :
                             tasks_'[i] = tasks_'[j] /\ tasks_'[i] # Pill
                                => i = j
                        /\ IF tasks_'[i] = Pill
                             THEN stop_triggered_'
                             ELSE task_state_'[tasks_'[i]]
                                    \in {"kPending", "kCanceled"}
      BY DEF QueueInv
    <3>1. CASE i = Len(tasks_) + 1
      BY <3>1, <2>1, <2>2, <2>6, TasksAssumption DEF TypeOK
    <3>2. CASE i \in 1..Len(tasks_)
      BY <3>2, <2>1, <2>2, <2>6 DEF QueueInv, TypeOK
    <3> QED BY <3>1, <3>2, <2>2
  <2>10. HeldInv'
    <3>1. \A w \in Workers : \A i \in 1..Len(tasks_') : tasks_'[i] # held[w]
      BY <2>2, <2>5 DEF HeldInv
    <3> QED BY <3>1, <2>1, <2>3 DEF HeldInv, Holding, Settling
  <2>11. RunInv'
    BY <2>1, <2>3, <2>4, <2>5 DEF RunInv, HeldInv, Holding, Settling, TypeOK
  <2>12. CallInv'
    BY <2>1, <2>3, <2>4 DEF CallInv, callVars, TypeOK, Threads
  <2>13. WaitInv'
    BY <2>1, <2>3 DEF WaitInv, WillNotify, callVars
  <2>14. HistoryInv'
    BY <2>1, <2>3, <2>4 DEF HistoryInv, Settling, history, TypeOK
  <2>15. DtorInv'
    BY <2>1, <2>2, <2>3 DEF DtorInv, callVars
  <2> QED BY <2>7, <2>8, <2>9, <2>10, <2>11, <2>12, <2>13, <2>14, <2>15
<1> QED BY <1>1, <1>2

\* RunTasks preserves the invariant.
LEMMA RunTasksPreserves ==
  ASSUME IInv, NEW w \in Workers, RunTasks(w)
  PROVE  IInv'
<1> USE DEF IInv
<1>1. /\ pc[w] = "idle"
      /\ UNCHANGED <<stop_triggered_, dtor, taskVars, callVars, handle, history>>
  BY DEF RunTasks
<1> USE <1>1 DEF taskVars, callVars, history
<1>2. CASE UNCHANGED <<tasks_, held>> /\
           \E q \in {"waiting", "exited"} : pc' = [pc EXCEPT ![w] = q]
  <2>1. PICK q \in {"waiting", "exited"} : pc' = [pc EXCEPT ![w] = q]
    BY <1>2
  <2>2. q = "waiting" => tasks_ = <<>>
    BY <2>1 DEF RunTasks, TypeOK
  <2> USE <1>2, <2>1
  <2>3. TypeOK'
    BY DEF TypeOK, WorkerPC
  <2>4. NoLostWakeup'
    BY <2>2 DEF NoLostWakeup, Waiting, DtorInv, TypeOK
  <2>5. QueueInv' /\ HeldInv'
    BY DEF QueueInv, HeldInv, Holding, Settling, TypeOK
  <2>6. RunInv' /\ HistoryInv'
    BY DEF RunInv, HistoryInv, Settling, TypeOK
  <2>7. CallInv' /\ WaitInv'
    BY DEF CallInv, WaitInv, WillNotify, TypeOK
  <2>8. DtorInv'
    BY DEF DtorInv, TypeOK
  <2> QED BY <2>3, <2>4, <2>5, <2>6, <2>7, <2>8
<1>3. CASE MayPop /\ PopFront(w) /\ pc' = [pc EXCEPT ![w] = "popped"]
  <2>1. /\ tasks_ # <<>> /\ ~stop_triggered_
        /\ held' = [held EXCEPT ![w] = Head(tasks_)]
        /\ tasks_' = Tail(tasks_)
        /\ pc' = [pc EXCEPT ![w] = "popped"]
    BY <1>3 DEF MayPop, PopFront
  <2>2. /\ Len(tasks_) \in Nat \ {0}
        /\ Head(tasks_) = tasks_[1]
        /\ tasks_' \in Seq(Tasks \cup {Pill})
        /\ Len(tasks_') = Len(tasks_) - 1
        /\ \A i \in 1..Len(tasks_') : tasks_'[i] = tasks_[i + 1]
    BY <2>1, TailFacts DEF TypeOK
  <2>3. PICK k \in Tasks : /\ k = tasks_[1]
                           /\ held' = [held EXCEPT ![w] = k]
                           /\ task_state_[k] \in {"kPending", "kCanceled"}
    <3>1. tasks_[1] \in Tasks \cup {Pill}
      BY <2>1, <2>2, TailFacts DEF TypeOK
    <3>2. 1 \in 1..Len(tasks_)
      BY <2>2
    <3>3. /\ tasks_[1] \in Tasks
          /\ task_state_[tasks_[1]] \in {"kPending", "kCanceled"}
      BY <3>1, <3>2, <2>1 DEF QueueInv
    <3> QED BY <3>3, <2>1, <2>2
  <2>4. \A i \in 1..Len(tasks_') : tasks_'[i] # k
    BY <2>2, <2>3, TasksAssumption DEF QueueInv
  <2>5. \A v \in Workers : held[v] # k
    BY <2>2, <2>3 DEF HeldInv
  <2>6. TypeOK'
    BY <2>1, <2>2, <2>3 DEF TypeOK, WorkerPC
  <2>7. NoLostWakeup'
    BY <2>1 DEF NoLostWakeup, Waiting, TypeOK
  <2>8. QueueInv'
    <3> SUFFICES ASSUME NEW i \in 1..Len(tasks_')
                 PROVE  /\ \A j \in 1..Len(tasks_') :
                             tasks_'[i] = tasks_'[j] /\ tasks_'[i] # Pill
                                => i = j
                        /\ IF tasks_'[i] = Pill
                             THEN stop_triggered_'
                             ELSE task_state_'[tasks_'[i]]
                                    \in {"kPending", "kCanceled"}
      BY DEF QueueInv
    <3>1. i + 1 \in 1..Len(tasks_)
      BY <2>2
    <3>2. \A j \in 1..Len(tasks_') : j + 1 \in 1..Len(tasks_)
      BY <2>2
    <3> QED BY <2>2, <3>1, <3>2 DEF QueueInv
  <2>9. HeldInv'
    <3>1. \A v \in Workers : held'[v] = IF v = w THEN k ELSE held[v]
      BY <2>3 DEF TypeOK
    <3>2. \A v \in Workers : pc'[v] = IF v = w THEN "popped" ELSE pc[v]
      BY <2>1 DEF TypeOK
    <3>3. \A v \in Workers : \A i \in 1..Len(tasks_') : tasks_'[i] # held[v]
      BY <2>2 DEF HeldInv
    <3> QED BY <3>1, <3>2, <3>3, <2>4, <2>5 DEF HeldInv, Holding, Settling
  <2>10. RunInv'
    BY <2>1, <2>3, TasksAssumption
    DEF RunInv, HeldInv, Holding, Settling, TypeOK
  <2>11. CallInv'
    BY <2>1 DEF CallInv, TypeOK
  <2>12. WaitInv'
    <3>1. \A v \in Workers \ {w} : held'[v] = held[v] /\ pc'[v] = pc[v]
      BY <2>1, <2>3 DEF TypeOK
    <3>2. at[w] = "none" /\ ~WillNotify(w)
      BY DEF CallInv, WillNotify
    <3> QED BY <3>1, <3>2 DEF WaitInv, WillNotify
  <2>13. HistoryInv'
    BY <2>1, <2>3 DEF HistoryInv, Settling, TypeOK
  <2>14. DtorInv'
    BY <2>1 DEF DtorInv, TypeOK
  <2> QED BY <2>6, <2>7, <2>8, <2>9, <2>10, <2>11, <2>12, <2>13, <2>14
<1> QED BY <1>2, <1>3 DEF RunTasks

\* SpuriousWakeup preserves the invariant.
LEMMA SpuriousWakeupPreserves ==
  ASSUME IInv, NEW w \in Workers, SpuriousWakeup(w)
  PROVE  IInv'
<1> USE ThreadsAssumption, TasksAssumption
    DEF SpuriousWakeup, poolVars, taskVars, callVars, history, IInv, Threads,
        TypeOK, TaskState, WorkerPC, CallPC
<1>1. TypeOK'
  OBVIOUS
<1>2. NoLostWakeup'
  BY DEF NoLostWakeup, Waiting
<1>3. HeldInv'
  BY DEF HeldInv, Holding, Settling
<1>4. RunInv'
  BY DEF RunInv, Settling
<1>5. CallInv'
  BY DEF CallInv
<1>6. WaitInv'
  BY DEF WaitInv, WillNotify
<1>7. HistoryInv'
  BY DEF HistoryInv, Settling
<1>8. DtorInv'
  BY DEF DtorInv
<1>9. QueueInv'
  BY DEF QueueInv
<1> QED BY <1>1, <1>2, <1>3, <1>4, <1>5, <1>6, <1>7, <1>8, <1>9

\* RunClaim preserves the invariant.
LEMMA RunClaimPreserves ==
  ASSUME IInv, NEW w \in Workers, RunClaim(w)
  PROVE  IInv'
<1> USE ThreadsAssumption, TasksAssumption
    DEF RunClaim, ClaimSucceeds, poolVars, callVars, history, IInv, Threads,
        TypeOK, TaskState, WorkerPC, CallPC
<1>1. TypeOK'
  OBVIOUS
<1>2. NoLostWakeup'
  BY DEF NoLostWakeup, Waiting
<1>3. QueueInv'
  BY DEF QueueInv, HeldInv, Holding, Settling
<1>4. HeldInv'
  <2>1. CASE ClaimSucceeds(w)
    BY <2>1 DEF HeldInv, Holding, Settling
  <2>2. CASE ~ClaimSucceeds(w)
    BY <2>2 DEF HeldInv, Holding, Settling
  <2> QED BY <2>1, <2>2
<1>5. RunInv'
  BY DEF RunInv, Settling, HeldInv, Holding
<1>6. CallInv'
  BY DEF CallInv
<1>7. WaitInv'
  BY DEF WaitInv, WillNotify, CallInv, HeldInv, Holding, Settling
<1>8. HistoryInv'
  BY DEF HistoryInv, Settling, RunInv, HeldInv, Holding
<1>9. DtorInv'
  BY DEF DtorInv
<1> QED BY <1>1, <1>2, <1>3, <1>4, <1>5, <1>6, <1>7, <1>8, <1>9

\* RunFunctor preserves the invariant.
LEMMA RunFunctorPreserves ==
  ASSUME IInv, NEW w \in Workers, RunFunctor(w)
  PROVE  IInv'
<1> USE ThreadsAssumption, TasksAssumption
    DEF RunFunctor, poolVars, callVars, IInv, Threads, TypeOK, TaskState,
        WorkerPC, CallPC
<1>1. TypeOK'
  BY DEF HeldInv, Holding, Settling
<1>2. NoLostWakeup'
  BY DEF NoLostWakeup, Waiting
<1>3. HeldInv'
  BY DEF HeldInv, Holding, Settling
<1>4. RunInv'
  BY DEF RunInv, Settling, HeldInv, Holding
<1>5. CallInv'
  BY DEF CallInv
<1>6. WaitInv'
  BY DEF WaitInv, WillNotify, CallInv
<1>7. HistoryInv'
  BY DEF HistoryInv, Settling, RunInv, HeldInv, Holding
<1>8. DtorInv'
  BY DEF DtorInv
<1>9. QueueInv'
  BY DEF QueueInv
<1> QED BY <1>1, <1>2, <1>3, <1>4, <1>5, <1>6, <1>7, <1>8, <1>9

\* FunctorReturns preserves the invariant.
LEMMA FunctorReturnsPreserves ==
  ASSUME IInv, NEW w \in Workers, FunctorReturns(w)
  PROVE  IInv'
<1> USE ThreadsAssumption, TasksAssumption
    DEF FunctorReturns, poolVars, taskVars, callVars, history, IInv, Threads,
        TypeOK, TaskState, WorkerPC, CallPC
<1>1. TypeOK'
  OBVIOUS
<1>2. NoLostWakeup'
  BY DEF NoLostWakeup, Waiting
<1>3. HeldInv'
  BY DEF HeldInv, Holding, Settling
<1>4. RunInv'
  BY DEF RunInv, Settling
<1>5. CallInv'
  BY DEF CallInv
<1>6. WaitInv'
  BY DEF WaitInv, WillNotify, CallInv
<1>7. HistoryInv'
  BY DEF HistoryInv, Settling
<1>8. DtorInv'
  BY DEF DtorInv
<1>9. QueueInv'
  BY DEF QueueInv
<1> QED BY <1>1, <1>2, <1>3, <1>4, <1>5, <1>6, <1>7, <1>8, <1>9

\* RunComplete preserves the invariant.
LEMMA RunCompletePreserves ==
  ASSUME IInv, NEW w \in Workers, RunComplete(w)
  PROVE  IInv'
<1> USE ThreadsAssumption, TasksAssumption
    DEF RunComplete, poolVars, callVars, history, IInv, Threads, TypeOK,
        TaskState, WorkerPC, CallPC
<1>1. TypeOK'
  BY DEF HeldInv, Holding, Settling
<1>2. NoLostWakeup'
  BY DEF NoLostWakeup, Waiting
<1>3. QueueInv'
  BY DEF QueueInv, HeldInv, Holding, Settling
<1>4. HeldInv'
  BY DEF HeldInv, Holding, Settling
<1>5. RunInv'
  BY DEF RunInv, Settling, HeldInv, Holding
<1>6. CallInv'
  <2>1. held[w] \in Tasks /\ task_state_[held[w]] # "kNone"
    BY DEF HeldInv, Holding, RunInv, Settling
  <2> QED BY <2>1 DEF CallInv
<1>7. WaitInv'
  BY DEF WaitInv, WillNotify, CallInv
<1>8. HistoryInv'
  BY DEF HistoryInv, Settling, HeldInv, Holding
<1>9. DtorInv'
  BY DEF DtorInv
<1> QED BY <1>1, <1>2, <1>3, <1>4, <1>5, <1>6, <1>7, <1>8, <1>9

\* RunNotify preserves the invariant.
LEMMA RunNotifyPreserves ==
  ASSUME IInv, NEW w \in Workers, RunNotify(w)
  PROVE  IInv'
<1> USE ThreadsAssumption, TasksAssumption
    DEF RunNotify, poolVars, callVars, history, IInv, Threads, TypeOK,
        TaskState, WorkerPC, CallPC
<1>1. TypeOK'
  BY DEF HeldInv, Holding, Settling
<1>2. NoLostWakeup'
  BY DEF NoLostWakeup, Waiting
<1>3. HeldInv'
  BY DEF HeldInv, Holding, Settling
<1>4. RunInv'
  BY DEF RunInv, Settling, HeldInv, Holding
<1>5. CallInv'
  BY DEF CallInv
<1>6. WaitInv'
  BY DEF WaitInv, WillNotify, CallInv
<1>7. HistoryInv'
  BY DEF HistoryInv, Settling
<1>8. DtorInv'
  BY DEF DtorInv
<1>9. QueueInv'
  BY DEF QueueInv
<1> QED BY <1>1, <1>2, <1>3, <1>4, <1>5, <1>6, <1>7, <1>8, <1>9

\* RunClear preserves the invariant.
LEMMA RunClearPreserves ==
  ASSUME IInv, NEW w \in Workers, RunClear(w)
  PROVE  IInv'
<1> USE ThreadsAssumption, TasksAssumption
    DEF RunClear, poolVars, callVars, history, IInv, Threads, TypeOK,
        TaskState, WorkerPC, CallPC
<1>1. TypeOK'
  BY DEF HeldInv, Holding, Settling
<1>2. NoLostWakeup'
  BY DEF NoLostWakeup, Waiting
<1>3. HeldInv'
  BY DEF HeldInv, Holding, Settling
<1>4. RunInv'
  BY DEF RunInv, Settling, HeldInv, Holding
<1>5. CallInv'
  BY DEF CallInv, HeldInv, Holding, Settling
<1>6. WaitInv'
  BY DEF WaitInv, WillNotify, CallInv, HeldInv, Holding, Settling
<1>7. HistoryInv'
  BY DEF HistoryInv, Settling, HeldInv, Holding
<1>8. DtorInv'
  BY DEF DtorInv
<1>9. QueueInv'
  BY DEF QueueInv
<1> QED BY <1>1, <1>2, <1>3, <1>4, <1>5, <1>6, <1>7, <1>8, <1>9

\* CancelTask preserves the invariant.
LEMMA CancelTaskPreserves ==
  ASSUME IInv, NEW t \in Threads, NEW k \in Tasks, CancelTask(t, k)
  PROVE  IInv'
<1> USE ThreadsAssumption, TasksAssumption
    DEF CancelTask, MayCall, Call, poolVars, taskVars, workerVars, callVars,
        history, IInv, Threads, TypeOK, TaskState, WorkerPC, CallPC
<1>1. TypeOK'
  OBVIOUS
<1>2. CallInv'
  BY DEF CallInv
<1>3. WaitInv'
  <2>1. \A u \in Threads : at'[u] \in {"waitState", "blocked"} =>
          at'[u] = at[u] /\ arg'[u] = arg[u]
    OBVIOUS
  <2> QED BY <2>1 DEF WaitInv, WillNotify
<1>4. DtorInv'
  BY DEF DtorInv, CallInv
<1>5. NoLostWakeup' /\ QueueInv' /\ HeldInv' /\ RunInv' /\ HistoryInv'
  BY DEF NoLostWakeup, QueueInv, HeldInv, RunInv, HistoryInv, Waiting,
         Holding, Settling
<1> QED BY <1>1, <1>2, <1>3, <1>4, <1>5

\* CancelLoad preserves the invariant.
LEMMA CancelLoadPreserves ==
  ASSUME IInv, NEW t \in Threads, CancelLoad(t)
  PROVE  IInv'
<1> USE ThreadsAssumption, TasksAssumption
    DEF CancelLoad, Return, poolVars, taskVars, workerVars, callVars, IInv,
        Threads, TypeOK, TaskState, WorkerPC, CallPC
<1>1. TypeOK'
  <2>1. CASE task_state_[arg[t]] \in {"kPending", "kRunning"}
    BY <2>1
  <2>2. CASE task_state_[arg[t]] = "kCompleted"
    BY <2>2
  <2>3. CASE task_state_[arg[t]] = "kCanceled"
    BY <2>3
  <2> QED BY <2>1, <2>2, <2>3
<1>2. CallInv'
  BY DEF CallInv
<1>3. WaitInv'
  BY DEF WaitInv, WillNotify, CallInv
<1>4. DtorInv'
  BY DEF DtorInv
<1>5. NoLostWakeup' /\ QueueInv' /\ HeldInv' /\ RunInv' /\ HistoryInv'
  BY DEF NoLostWakeup, QueueInv, HeldInv, RunInv, HistoryInv, Waiting,
         Holding, Settling
<1> QED BY <1>1, <1>2, <1>3, <1>4, <1>5

\* CancelCas preserves the invariant.
LEMMA CancelCasPreserves ==
  ASSUME IInv, NEW t \in Threads, CancelCas(t)
  PROVE  IInv'
<1> USE DEF IInv
<1>1. /\ at[t] = "cancelCas"
      /\ arg[t] \in Tasks
      /\ task_state_[arg[t]] # "kNone"
      /\ seen[t] \in {"kPending", "kRunning"}
      /\ UNCHANGED <<poolVars, task_runner_, notified_, workerVars, handle,
                     started, noReached>>
  BY DEF CancelCas, CallInv
<1> USE <1>1 DEF poolVars, workerVars
<1>2. NoLostWakeup' /\ HeldInv'
  BY DEF NoLostWakeup, Waiting, HeldInv
<1>3. CASE ~CasSucceeds(t)
  <2>1. /\ at' = [at EXCEPT ![t] = "cancelLoad"]
        /\ UNCHANGED <<task_state_, doomed, arg, seen>>
    BY <1>3 DEF CancelCas
  <2>2. TypeOK' /\ QueueInv' /\ RunInv' /\ HistoryInv'
    BY <2>1 DEF TypeOK, CallPC, QueueInv, RunInv, HistoryInv
  <2>3. CallInv' /\ WaitInv' /\ DtorInv'
    BY <2>1 DEF CallInv, WaitInv, WillNotify, DtorInv, TypeOK
  <2> QED BY <1>2, <2>2, <2>3
<1>4. CASE CasSucceeds(t)
  <2>1. /\ task_state_[arg[t]] = seen[t]
        /\ task_state_' = [task_state_ EXCEPT ![arg[t]] = "kCanceled"]
        /\ doomed' = IF seen[t] = "kPending" THEN doomed \cup {arg[t]}
                                             ELSE doomed
        /\ at' = [at EXCEPT ![t] = "none"]
        /\ arg' = [arg EXCEPT ![t] = NoTask]
        /\ seen' = [seen EXCEPT ![t] = "kNone"]
    BY <1>4 DEF CancelCas, CasSucceeds, Return
  <2>2. TypeOK'
    BY <2>1 DEF TypeOK, CallPC, TaskState
  <2>3. QueueInv'
    BY <2>1 DEF QueueInv, TypeOK
  <2>4. RunInv'
    BY <2>1, TasksAssumption DEF RunInv, Settling, HeldInv, Holding, TypeOK
  <2>5. CallInv'
    BY <2>1 DEF CallInv, TypeOK, Threads
  <2>6. WaitInv'
    BY <2>1 DEF WaitInv, WillNotify, TypeOK, Threads
  <2>7. HistoryInv'
    BY <2>1 DEF HistoryInv, RunInv, Settling, TypeOK
  <2>8. DtorInv'
    BY <2>1 DEF DtorInv, TypeOK
  <2> QED BY <1>2, <2>2, <2>3, <2>4, <2>5, <2>6, <2>7, <2>8
<1> QED BY <1>3, <1>4

\* WaitIfRunning preserves the invariant.
LEMMA WaitIfRunningPreserves ==
  ASSUME IInv, NEW t \in Threads, NEW k \in Tasks, WaitIfRunning(t, k)
  PROVE  IInv'
<1> USE ThreadsAssumption, TasksAssumption
    DEF WaitIfRunning, MayCall, Call, poolVars, taskVars, workerVars, history,
        IInv, Threads, TypeOK, TaskState, WorkerPC, CallPC
<1>1. TypeOK'
  OBVIOUS
<1>2. CallInv'
  BY DEF CallInv
<1>3. WaitInv'
  BY DEF WaitInv, WillNotify
<1>4. DtorInv'
  BY DEF DtorInv
<1>5. NoLostWakeup' /\ QueueInv' /\ HeldInv' /\ RunInv' /\ HistoryInv'
  BY DEF NoLostWakeup, QueueInv, HeldInv, RunInv, HistoryInv, Waiting,
         Holding, Settling
<1> QED BY <1>1, <1>2, <1>3, <1>4, <1>5

\* WaitLoadRunner preserves the invariant.
LEMMA WaitLoadRunnerPreserves ==
  ASSUME IInv, NEW t \in Threads, WaitLoadRunner(t)
  PROVE  IInv'
<1> USE ThreadsAssumption, TasksAssumption
    DEF WaitLoadRunner, RunsIt, Return, poolVars, taskVars, workerVars,
        history, IInv, Threads, TypeOK, TaskState, WorkerPC, CallPC
<1>1. TypeOK'
  OBVIOUS
<1>2. CallInv'
  BY DEF CallInv
<1>3. WaitInv'
  BY DEF WaitInv, WillNotify, CallInv, RunInv, Settling
<1>4. DtorInv'
  BY DEF DtorInv
<1>5. NoLostWakeup' /\ QueueInv' /\ HeldInv' /\ RunInv' /\ HistoryInv'
  BY DEF NoLostWakeup, QueueInv, HeldInv, RunInv, HistoryInv, Waiting,
         Holding, Settling
<1> QED BY <1>1, <1>2, <1>3, <1>4, <1>5

\* WaitLoadState preserves the invariant.
LEMMA WaitLoadStatePreserves ==
  ASSUME IInv, NEW t \in Threads, WaitLoadState(t)
  PROVE  IInv'
<1> USE ThreadsAssumption, TasksAssumption
    DEF WaitLoadState, Return, poolVars, taskVars, workerVars, history, IInv,
        Threads, TypeOK, TaskState, WorkerPC, CallPC
<1>1. TypeOK'
  OBVIOUS
<1>2. CallInv'
  BY DEF CallInv
<1>3. WaitInv'
  BY DEF WaitInv, WillNotify, CallInv, RunInv, Settling
<1>4. DtorInv'
  BY DEF DtorInv
<1>5. NoLostWakeup' /\ QueueInv' /\ HeldInv' /\ RunInv' /\ HistoryInv'
  BY DEF NoLostWakeup, QueueInv, HeldInv, RunInv, HistoryInv, Waiting,
         Holding, Settling
<1> QED BY <1>1, <1>2, <1>3, <1>4, <1>5

\* WaitNotified preserves the invariant.
LEMMA WaitNotifiedPreserves ==
  ASSUME IInv, NEW t \in Threads, WaitNotified(t)
  PROVE  IInv'
<1> USE ThreadsAssumption, TasksAssumption
    DEF WaitNotified, Return, poolVars, taskVars, workerVars, history, IInv,
        Threads, TypeOK, TaskState, WorkerPC, CallPC
<1>1. TypeOK'
  OBVIOUS
<1>2. CallInv'
  BY DEF CallInv
<1>3. WaitInv'
  BY DEF WaitInv, WillNotify
<1>4. DtorInv'
  BY DEF DtorInv
<1>5. NoLostWakeup' /\ QueueInv' /\ HeldInv' /\ RunInv' /\ HistoryInv'
  BY DEF NoLostWakeup, QueueInv, HeldInv, RunInv, HistoryInv, Waiting,
         Holding, Settling
<1> QED BY <1>1, <1>2, <1>3, <1>4, <1>5

\* DtorStop preserves the invariant.
LEMMA DtorStopPreserves ==
  ASSUME IInv, DtorStop
  PROVE  IInv'
<1> USE ThreadsAssumption, TasksAssumption
    DEF DtorStop, SignalAll, taskVars, callVars, history, IInv, Threads,
        TypeOK, TaskState, WorkerPC, CallPC
<1>1. TypeOK'
  BY PillsFacts
<1>2. NoLostWakeup'
  <2>1. Waiting' = {}
    BY DEF Waiting
  <2> QED BY <2>1, WorkersAssumption DEF NoLostWakeup
<1>3. QueueInv'
  BY PillsFacts DEF QueueInv
<1>4. HeldInv'
  <2>1. \A w \in Workers : \A i \in 1..Len(tasks_') : tasks_'[i] # held[w]
    <3>1. /\ Len(tasks_) \in Nat /\ Len(tasks_') \in Nat
          /\ \A i \in 1..Len(tasks_) : tasks_'[i] = tasks_[i]
          /\ \A i \in 1..Len(tasks_') : i > Len(tasks_) => tasks_'[i] = Pill
      <4> HIDE DEF DtorStop, SignalAll, WorkerPC, CallPC, TaskState
      <4>1. tasks_' = tasks_ \o Pills
        BY DEF DtorStop
      <4>2. tasks_' \in Seq(Tasks \cup {Pill})
        BY <1>1
      <4> QED BY <4>1, <4>2, PillsFacts
    <3> QED BY <3>1 DEF HeldInv
  <2>2. UNCHANGED held /\ \A w \in Workers : pc'[w] \in Holding <=> pc[w] \in Holding
    BY DEF Holding, Settling
  <2> QED BY <2>1, <2>2 DEF HeldInv
<1>5. RunInv'
  BY DEF RunInv, Settling
<1>6. CallInv'
  BY DEF CallInv
<1>7. WaitInv'
  BY DEF WaitInv, WillNotify
<1>8. HistoryInv'
  BY DEF HistoryInv, Settling
<1>9. DtorInv'
  BY PillsFacts DEF DtorInv
<1> QED BY <1>1, <1>2, <1>3, <1>4, <1>5, <1>6, <1>7, <1>8, <1>9

\* DtorJoin preserves the invariant.
LEMMA DtorJoinPreserves ==
  ASSUME IInv, DtorJoin
  PROVE  IInv'
<1> USE ThreadsAssumption, TasksAssumption
    DEF DtorJoin, taskVars, workerVars, callVars, history, IInv, Threads,
        TypeOK, TaskState, WorkerPC, CallPC
<1>1. TypeOK'
  OBVIOUS
<1>2. DtorInv'
  BY DEF DtorInv
<1>3. NoLostWakeup' /\ QueueInv' /\ HeldInv' /\ RunInv' /\ CallInv' /\ WaitInv' /\ HistoryInv'
  BY DEF NoLostWakeup, QueueInv, HeldInv, RunInv, CallInv, WaitInv,
         HistoryInv, Waiting, Holding, Settling, WillNotify
<1> QED BY <1>1, <1>2, <1>3

\* DtorCancelFront preserves the invariant.
LEMMA DtorCancelFrontPreserves ==
  ASSUME IInv, DtorCancelFront
  PROVE  IInv'
<1> USE ThreadsAssumption, TasksAssumption
    DEF DtorCancelFront, Call, taskVars, workerVars, callVars, history, IInv,
        Threads, TypeOK, TaskState, WorkerPC, CallPC
<1>1. TypeOK'
  BY TailFacts
<1>2. CallInv'
  BY TailFacts DEF CallInv, QueueInv
<1>3. WaitInv'
  BY DEF WaitInv, WillNotify
<1>4. DtorInv'
  BY DEF DtorInv
<1>5. NoLostWakeup' /\ QueueInv' /\ HeldInv' /\ RunInv' /\ HistoryInv'
  BY DEF NoLostWakeup, QueueInv, HeldInv, RunInv, HistoryInv, Waiting,
         Holding, Settling
<1> QED BY <1>1, <1>2, <1>3, <1>4, <1>5

\* DtorPop preserves the invariant.
LEMMA DtorPopPreserves ==
  ASSUME IInv, DtorPop
  PROVE  IInv'
<1> USE ThreadsAssumption, TasksAssumption
    DEF DtorPop, taskVars, workerVars, callVars, history, IInv, Threads,
        TypeOK, TaskState, WorkerPC, CallPC
<1>1. TypeOK'
  BY TailFacts DEF DtorInv
<1>2. NoLostWakeup'
  BY TailFacts DEF NoLostWakeup, Waiting, DtorInv
<1>3. QueueInv'
  BY TailFacts DEF QueueInv, DtorInv
<1>4. HeldInv'
  BY TailFacts DEF HeldInv, Holding, Settling, DtorInv
<1>5. DtorInv'
  BY TailFacts DEF DtorInv
<1>6. RunInv' /\ CallInv' /\ WaitInv' /\ HistoryInv'
  BY DEF RunInv, CallInv, WaitInv, HistoryInv, Settling, WillNotify
<1> QED BY <1>1, <1>2, <1>3, <1>4, <1>5, <1>6

\* DtorReturn preserves the invariant.
LEMMA DtorReturnPreserves ==
  ASSUME IInv, DtorReturn
  PROVE  IInv'
<1> USE ThreadsAssumption, TasksAssumption
    DEF DtorReturn, taskVars, workerVars, callVars, history, IInv, Threads,
        TypeOK, TaskState, WorkerPC, CallPC
<1>1. TypeOK'
  OBVIOUS
<1>2. DtorInv'
  BY DEF DtorInv
<1>3. NoLostWakeup' /\ QueueInv' /\ HeldInv' /\ RunInv' /\ CallInv' /\ WaitInv' /\ HistoryInv'
  BY DEF NoLostWakeup, QueueInv, HeldInv, RunInv, CallInv, WaitInv,
         HistoryInv, Waiting, Holding, Settling, WillNotify
<1> QED BY <1>1, <1>2, <1>3


-----------------------------------------------------------------------------
(* The theorems *)

\* The constructor of TaskRunner leaves the invariant established.
LEMMA InitEstablishes == Init => IInv
<1> SUFFICES ASSUME Init PROVE IInv
  OBVIOUS
<1> USE ThreadsAssumption, TasksAssumption DEF Init
<1>1. TypeOK
  <2>1. tasks_ \in Seq(Tasks \cup {Pill})
    OBVIOUS
  <2>2. started \subseteq Tasks /\ doomed \subseteq Tasks
    OBVIOUS
  <2>3. stop_triggered_ \in BOOLEAN /\ noReached \in BOOLEAN
    OBVIOUS
  <2>4. /\ task_state_ \in [Tasks -> TaskState]
        /\ task_runner_ \in [Tasks -> Workers \cup {NoThread}]
        /\ notified_ \in [Tasks -> BOOLEAN]
    BY DEF TaskState
  <2>5. /\ pc \in [Workers -> WorkerPC]
        /\ held \in [Workers -> Tasks \cup {NoTask}]
    BY DEF WorkerPC
  <2>6. /\ at \in [Threads -> CallPC]
        /\ arg \in [Threads -> Tasks \cup {NoTask}]
        /\ seen \in [Threads -> TaskState]
    BY DEF CallPC, TaskState
  <2> QED BY <2>1, <2>2, <2>3, <2>4, <2>5, <2>6 DEF TypeOK
<1>2. NoLostWakeup /\ QueueInv
  BY DEF NoLostWakeup, Waiting, QueueInv
<1>3. HeldInv /\ RunInv
  BY DEF HeldInv, RunInv, Holding, Settling
<1>4. CallInv /\ WaitInv /\ HistoryInv /\ DtorInv
  BY DEF CallInv, WaitInv, HistoryInv, DtorInv, Threads
<1> QED BY <1>1, <1>2, <1>3, <1>4 DEF IInv

\* A stuttering step preserves the invariant.
LEMMA StutterPreserves ==
  ASSUME IInv, UNCHANGED vars
  PROVE  IInv'
<1> USE DEF vars, poolVars, taskVars, workerVars, callVars, history, IInv
<1>1. TypeOK' /\ NoLostWakeup' /\ QueueInv' /\ HeldInv'
  BY DEF TypeOK, NoLostWakeup, Waiting, QueueInv, HeldInv
<1>2. RunInv' /\ CallInv' /\ WaitInv' /\ HistoryInv' /\ DtorInv'
  BY DEF RunInv, CallInv, WaitInv, WillNotify, HistoryInv, DtorInv
<1> QED BY <1>1, <1>2

\* No step of a worker, a caller or the destructor breaks the invariant.
LEMMA NextPreserves == IInv /\ [Next]_vars => IInv'
<1> SUFFICES ASSUME IInv, [Next]_vars PROVE IInv'
  OBVIOUS
<1>1. ASSUME NEW w \in Workers, RunTasks(w) \/ SpuriousWakeup(w) \/ Run(w)
      PROVE  IInv'
  BY <1>1, RunTasksPreserves, SpuriousWakeupPreserves, RunClaimPreserves,
     RunFunctorPreserves, FunctorReturnsPreserves, RunCompletePreserves,
     RunNotifyPreserves, RunClearPreserves DEF Run
<1>2. ASSUME NEW t \in Threads, CallStep(t)
      PROVE  IInv'
  BY <1>2, CancelLoadPreserves, CancelCasPreserves, WaitLoadRunnerPreserves,
     WaitLoadStatePreserves, WaitNotifiedPreserves DEF CallStep
<1>3. ASSUME NEW t \in Threads, NEW k \in Tasks,
             PostTask(t, k) \/ CancelTask(t, k) \/ WaitIfRunning(t, k)
      PROVE  IInv'
  BY <1>3, PostTaskPreserves, CancelTaskPreserves, WaitIfRunningPreserves
<1>4. CASE DtorStop \/ DtorStep
  BY <1>4, DtorStopPreserves, DtorJoinPreserves, DtorCancelFrontPreserves,
     DtorPopPreserves, DtorReturnPreserves DEF DtorStep
<1>5. CASE Terminated \/ UNCHANGED vars
  BY <1>5, StutterPreserves DEF Terminated
<1> QED BY <1>1, <1>2, <1>3, <1>4, <1>5 DEF Next

\* The inductive invariant of TaskRunner holds in every state.
THEOREM Invariance == Spec => []IInv
  BY InitEstablishes, NextPreserves, PTL DEF Spec

(***************************************************************************)
(* Type correctness of the pool.                                           *)
(***************************************************************************)
THEOREM TypeCorrect == Spec => []TypeOK
<1>1. IInv => TypeOK
  BY DEF IInv
<1> QED BY <1>1, Invariance, PTL

(***************************************************************************)
(* However many workers and clients there are, the signal that PostTask    *)
(* sends only to an empty queue is enough: a queued task never faces a     *)
(* pool of which every worker sleeps, and no worker sleeps after the stop. *)
(***************************************************************************)
THEOREM WakeupNotLost == Spec => []NoLostWakeup
<1>1. IInv => NoLostWakeup
  BY DEF IInv
<1> QED BY <1>1, Invariance, PTL

(***************************************************************************)
(* A task is never in two places, so no functor runs twice.                *)
(***************************************************************************)
THEOREM HeldOnce == Spec => []OneHolder
<1>1. IInv => OneHolder
  BY DEF IInv, QueueInv, HeldInv, OneHolder, Queued
<1> QED BY <1>1, Invariance, PTL

(***************************************************************************)
(* The DCHECK of Notification::Notify holds, and a notified task stays     *)
(* kCompleted.                                                             *)
(***************************************************************************)
THEOREM NotificationSound == Spec => []NotifiedMeansCompleted
<1>1. IInv => NotifiedMeansCompleted
  BY DEF IInv, RunInv, NotifiedMeansCompleted
<1> QED BY <1>1, Invariance, PTL

(***************************************************************************)
(* A task cancelled while it was kPending is never entered.                *)
(***************************************************************************)
THEOREM CancelWins == Spec => []CanceledNeverStarts
<1>1. IInv => CanceledNeverStarts
  BY DEF IInv, HistoryInv, CanceledNeverStarts
<1> QED BY <1>1, Invariance, PTL

(***************************************************************************)
(* Whoever blocks in WaitIfRunning waits for another thread that is going  *)
(* to notify.                                                              *)
(***************************************************************************)
THEOREM WaitHasRunner == Spec => []BlockedHasRunner
<1>1. IInv => BlockedHasRunner
  BY DEF IInv, WaitInv, BlockedHasRunner
<1> QED BY <1>1, Invariance, PTL

-----------------------------------------------------------------------------
(* The pool implements Executor *)

\* A pending task is queued, or with a worker that has not claimed it.
PendingInv ==
  \A k \in Tasks : task_state_[k] = "kPending" =>
    \/ Queued(k)
    \/ \E w \in Workers : held[w] = k /\ pc[w] = "popped"

\* A cancelled task was pending when it was cancelled, or is still run.
CanceledInv ==
  \A k \in Tasks : task_state_[k] = "kCanceled" =>
    \/ k \in doomed
    \/ \E w \in Workers : held[w] = k /\ pc[w] \in Settling

\* The drain pops a task after it has cancelled it.
DrainInv ==
  dtor = "pop" /\ Head(tasks_) # Pill =>
    \/ at[Dtor] = "none" /\ task_state_[Head(tasks_)] # "kPending"
    \/ at[Dtor] \in {"cancelLoad", "cancelCas"} /\ arg[Dtor] = Head(tasks_)

SettleInv == PendingInv /\ CanceledInv /\ DrainInv

LEMMA InitSettles == Init => SettleInv
  BY DEF Init, SettleInv, PendingInv, CanceledInv, DrainInv

\* Posting and popping.
LEMMA PostTaskSettles ==
  ASSUME IInv, SettleInv, NEW t \in Threads, NEW k \in Tasks, PostTask(t, k)
  PROVE  SettleInv'
<1> USE DEF IInv, SettleInv
<1>1. CASE stop_triggered_
  BY <1>1 DEF PostTask, callVars, history, PendingInv, CanceledInv, DrainInv, Queued
<1>2. CASE ~stop_triggered_
  <2>1. /\ task_state_' = [task_state_ EXCEPT ![k] = "kPending"]
        /\ task_state_[k] = "kNone"
        /\ tasks_' = Append(tasks_, k)
        /\ Signal \/ UNCHANGED pc
        /\ UNCHANGED <<held, dtor, at, arg, doomed>>
    BY <1>2 DEF PostTask, callVars, history, CallInv, SignalIfEmpty
  <2>2. \A w \in Workers : pc[w] # "waiting" => pc'[w] = pc[w]
    BY <2>1, SignalFacts
  <2>3. /\ \A i \in 1..Len(tasks_) : tasks_'[i] = tasks_[i]
        /\ Len(tasks_') = Len(tasks_) + 1 /\ tasks_'[Len(tasks_) + 1] = k
        /\ Len(tasks_) \in Nat
    BY <2>1, AppendFacts DEF TypeOK
  <2>4. PendingInv'
    <3> SUFFICES ASSUME NEW j \in Tasks, task_state_'[j] = "kPending"
                 PROVE  \/ \E i \in 1..Len(tasks_') : tasks_'[i] = j
                        \/ \E w \in Workers : held'[w] = j /\ pc'[w] = "popped"
      BY DEF PendingInv, Queued
    <3>1. CASE j = k
      BY <2>3, <3>1
    <3>2. CASE j # k
      <4>1. task_state_[j] = "kPending"
        BY <2>1, <3>2 DEF TypeOK
      <4>2. CASE \E i \in 1..Len(tasks_) : tasks_[i] = j
        BY <2>3, <4>2
      <4>3. CASE \E w \in Workers : held[w] = j /\ pc[w] = "popped"
        BY <2>1, <2>2, <4>3
      <4> QED BY <4>1, <4>2, <4>3 DEF PendingInv, Queued
    <3> QED BY <3>1, <3>2
  <2>5. CanceledInv'
    BY <2>1, <2>2 DEF CanceledInv, TypeOK, Settling
  <2>6. DrainInv'
    BY <1>2, <2>1 DEF DrainInv, DtorInv
  <2> QED BY <2>4, <2>5, <2>6
<1> QED BY <1>1, <1>2

LEMMA RunTasksSettles ==
  ASSUME IInv, SettleInv, NEW w \in Workers, RunTasks(w)
  PROVE  SettleInv'
<1> USE DEF IInv, SettleInv
<1>1. pc[w] = "idle" /\ UNCHANGED <<task_state_, dtor, at, arg, doomed>>
  BY DEF RunTasks, taskVars, callVars, history
<1>2. CASE UNCHANGED <<tasks_, held>>
  <2>1. \A v \in Workers : v # w => pc'[v] = pc[v]
    BY <1>2, TasksAssumption DEF RunTasks, TypeOK, PopFront
  <2> QED BY <1>1, <1>2, <2>1 DEF PendingInv, CanceledInv, DrainInv, Queued, Settling
<1>3. CASE ~UNCHANGED <<tasks_, held>>
  <2>1. /\ tasks_ # <<>> /\ ~stop_triggered_
        /\ held' = [held EXCEPT ![w] = Head(tasks_)]
        /\ tasks_' = Tail(tasks_)
        /\ pc' = [pc EXCEPT ![w] = "popped"]
    BY <1>3 DEF RunTasks, MayPop, PopFront
  <2>2. held[w] = NoTask
    BY <1>1 DEF HeldInv, Holding, Settling, TypeOK
  <2>3. PendingInv'
    <3> SUFFICES ASSUME NEW j \in Tasks, task_state_[j] = "kPending"
                 PROVE  \/ \E i \in 1..Len(tasks_') : tasks_'[i] = j
                        \/ \E v \in Workers : held'[v] = j /\ pc'[v] = "popped"
      BY <1>1 DEF PendingInv, Queued
    <3>1. CASE \E i \in 1..Len(tasks_) : tasks_[i] = j
      <4>1. PICK i \in 1..Len(tasks_) : tasks_[i] = j
        BY <3>1
      <4>2. /\ Len(tasks_) \in Nat \ {0} /\ Head(tasks_) = tasks_[1]
            /\ Len(Tail(tasks_)) = Len(tasks_) - 1
            /\ \A m \in 1..Len(Tail(tasks_)) : Tail(tasks_)[m] = tasks_[m + 1]
        BY <2>1, TailFacts DEF TypeOK
      <4>3. CASE i = 1
        BY <2>1, <4>1, <4>2, <4>3 DEF TypeOK
      <4>4. CASE i # 1
        <5>1. i - 1 \in 1..Len(tasks_') /\ tasks_'[i - 1] = j
          BY <2>1, <4>1, <4>2, <4>4
        <5> QED BY <5>1
      <4> QED BY <4>3, <4>4
    <3>2. CASE \E v \in Workers : held[v] = j /\ pc[v] = "popped"
      BY <1>1, <2>1, <3>2 DEF TypeOK
    <3> QED BY <3>1, <3>2 DEF PendingInv, Queued
  <2>4. CanceledInv'
    BY <1>1, <2>1 DEF CanceledInv, TypeOK, Settling
  <2>5. DrainInv'
    BY <1>1, <2>1 DEF DrainInv, DtorInv
  <2> QED BY <2>3, <2>4, <2>5
<1> QED BY <1>2, <1>3

\* What a worker does with its task.
LEMMA RunSettles ==
  ASSUME IInv, SettleInv, NEW w \in Workers, Run(w)
  PROVE  SettleInv'
<1> USE DEF IInv, SettleInv
<1>1. UNCHANGED <<tasks_, dtor, at, arg, doomed>>
  BY DEF Run, RunClaim, RunFunctor, FunctorReturns, RunComplete, RunNotify, RunClear,
         poolVars, callVars, history
<1>2. \A v \in Workers : v # w => pc'[v] = pc[v] /\ held'[v] = held[v]
  BY DEF Run, RunClaim, RunFunctor, FunctorReturns, RunComplete, RunNotify, RunClear, TypeOK
<1>3. /\ \A k \in Tasks : k # held[w] => task_state_'[k] = task_state_[k]
      /\ held[w] \in Tasks
      /\ task_state_'[held[w]] # "kPending"
  BY DEF Run, RunClaim, RunFunctor, FunctorReturns, RunComplete, RunNotify, RunClear, TypeOK,
         taskVars, HeldInv, RunInv, Holding, Settling, ClaimSucceeds
<1>4. task_state_'[held[w]] = "kCanceled" =>
        \/ held[w] \in doomed
        \/ held'[w] = held[w] /\ pc'[w] \in Settling
  <2>1. CASE RunClaim(w)
    <3>1. CASE ClaimSucceeds(w)
      BY <1>3, <2>1, <3>1 DEF RunClaim, TypeOK
    <3>2. CASE ~ClaimSucceeds(w)
      <4>1. task_state_' = task_state_ /\ pc[w] = "popped"
        BY <2>1, <3>2 DEF RunClaim
      <4>2. \A v \in Workers : held[v] = held[w] => v = w
        BY <1>3, TasksAssumption DEF HeldInv
      <4>3. pc[w] \notin Settling
        BY <4>1 DEF Settling
      <4> QED BY <1>3, <4>1, <4>2, <4>3 DEF CanceledInv
    <3> QED BY <3>1, <3>2
  <2>2. CASE RunFunctor(w) \/ FunctorReturns(w)
    BY <2>2 DEF RunFunctor, FunctorReturns, TypeOK, Settling
  <2>3. CASE RunComplete(w) \/ RunNotify(w) \/ RunClear(w)
    BY <1>3, <2>3 DEF RunComplete, RunNotify, RunClear, TypeOK, RunInv
  <2> QED BY <2>1, <2>2, <2>3 DEF Run
<1>5. PendingInv'
  BY <1>1, <1>2, <1>3 DEF PendingInv, Queued
<1>6. CanceledInv'
  BY <1>1, <1>2, <1>3, <1>4 DEF CanceledInv
<1>7. DrainInv'
  <2>1. dtor = "pop" => pc[w] = "exited"
    BY DEF DtorInv
  <2> QED BY <1>1, <2>1 DEF DrainInv, Run, RunClaim, RunFunctor, FunctorReturns, RunComplete,
                            RunNotify, RunClear
<1> QED BY <1>5, <1>6, <1>7

\* A signal that no one sent.
LEMMA SpuriousWakeupSettles ==
  ASSUME IInv, SettleInv, NEW w \in Workers, SpuriousWakeup(w)
  PROVE  SettleInv'
  BY DEF IInv, SettleInv, SpuriousWakeup, poolVars, taskVars, callVars, history, TypeOK,
         PendingInv, CanceledInv, DrainInv, Queued, Settling

\* Cancelling: a task that was pending is doomed, one that was not still runs.
LEMMA CancelCasSettles ==
  ASSUME IInv, SettleInv, NEW t \in Threads, CancelCas(t)
  PROVE  SettleInv'
<1> USE DEF IInv, SettleInv
<1>1. /\ UNCHANGED <<tasks_, dtor, pc, held>> /\ at[t] = "cancelCas"
      /\ \A u \in Threads : u # t => at'[u] = at[u] /\ arg'[u] = arg[u]
  BY DEF CancelCas, poolVars, workerVars, Return, TypeOK
<1>2. CASE CasSucceeds(t)
  <2>1. /\ task_state_' = [task_state_ EXCEPT ![arg[t]] = "kCanceled"]
        /\ doomed' = IF seen[t] = "kPending" THEN doomed \cup {arg[t]} ELSE doomed
        /\ at'[t] = "none" /\ arg[t] \in Tasks
        /\ task_state_[arg[t]] = seen[t] /\ seen[t] \in {"kPending", "kRunning"}
    BY <1>1, <1>2 DEF CancelCas, CasSucceeds, Return, TypeOK, CallInv
  <2>2. PendingInv'
    BY <1>1, <2>1 DEF PendingInv, Queued, TypeOK
  <2>3. CanceledInv'
    BY <1>1, <2>1 DEF CanceledInv, TypeOK, RunInv
  <2>4. DrainInv'
    <3>1. Dtor \in Threads
      BY DEF Threads
    <3>2. CASE t = Dtor
      BY <1>1, <2>1, <3>2 DEF DrainInv, TypeOK
    <3>3. CASE t # Dtor
      <4>1. dtor = "pop" /\ Head(tasks_) # Pill => Head(tasks_) \in Tasks
        BY TailFacts DEF DtorInv, TypeOK
      <4> QED BY <1>1, <2>1, <3>1, <3>3, <4>1 DEF DrainInv, TypeOK
    <3> QED BY <3>2, <3>3
  <2> QED BY <2>2, <2>3, <2>4
<1>3. CASE ~CasSucceeds(t)
  <2>1. at' = [at EXCEPT ![t] = "cancelLoad"] /\ UNCHANGED <<task_state_, doomed, arg>>
    BY <1>3 DEF CancelCas
  <2> QED BY <1>1, <2>1 DEF PendingInv, CanceledInv, DrainInv, Queued, TypeOK, Threads
<1> QED BY <1>2, <1>3

\* A step of a call, or a call, leaves the calls of the other threads alone.
LEMMA OneCaller ==
  ASSUME TypeOK, NEW t \in Threads,
         \/ CancelLoad(t) \/ WaitLoadRunner(t) \/ WaitLoadState(t) \/ WaitNotified(t)
         \/ \E k \in Tasks : CancelTask(t, k) \/ WaitIfRunning(t, k)
  PROVE  \A u \in Threads : u # t => at'[u] = at[u] /\ arg'[u] = arg[u]
<1>1. ASSUME NEW where, NEW k, Call(t, where, k)
      PROVE  \A u \in Threads : u # t => at'[u] = at[u] /\ arg'[u] = arg[u]
  BY <1>1 DEF Call, TypeOK
<1>2. CASE Return(t)
  BY <1>2 DEF Return, TypeOK
<1>3. CASE CancelLoad(t)
  BY <1>2, <1>3 DEF CancelLoad, TypeOK, callVars
<1>4. CASE WaitLoadRunner(t) \/ WaitLoadState(t)
  BY <1>2, <1>4 DEF WaitLoadRunner, WaitLoadState, TypeOK, callVars
<1>5. CASE WaitNotified(t)
  BY <1>2, <1>5 DEF WaitNotified, TypeOK, callVars
<1>6. CASE \E k \in Tasks : CancelTask(t, k) \/ WaitIfRunning(t, k)
  BY <1>1, <1>6 DEF CancelTask, WaitIfRunning, TypeOK, callVars
<1> QED BY <1>3, <1>4, <1>5, <1>6

\* The other steps of calls, and calls.
LEMMA CallSettles ==
  ASSUME IInv, SettleInv, NEW t \in Threads,
         \/ CancelLoad(t) \/ WaitLoadRunner(t) \/ WaitLoadState(t) \/ WaitNotified(t)
         \/ \E k \in Tasks : CancelTask(t, k) \/ WaitIfRunning(t, k)
  PROVE  SettleInv'
<1> USE DEF IInv, SettleInv
<1>1. UNCHANGED <<tasks_, dtor, pc, held, task_state_, doomed>>
  BY DEF CancelLoad, WaitLoadRunner, WaitLoadState, WaitNotified, CancelTask, WaitIfRunning,
         poolVars, taskVars, workerVars, history
<1>2. PendingInv' /\ CanceledInv'
  BY <1>1 DEF PendingInv, CanceledInv, Queued
<1>3. DrainInv'
  <2> SUFFICES ASSUME dtor = "pop", Head(tasks_) # Pill
               PROVE  DrainInv'
    BY <1>1 DEF DrainInv
  <2>1. CASE t # Dtor
    <3>1. at'[Dtor] = at[Dtor] /\ arg'[Dtor] = arg[Dtor]
      BY <2>1, OneCaller DEF Threads
    <3> QED BY <1>1, <3>1 DEF DrainInv
  <2>2. CASE t = Dtor
    <3>1. CancelLoad(t) /\ at[t] = "cancelLoad" /\ arg[t] = Head(tasks_)
      BY <2>2 DEF DrainInv, CancelLoad, WaitLoadRunner, WaitLoadState, WaitNotified,
                  CancelTask, WaitIfRunning, MayCall
    <3>2. task_state_[Head(tasks_)] \in {"kPending", "kCanceled"}
      BY TailFacts DEF QueueInv, DtorInv, TypeOK
    <3>3. /\ arg' = arg
          /\ at'[t] \in {"cancelLoad", "cancelCas"}
      BY <3>1, <3>2 DEF CancelLoad, TypeOK, callVars
    <3> QED BY <1>1, <2>2, <3>1, <3>3 DEF DrainInv
  <2> QED BY <2>1, <2>2
<1> QED BY <1>2, <1>3

\* The destructor.
LEMMA DtorSettles ==
  ASSUME IInv, SettleInv, DtorStop \/ DtorStep
  PROVE  SettleInv'
<1> USE DEF IInv, SettleInv
<1>1. UNCHANGED <<task_state_, doomed, held>>
  BY DEF DtorStop, DtorStep, DtorJoin, DtorCancelFront, DtorPop, DtorReturn, taskVars,
         workerVars, history
<1>2. \A w \in Workers : pc[w] # "waiting" => pc'[w] = pc[w]
  BY SignalFacts DEF DtorStop, DtorStep, DtorJoin, DtorCancelFront, DtorPop, DtorReturn,
                     workerVars
<1>3. CanceledInv'
  BY <1>1, <1>2 DEF CanceledInv, Settling
<1>4. CASE DtorStop
  <2>1. tasks_' = tasks_ \o Pills /\ dtor' = "join"
    BY <1>4 DEF DtorStop
  <2>2. \A k \in Tasks : Queued(k) => Queued(k)'
    <3>1. /\ Len(tasks_) \in Nat /\ Len(tasks_') \in Nat /\ Len(tasks_) <= Len(tasks_')
          /\ \A i \in 1..Len(tasks_) : tasks_'[i] = tasks_[i]
      BY <2>1, PillsFacts DEF TypeOK
    <3> QED BY <3>1 DEF Queued
  <2> QED BY <1>1, <1>2, <1>3, <2>1, <2>2 DEF PendingInv, DrainInv
<1>5. CASE DtorJoin \/ DtorReturn
  BY <1>1, <1>2, <1>3, <1>5 DEF DtorJoin, DtorReturn, PendingInv, DrainInv, Queued
<1>6. CASE DtorCancelFront
  BY <1>1, <1>2, <1>3, <1>6
     DEF DtorCancelFront, PendingInv, DrainInv, Queued, Call, TypeOK, Threads
<1>7. CASE DtorPop
  <2>1. /\ tasks_ # <<>> /\ tasks_' = Tail(tasks_) /\ dtor' = "drain"
        /\ Head(tasks_) # Pill => task_state_[Head(tasks_)] # "kPending"
    BY <1>7 DEF DtorPop, DtorInv, DrainInv
  <2>2. /\ Len(tasks_) \in Nat \ {0} /\ Head(tasks_) = tasks_[1]
        /\ Len(Tail(tasks_)) = Len(tasks_) - 1
        /\ \A m \in 1..Len(Tail(tasks_)) : Tail(tasks_)[m] = tasks_[m + 1]
    BY <2>1, TailFacts DEF TypeOK
  <2>3. ASSUME NEW k \in Tasks, task_state_[k] = "kPending", Queued(k)
        PROVE  Queued(k)'
    <3>1. PICK i \in 1..Len(tasks_) : tasks_[i] = k
      BY <2>3 DEF Queued
    <3>2. i # 1
      BY <2>1, <2>2, <2>3, <3>1, TasksAssumption
    <3>3. i - 1 \in 1..Len(tasks_') /\ tasks_'[i - 1] = k
      BY <2>1, <2>2, <3>1, <3>2
    <3> QED BY <3>3 DEF Queued
  <2> QED BY <1>1, <1>2, <1>3, <2>1, <2>3 DEF PendingInv, DrainInv
<1> QED BY <1>4, <1>5, <1>6, <1>7 DEF DtorStep

LEMMA NextSettles == IInv /\ SettleInv /\ [Next]_vars => SettleInv'
<1> SUFFICES ASSUME IInv, SettleInv, [Next]_vars PROVE SettleInv'
  OBVIOUS
<1>1. ASSUME NEW w \in Workers, RunTasks(w) \/ SpuriousWakeup(w) \/ Run(w)
      PROVE  SettleInv'
  BY <1>1, RunTasksSettles, SpuriousWakeupSettles, RunSettles
<1>2. ASSUME NEW t \in Threads, CallStep(t)
      PROVE  SettleInv'
  BY <1>2, CancelCasSettles, CallSettles DEF CallStep
<1>3. ASSUME NEW t \in Threads, NEW k \in Tasks,
             PostTask(t, k) \/ CancelTask(t, k) \/ WaitIfRunning(t, k)
      PROVE  SettleInv'
  BY <1>3, PostTaskSettles, CallSettles
<1>4. CASE DtorStop \/ DtorStep
  BY <1>4, DtorSettles
<1>5. CASE Terminated \/ UNCHANGED vars
  BY <1>5 DEF Terminated, vars, poolVars, taskVars, workerVars, callVars, history, SettleInv,
              PendingInv, CanceledInv, DrainInv, Queued
<1> QED BY <1>1, <1>2, <1>3, <1>4, <1>5 DEF Next

\* The steps of the abstract variables, pointwise.
LEMMA MovesIs ==
  ASSUME NEW k \in Tasks, NEW a, NEW b, Stage(k) = a, Stage(k)' = b,
         \A j \in Tasks : j # k => Stage(j)' = Stage(j)
  PROVE  Abstract!Moves(k, a, b)
  BY DEF Abstract!Moves

LEMMA HandsIs ==
  ASSUME NEW w \in Workers, NEW k, Hand(w)' = k,
         \A v \in Workers : v # w => Hand(v)' = Hand(v)
  PROVE  [v \in Workers |-> Hand(v)]' = [[v \in Workers |-> Hand(v)] EXCEPT ![w] = k]
  OBVIOUS

LEMMA AwaitedIs ==
  ASSUME NEW t \in Threads, NEW k, Awaited(t)' = k,
         \A u \in Threads : u # t => Awaited(u)' = Awaited(u)
  PROVE  [u \in Threads |-> Awaited(u)]' = [[u \in Threads |-> Awaited(u)] EXCEPT ![t] = k]
  OBVIOUS

StageSame == \A k \in Tasks : Stage(k)' = Stage(k)
HandSame  == \A w \in Workers : Hand(w)' = Hand(w)
WaitSame  == \A t \in Threads : Awaited(t)' = Awaited(t)

LEMMA SameIs ==
  /\ StageSame => UNCHANGED [k \in Tasks |-> Stage(k)]
  /\ HandSame => UNCHANGED [w \in Workers |-> Hand(w)]
  /\ WaitSame => UNCHANGED [t \in Threads |-> Awaited(t)]
  BY DEF StageSame, HandSame, WaitSame

LEMMA Stutters ==
  ASSUME StageSame, HandSame, WaitSame, UNCHANGED <<Queue, Pool>>
  PROVE  UNCHANGED Abstract!vars
  BY SameIs DEF Abstract!vars

\* Init implements the initial state.
LEMMA InitAbstract == Init => Abstract!Init
  BY DEF Init, Abstract!Init, Stage, Queue, Hand, Awaited, Pool

LEMMA PostTaskAbstract ==
  ASSUME IInv, NEW t \in Threads, NEW k \in Tasks, PostTask(t, k)
  PROVE  Abstract!Next
<1> USE DEF IInv
<1>1. /\ UNCHANGED <<stop_triggered_, dtor, held, at, arg, doomed>> /\ handle[k] = "none"
      /\ dtor # "done" /\ k \notin doomed /\ task_state_[k] = "kNone"
  BY DEF PostTask, MayCall, callVars, history, CallInv, HistoryInv
<1>2. \A j \in Tasks : j # k => handle'[j] = handle[j] /\ task_state_'[j] = task_state_[j]
  BY DEF PostTask, TypeOK
<1>3. \A j \in Tasks : j # k => Stage(j)' = Stage(j)
  BY <1>1, <1>2 DEF Stage
<1>4. WaitSame /\ UNCHANGED Pool
  BY <1>1 DEF WaitSame, Awaited, Pool
<1>5. HandSame
  <2>1. Signal \/ SignalAll \/ UNCHANGED pc
    BY DEF PostTask, SignalIfEmpty
  <2> QED BY <1>1, <2>1, SignalFacts DEF HandSame, Hand
<1>6. CASE stop_triggered_
  <2>1. handle'[k] = "empty" /\ UNCHANGED <<tasks_, task_state_>>
    BY <1>6 DEF PostTask, TypeOK
  <2>2. Stage(k) = "new" /\ Stage(k)' = "refused"
    BY <1>1, <2>1 DEF Stage
  <2>3. Abstract!Moves(k, "new", "refused")
    BY <1>3, <2>2, MovesIs
  <2>4. Pool = "closed" /\ UNCHANGED Queue
    BY <1>1, <1>6, <2>1 DEF Pool, DtorInv, Queue
  <2>5. Abstract!Refuse(k)
    BY <1>4, <1>5, <2>3, <2>4, SameIs DEF Abstract!Refuse
  <2> QED BY <2>5 DEF Abstract!Next
<1>7. CASE ~stop_triggered_
  <2>1. handle'[k] = "live" /\ tasks_' = Append(tasks_, k) /\ task_state_'[k] = "kPending"
    BY <1>7 DEF PostTask, TypeOK
  <2>2. Stage(k) = "new" /\ Stage(k)' = "posted"
    BY <1>1, <2>1 DEF Stage
  <2>3. Abstract!Moves(k, "new", "posted")
    BY <1>3, <2>2, MovesIs
  <2>4. Pool = "open" /\ Queue' = Append(Queue, k)
    BY <1>1, <1>7, <2>1 DEF Pool, DtorInv, Queue
  <2>5. Abstract!Post(k)
    BY <1>4, <1>5, <2>3, <2>4, SameIs DEF Abstract!Post
  <2> QED BY <2>5 DEF Abstract!Next
<1> QED BY <1>6, <1>7

LEMMA RunTasksAbstract ==
  ASSUME IInv, NEW w \in Workers, RunTasks(w)
  PROVE  Abstract!Next \/ UNCHANGED Abstract!vars
<1> USE DEF IInv
<1>1. /\ UNCHANGED <<stop_triggered_, dtor, task_state_, handle, doomed, at, arg>>
      /\ pc[w] = "idle"
  BY DEF RunTasks, taskVars, callVars, history
<1>2. StageSame /\ WaitSame /\ UNCHANGED Pool
  BY <1>1 DEF StageSame, WaitSame, Stage, Awaited, Pool
<1>3. CASE UNCHANGED <<tasks_, held>>
  <2>1. (pc' = [pc EXCEPT ![w] = "waiting"]) \/ (pc' = [pc EXCEPT ![w] = "exited"])
        \/ ~UNCHANGED <<tasks_, held>>
    <3>1. MayPop /\ PopFront(w) => tasks_' # tasks_
      BY TailFacts DEF MayPop, PopFront, TypeOK
    <3> QED BY <3>1 DEF RunTasks
  <2>2. HandSame /\ UNCHANGED Queue
    BY <1>1, <1>3, <2>1 DEF HandSame, Hand, Queue, TypeOK
  <2> QED BY <1>2, <2>2, Stutters
<1>4. CASE ~UNCHANGED <<tasks_, held>>
  <2>1. /\ tasks_ # <<>> /\ ~stop_triggered_
        /\ held' = [held EXCEPT ![w] = Head(tasks_)]
        /\ tasks_' = Tail(tasks_)
        /\ pc' = [pc EXCEPT ![w] = "popped"]
    BY <1>4 DEF RunTasks, MayPop, PopFront
  <2>2. Pool = "open" /\ Queue # <<>> /\ Hand(w) = NoTask /\ Queue' = Tail(Queue)
    BY <1>1, <2>1 DEF Pool, Queue, Hand, DtorInv
  <2>3. PICK k : k = Head(Queue)
    OBVIOUS
  <2>4. Hand(w)' = k /\ \A v \in Workers : v # w => Hand(v)' = Hand(v)
    BY <2>1, <2>3 DEF Hand, Queue, TypeOK
  <2>5. Abstract!Take(w)
    BY <1>2, <2>2, <2>3, <2>4, HandsIs, SameIs DEF Abstract!Take
  <2> QED BY <2>5 DEF Abstract!Next
<1> QED BY <1>3, <1>4

LEMMA RunAbstract ==
  ASSUME IInv, SettleInv, NEW w \in Workers, Run(w)
  PROVE  Abstract!Next \/ UNCHANGED Abstract!vars
<1> USE DEF IInv
<1>1. UNCHANGED <<tasks_, stop_triggered_, dtor, at, arg, doomed, handle>>
  BY DEF Run, RunClaim, RunFunctor, FunctorReturns, RunComplete, RunNotify, RunClear,
         poolVars, callVars, history
<1>2. WaitSame /\ UNCHANGED <<Queue, Pool>>
  BY <1>1 DEF WaitSame, Awaited, Queue, Pool
<1>3. PICK k \in Tasks : k = held[w]
  BY DEF Run, RunClaim, RunFunctor, FunctorReturns, RunComplete, RunNotify, RunClear,
         HeldInv, Holding, Settling
<1>4. handle[k] # "none" \/ task_state_[k] = "kNone"
  BY DEF TypeOK, CallInv
<1>5. /\ \A v \in Workers : v # w => pc'[v] = pc[v] /\ held'[v] = held[v]
      /\ \A j \in Tasks : j # k => task_state_'[j] = task_state_[j]
  BY <1>3 DEF Run, RunClaim, RunFunctor, FunctorReturns, RunComplete, RunNotify, RunClear,
              TypeOK, taskVars
<1>6. /\ \A v \in Workers : v # w => Hand(v)' = Hand(v)
      /\ \A j \in Tasks : j # k => Stage(j)' = Stage(j)
  BY <1>1, <1>5 DEF Hand, Stage
<1>7. CASE RunClaim(w) /\ ClaimSucceeds(w)
  <2>1. /\ pc[w] = "popped" /\ pc'[w] = "claimed" /\ held'[w] = k
        /\ task_state_[k] = "kPending" /\ task_state_'[k] = "kRunning"
    BY <1>3, <1>7 DEF RunClaim, ClaimSucceeds, TypeOK
  <2>2. k \notin doomed
    BY <2>1 DEF HistoryInv
  <2>3. /\ Hand(w) = k /\ HandSame
        /\ Stage(k) = "posted" /\ Stage(k)' = "running"
    BY <1>1, <1>3, <1>4, <1>6, <2>1, <2>2 DEF Hand, HandSame, Stage
  <2>4. Abstract!Start(w)
    BY <1>2, <1>6, <2>3, MovesIs, SameIs DEF Abstract!Start
  <2> QED BY <2>4 DEF Abstract!Next
<1>8. CASE RunClaim(w) /\ ~ClaimSucceeds(w)
  <2>1. /\ pc[w] = "popped" /\ pc'[w] = "idle" /\ UNCHANGED task_state_
        /\ task_state_[k] = "kCanceled"
    BY <1>3, <1>8 DEF RunClaim, ClaimSucceeds, TypeOK, RunInv
  <2>2. k \in doomed
    BY <1>3, <2>1, TasksAssumption DEF SettleInv, CanceledInv, HeldInv, Settling
  <2>3. /\ Hand(w) = k /\ Hand(w)' = NoTask /\ Stage(k) = "dropped"
        /\ StageSame
    BY <1>1, <1>3, <1>4, <2>1, <2>2 DEF Hand, Stage, StageSame
  <2>4. Abstract!Skip(w)
    BY <1>2, <1>6, <2>3, HandsIs, SameIs DEF Abstract!Skip
  <2> QED BY <2>4 DEF Abstract!Next
<1>9. CASE RunComplete(w)
  <2>1. /\ pc[w] = "returned" /\ pc'[w] = "notify"
        /\ task_state_[k] \in {"kRunning", "kCanceled"} /\ task_state_'[k] = "kCompleted"
    BY <1>3, <1>9 DEF RunComplete, TypeOK, RunInv, Settling
  <2>2. k \notin doomed
    BY <1>3, <2>1 DEF HistoryInv, Settling
  <2>3. /\ Hand(w) = k /\ Hand(w)' = NoTask
        /\ Stage(k) = "running" /\ Stage(k)' = "finished"
    BY <1>1, <1>3, <1>4, <2>1, <2>2 DEF Hand, Stage
  <2>4. Abstract!Finish(w)
    BY <1>2, <1>6, <2>3, MovesIs, HandsIs, SameIs DEF Abstract!Finish
  <2> QED BY <2>4 DEF Abstract!Next
<1>10. CASE RunFunctor(w) \/ FunctorReturns(w) \/ RunNotify(w) \/ RunClear(w)
  <2>1. UNCHANGED task_state_ /\ Hand(w)' = Hand(w)
    BY <1>10 DEF RunFunctor, FunctorReturns, RunNotify, RunClear, taskVars, Hand, TypeOK
  <2>2. StageSame /\ HandSame
    BY <1>1, <1>6, <2>1 DEF StageSame, HandSame, Stage
  <2> QED BY <1>2, <2>2, Stutters
<1> QED BY <1>7, <1>8, <1>9, <1>10 DEF Run

LEMMA CancelCasAbstract ==
  ASSUME IInv, NEW t \in Threads, CancelCas(t)
  PROVE  Abstract!Next \/ UNCHANGED Abstract!vars
<1> USE DEF IInv
<1>1. UNCHANGED <<tasks_, stop_triggered_, dtor, pc, held, handle>> /\ at[t] = "cancelCas"
  BY DEF CancelCas, poolVars, workerVars
<1>2. HandSame /\ UNCHANGED <<Queue, Pool>>
  BY <1>1 DEF HandSame, Hand, Queue, Pool
<1>3. WaitSame
  BY <1>1 DEF CancelCas, Return, WaitSame, Awaited, TypeOK
<1>4. CASE ~CasSucceeds(t)
  <2>1. StageSame
    BY <1>1, <1>4 DEF CancelCas, StageSame, Stage
  <2> QED BY <1>2, <1>3, <2>1, Stutters
<1>5. CASE CasSucceeds(t)
  <2>1. PICK k \in Tasks : k = arg[t] /\ task_state_[k] = seen[t]
                           /\ seen[t] \in {"kPending", "kRunning"}
    BY <1>1, <1>5 DEF CallInv, CasSucceeds
  <2>2. /\ task_state_' = [task_state_ EXCEPT ![k] = "kCanceled"]
        /\ doomed' = IF seen[t] = "kPending" THEN doomed \cup {k} ELSE doomed
    BY <1>5, <2>1 DEF CancelCas
  <2>3. k \notin doomed /\ handle[k] # "none"
    BY <2>1 DEF HistoryInv, CallInv
  <2>4. \A j \in Tasks : j # k => Stage(j)' = Stage(j)
    BY <1>1, <2>2 DEF Stage, TypeOK
  <2>5. CASE seen[t] = "kPending"
    <3>1. Stage(k) = "posted" /\ Stage(k)' = "dropped"
      <4>1. task_state_'[k] = "kCanceled" /\ k \in doomed' /\ task_state_[k] = "kPending"
        BY <2>1, <2>2, <2>5 DEF TypeOK
      <4> QED BY <1>1, <2>3, <4>1 DEF Stage
    <3>2. Abstract!Drop(k)
      BY <1>2, <1>3, <2>4, <3>1, MovesIs, SameIs DEF Abstract!Drop
    <3> QED BY <3>2 DEF Abstract!Next
  <2>6. CASE seen[t] = "kRunning"
    <3>1. StageSame
      BY <1>1, <2>1, <2>2, <2>3, <2>4, <2>6 DEF Stage, StageSame, TypeOK
    <3> QED BY <1>2, <1>3, <3>1, Stutters
  <2> QED BY <2>1, <2>5, <2>6
<1> QED BY <1>4, <1>5

LEMMA CallAbstract ==
  ASSUME IInv, NEW t \in Threads,
         \/ CancelLoad(t) \/ WaitLoadRunner(t) \/ WaitLoadState(t) \/ WaitNotified(t)
         \/ \E k \in Tasks : CancelTask(t, k) \/ WaitIfRunning(t, k)
  PROVE  Abstract!Next \/ UNCHANGED Abstract!vars
<1> USE DEF IInv
<1>1. UNCHANGED <<tasks_, stop_triggered_, dtor, pc, held, task_state_, doomed>>
  BY DEF CancelLoad, WaitLoadRunner, WaitLoadState, WaitNotified, CancelTask, WaitIfRunning,
         poolVars, taskVars, workerVars, history
<1>2. HandSame /\ UNCHANGED <<Queue, Pool>>
  BY <1>1 DEF HandSame, Hand, Queue, Pool
<1>3. StageSame
  <2>1. \A k \in Tasks : handle'[k] = "none" <=> handle[k] = "none"
    BY DEF CancelLoad, WaitLoadRunner, WaitLoadState, WaitNotified, CancelTask,
           WaitIfRunning, TypeOK
  <2> QED BY <1>1, <2>1 DEF StageSame, Stage
<1>4. \A u \in Threads : u # t => Awaited(u)' = Awaited(u)
  BY OneCaller DEF Awaited
<1>5. CASE WaitLoadState(t) /\ task_state_[arg[t]] = "kRunning"
  <2>1. PICK k \in Tasks : k = arg[t]
    BY <1>5 DEF WaitLoadState, CallInv
  <2>2. at[t] = "waitState" /\ at'[t] = "blocked" /\ arg'[t] = k
    BY <1>5, <2>1 DEF WaitLoadState, TypeOK
  <2>3. PICK w \in Workers : held[w] = k /\ pc[w] \in Settling
    BY <1>5, <2>1 DEF RunInv
  <2>4. w # t /\ Hand(w) = k
    BY <2>1, <2>2, <2>3 DEF WaitInv, Hand, Settling
  <2>5. Stage(k) = "running"
    <3>1. k \notin doomed /\ handle[k] # "none" /\ task_state_[k] = "kRunning"
      BY <1>5, <2>1 DEF HistoryInv, CallInv
    <3> QED BY <3>1 DEF Stage
  <2>6. Awaited(t) = NoTask /\ Awaited(t)' = k
    BY <2>2 DEF Awaited
  <2>7. Abstract!Await(t, k)
    BY <1>2, <1>3, <1>4, <2>4, <2>5, <2>6, AwaitedIs, SameIs DEF Abstract!Await
  <2> QED BY <2>7 DEF Abstract!Next
<1>6. CASE WaitNotified(t)
  <2>1. PICK k \in Tasks : k = arg[t]
    BY <1>6 DEF WaitNotified, CallInv
  <2>2. at[t] = "blocked" /\ notified_[k] /\ at'[t] = "none"
    BY <1>6, <2>1 DEF WaitNotified, Return, TypeOK
  <2>3. Stage(k) = "finished"
    <3>1. task_state_[k] = "kCompleted" /\ k \notin doomed /\ handle[k] # "none"
      BY <2>2 DEF RunInv, HistoryInv, CallInv
    <3> QED BY <3>1 DEF Stage
  <2>4. Awaited(t) = k /\ Awaited(t)' = NoTask
    BY <2>1, <2>2 DEF Awaited
  <2>5. Abstract!Resume(t)
    BY <1>2, <1>3, <1>4, <2>3, <2>4, AwaitedIs, SameIs DEF Abstract!Resume
  <2> QED BY <2>5 DEF Abstract!Next
<1>7. CASE /\ ~(WaitLoadState(t) /\ task_state_[arg[t]] = "kRunning")
           /\ ~WaitNotified(t)
  <2>1. Awaited(t)' = Awaited(t)
    BY <1>7 DEF CancelLoad, WaitLoadRunner, WaitLoadState, CancelTask, WaitIfRunning, MayCall,
                Call, Return, TypeOK, callVars, Awaited
  <2>2. WaitSame
    BY <1>4, <2>1 DEF WaitSame
  <2> QED BY <1>2, <1>3, <2>2, Stutters
<1> QED BY <1>5, <1>6, <1>7

LEMMA DtorAbstract ==
  ASSUME IInv, SettleInv, DtorStop \/ DtorStep
  PROVE  Abstract!Next \/ UNCHANGED Abstract!vars
<1> USE DEF IInv
<1>1. UNCHANGED <<task_state_, doomed, held, handle>>
  BY DEF DtorStop, DtorStep, DtorJoin, DtorCancelFront, DtorPop, DtorReturn, taskVars,
         workerVars, history
<1>2. StageSame
  BY <1>1 DEF StageSame, Stage
<1>3. HandSame
  <2>1. Signal \/ SignalAll \/ UNCHANGED pc
    BY DEF DtorStop, DtorStep, DtorJoin, DtorCancelFront, DtorPop, DtorReturn, workerVars
  <2> QED BY <1>1, <2>1, SignalFacts DEF HandSame, Hand
<1>4. WaitSame
  BY DEF DtorStop, DtorStep, DtorJoin, DtorCancelFront, DtorPop, DtorReturn, Call, callVars,
         WaitSame, Awaited, TypeOK, DtorInv
<1>5. CASE DtorStop
  <2>1. Pool = "open" /\ Pool' = "closed" /\ Queue' = <<>>
    BY <1>5 DEF DtorStop, Pool, Queue
  <2>2. Abstract!Close
    BY <1>2, <1>3, <1>4, <2>1, SameIs DEF Abstract!Close
  <2> QED BY <2>2 DEF Abstract!Next
<1>6. CASE DtorJoin \/ DtorCancelFront \/ DtorPop
  <2>1. UNCHANGED <<Queue, Pool>>
    BY <1>6 DEF DtorJoin, DtorCancelFront, DtorPop, Queue, Pool, DtorInv
  <2> QED BY <1>2, <1>3, <1>4, <2>1, Stutters
<1>7. CASE DtorReturn
  <2>1. /\ Pool = "closed" /\ Pool' = "gone" /\ UNCHANGED Queue
        /\ tasks_ = <<>> /\ \A w \in Workers : pc[w] = "exited"
    BY <1>7 DEF DtorReturn, Pool, Queue, DtorInv
  <2>2. \A w \in Workers : Hand(w) = NoTask
    BY <2>1 DEF Hand
  <2>3. \A k \in Tasks : Stage(k) \notin {"posted", "running"}
    <3> SUFFICES ASSUME NEW k \in Tasks, Stage(k) \in {"posted", "running"}
                 PROVE  FALSE
      OBVIOUS
    <3>1. ~Queued(k)
      BY <2>1 DEF Queued
    <3>2. k \notin doomed /\ task_state_[k] \in {"kPending", "kRunning", "kCanceled"}
      <4>1. task_state_[k] \in {"kPending", "kRunning", "kCanceled"}
        BY DEF Stage, TypeOK, TaskState
      <4>2. task_state_[k] = "kCanceled" => k \notin doomed
        BY DEF Stage
      <4> QED BY <4>1, <4>2 DEF HistoryInv
    <3> QED BY <2>1, <3>1, <3>2 DEF SettleInv, PendingInv, CanceledInv, RunInv, Settling
  <2>4. Abstract!Vanish
    BY <1>2, <1>3, <1>4, <2>1, <2>2, <2>3, SameIs DEF Abstract!Vanish
  <2> QED BY <2>4 DEF Abstract!Next
<1> QED BY <1>5, <1>6, <1>7 DEF DtorStep

LEMMA NextAbstract == IInv /\ SettleInv /\ [Next]_vars => [Abstract!Next]_(Abstract!vars)
<1> SUFFICES ASSUME IInv, SettleInv, [Next]_vars
             PROVE  Abstract!Next \/ UNCHANGED Abstract!vars
  OBVIOUS
<1>1. ASSUME NEW w \in Workers, RunTasks(w) \/ Run(w)
      PROVE  Abstract!Next \/ UNCHANGED Abstract!vars
  BY <1>1, RunTasksAbstract, RunAbstract
<1>2. ASSUME NEW w \in Workers, SpuriousWakeup(w)
      PROVE  UNCHANGED Abstract!vars
  <2>1. StageSame /\ HandSame /\ WaitSame /\ UNCHANGED <<Queue, Pool>>
    BY <1>2 DEF SpuriousWakeup, poolVars, taskVars, callVars, history, StageSame, HandSame,
                WaitSame, Stage, Hand, Awaited, Queue, Pool, IInv, TypeOK
  <2> QED BY <2>1, Stutters
<1>3. ASSUME NEW t \in Threads, CallStep(t)
      PROVE  Abstract!Next \/ UNCHANGED Abstract!vars
  BY <1>3, CancelCasAbstract, CallAbstract DEF CallStep
<1>4. ASSUME NEW t \in Threads, NEW k \in Tasks,
             PostTask(t, k) \/ CancelTask(t, k) \/ WaitIfRunning(t, k)
      PROVE  Abstract!Next \/ UNCHANGED Abstract!vars
  BY <1>4, PostTaskAbstract, CallAbstract
<1>5. CASE DtorStop \/ DtorStep
  BY <1>5, DtorAbstract
<1>6. CASE Terminated \/ UNCHANGED vars
  <2>1. StageSame /\ HandSame /\ WaitSame /\ UNCHANGED <<Queue, Pool>>
    BY <1>6 DEF Terminated, vars, poolVars, taskVars, workerVars, callVars, history, StageSame,
                HandSame, WaitSame, Stage, Hand, Awaited, Queue, Pool
  <2> QED BY <2>1, Stutters
<1> QED BY <1>1, <1>2, <1>3, <1>4, <1>5, <1>6 DEF Next

(***************************************************************************)
(* The pool implements Executor, for any number of workers, clients and    *)
(* tasks: tasks are handed out in the order of PostTask and run at most    *)
(* once, CancelTask wins until the worker's compare-exchange, a blocked    *)
(* WaitIfRunning ends with the task, and ~TaskRunner returns only when     *)
(* every task it accepted has run to its end or is cancelled.              *)
(***************************************************************************)
THEOREM PoolIsExecutor == Spec => ImplementsExecutor
<1>1. Spec => []SettleInv
  BY Invariance, InitSettles, NextSettles, PTL DEF Spec
<1> QED
  BY Invariance, <1>1, InitAbstract, NextAbstract, PTL DEF Spec, ImplementsExecutor,
     Abstract!Spec
=============================================================================
