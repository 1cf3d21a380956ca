----------------------------- MODULE TaskRunner -----------------------------
(***************************************************************************)
(* The thread pool of libiomgr: TaskRunner (threading/task_runner.cc), the *)
(* state machine of one posted task (threading/task_runner_task.cc), and   *)
(* the TaskHandle through which a poster cancels or awaits it.             *)
(*                                                                         *)
(* Grain of atomicity.  A block under TaskRunner::mutex_ is one action:    *)
(* every access to tasks_ and stop_triggered_ while the pool lives is      *)
(* under that mutex.  Task::task_state_ and Task::task_runner_ are atomics *)
(* that no mutex protects, so each load, store and compare-exchange is an  *)
(* action of its own.                                                      *)
(*                                                                         *)
(* A functor runs on a worker and may itself post, cancel and await tasks; *)
(* so the calls below are made by any thread, a worker making them only    *)
(* while it is inside a functor.                                           *)
(***************************************************************************)
EXTENDS Integers, Sequences, FiniteSets

CONSTANTS
  Workers,     \* threads started by TaskRunner::TaskRunner
  Clients,     \* other threads that post, cancel and await
  Dtor,        \* the thread that runs TaskRunner::~TaskRunner
  Tasks,       \* the functors that are ever posted
  Pill,        \* the empty task pushed for every worker by the destructor
  NoTask,      \* null RefPtr<Task>
  NoThread,    \* Thread::invalid_id
  Cancellers,  \* the threads that call TaskHandle::CancelTask
  Awaits       \* <<a, b>>: the functor of a may call WaitIfRunning on b

Threads == Workers \cup Clients \cup {Dtor}

ASSUME WorkersAssumption == IsFiniteSet(Workers) /\ Workers # {}
ASSUME ThreadsAssumption ==
  /\ Workers \cap Clients = {}
  /\ Dtor \notin Workers \cup Clients
  /\ NoThread \notin Threads
  /\ Cancellers \subseteq Workers \cup Clients
ASSUME TasksAssumption ==
  /\ Pill \notin Tasks
  /\ NoTask \notin Tasks
  /\ Pill # NoTask
  /\ Awaits \subseteq Tasks \X Tasks

VARIABLES
  tasks_,           \* TaskRunner::tasks_
  stop_triggered_,  \* TaskRunner::stop_triggered_
  task_state_,      \* Task::task_state_; "kNone" before the task is created
  task_runner_,     \* Task::task_runner_
  notified_,        \* Task::task_completed_.notified_
  pc,               \* where each worker is in RunTasks / Task::Run
  held,             \* the local `task` of RunTasks
  at,               \* where each thread is in CancelTask / WaitIfRunning
  arg,              \* the task that call is made on
  seen,             \* the local `state` of CancelTask
  handle,           \* the TaskHandle returned by PostTask
  dtor,             \* where the destructor is
  started,          \* history: the tasks whose functor was entered
  doomed,           \* history: the tasks cancelled while still kPending
  noReached         \* history: the default branch of CancelTask was taken

workerVars == <<pc, held>>
callVars   == <<at, arg, seen>>
taskVars   == <<task_state_, task_runner_, notified_>>
poolVars   == <<tasks_, stop_triggered_, dtor>>
history    == <<started, doomed, noReached>>
vars == <<poolVars, taskVars, workerVars, callVars, handle, history>>

TaskState == {"kNone", "kPending", "kRunning", "kCanceled", "kCompleted"}

WorkerPC == {"idle",      \* about to lock mutex_ at the head of the loop
             "waiting",   \* inside queue_cond_var_.Wait()
             "popped",    \* task->Run() called, compare-exchange not done
             "claimed",   \* the state is kRunning, task_runner_ not stored
             "functor",   \* inside functor_()
             "returned",  \* functor_() has returned
             "notify",    \* kCompleted is stored, Notify() not called
             "clear",     \* notified, task_runner_ not reset
             "exited"}    \* RunTasks has returned

CallPC == {"none", "cancelLoad", "cancelCas", "waitRunner", "waitState",
           "blocked"}

(***************************************************************************)
(* The type of every variable.                                             *)
(***************************************************************************)
TypeOK ==
  /\ tasks_ \in Seq(Tasks \cup {Pill})
  /\ stop_triggered_ \in BOOLEAN
  /\ task_state_ \in [Tasks -> TaskState]
  /\ task_runner_ \in [Tasks -> Workers \cup {NoThread}]
  /\ notified_ \in [Tasks -> BOOLEAN]
  /\ pc \in [Workers -> WorkerPC]
  /\ held \in [Workers -> Tasks \cup {NoTask}]
  /\ at \in [Threads -> CallPC]
  /\ arg \in [Threads -> Tasks \cup {NoTask}]
  /\ seen \in [Threads -> TaskState]
  /\ handle \in [Tasks -> {"none", "live", "empty", "spent"}]
  /\ dtor \in {"alive", "join", "drain", "pop", "done"}
  /\ started \subseteq Tasks
  /\ doomed \subseteq Tasks
  /\ noReached \in BOOLEAN

(***************************************************************************)
(* TaskRunner::TaskRunner starts the workers.                              *)
(***************************************************************************)
Init ==
  /\ tasks_ = <<>>
  /\ stop_triggered_ = FALSE
  /\ task_state_ = [k \in Tasks |-> "kNone"]
  /\ task_runner_ = [k \in Tasks |-> NoThread]
  /\ notified_ = [k \in Tasks |-> FALSE]
  /\ pc = [w \in Workers |-> "idle"]
  /\ held = [w \in Workers |-> NoTask]
  /\ at = [t \in Threads |-> "none"]
  /\ arg = [t \in Threads |-> NoTask]
  /\ seen = [t \in Threads |-> "kNone"]
  /\ handle = [k \in Tasks |-> "none"]
  /\ dtor = "alive"
  /\ started = {}
  /\ doomed = {}
  /\ noReached = FALSE

Waiting == {w \in Workers : pc[w] = "waiting"}

(***************************************************************************)
(* The wake-up of CondVar::Signal: one waiting worker, if there is one,    *)
(* goes back to the test at the head of its loop.                          *)
(***************************************************************************)
Signal ==
  \/ /\ Waiting = {}
     /\ UNCHANGED pc
  \/ \E w \in Waiting : pc' = [pc EXCEPT ![w] = "idle"]

SignalAll == pc' = [w \in Workers |-> IF pc[w] = "waiting" THEN "idle"
                                                          ELSE pc[w]]

(***************************************************************************)
(* A thread may start a call when it is in none, a worker only inside a    *)
(* functor, and nobody once the pool is destroyed.                         *)
(***************************************************************************)
MayCall(t) ==
  /\ t # Dtor
  /\ at[t] = "none"
  /\ t \in Workers => pc[t] = "functor"
  /\ dtor # "done"

\* Mutant: the signal is sent when the queue was NOT empty.
SignalIfNonEmpty == IF tasks_ # <<>> THEN Signal ELSE UNCHANGED pc

\* `if (empty) queue_cond_var_.Signal()`.
SignalIfEmpty == IF tasks_ = <<>> THEN Signal ELSE UNCHANGED pc

(***************************************************************************)
(* PostTask: refused with an empty handle once stop_triggered_ is set;     *)
(* otherwise the task is queued, and a worker is signalled only if the     *)
(* queue was empty.                                                        *)
(***************************************************************************)
PostTask(t, k) ==
  /\ MayCall(t)
  /\ handle[k] = "none"
  /\ \/ /\ stop_triggered_
        /\ handle' = [handle EXCEPT ![k] = "empty"]
        /\ UNCHANGED <<tasks_, task_state_, pc>>
     \/ /\ ~stop_triggered_
        /\ task_state_' = [task_state_ EXCEPT ![k] = "kPending"]
        /\ handle' = [handle EXCEPT ![k] = "live"]
        /\ tasks_' = Append(tasks_, k)
        /\ SignalIfEmpty
  /\ UNCHANGED <<stop_triggered_, dtor, task_runner_, notified_, held,
                 callVars, history>>

\* Mutant: stop_triggered_ is not looked at before the pop.
PopAnyway == tasks_ # <<>>

\* A worker takes the front task unless the pool is stopping.
MayPop == tasks_ # <<>> /\ ~stop_triggered_

\* Mutant: front() without pop().
FrontOnly(w) == held' = [held EXCEPT ![w] = Head(tasks_)] /\ UNCHANGED tasks_

PopFront(w) ==
  /\ held' = [held EXCEPT ![w] = Head(tasks_)]
  /\ tasks_' = Tail(tasks_)

(***************************************************************************)
(* RunTasks, under mutex_: wait while the queue is empty, leave when       *)
(* stop_triggered_ is set (without popping), else pop the front.           *)
(***************************************************************************)
RunTasks(w) ==
  /\ pc[w] = "idle"
  /\ \/ /\ tasks_ = <<>>
        /\ pc' = [pc EXCEPT ![w] = "waiting"]
        /\ UNCHANGED <<tasks_, held>>
     \/ /\ tasks_ # <<>>
        /\ stop_triggered_
        /\ pc' = [pc EXCEPT ![w] = "exited"]
        /\ UNCHANGED <<tasks_, held>>
     \/ /\ MayPop
        /\ PopFront(w)
        /\ pc' = [pc EXCEPT ![w] = "popped"]
  /\ UNCHANGED <<stop_triggered_, dtor, taskVars, callVars, handle, history>>

\* std::condition_variable may wake a waiter that nobody signalled.
SpuriousWakeup(w) ==
  /\ pc[w] = "waiting"
  /\ pc' = [pc EXCEPT ![w] = "idle"]
  /\ UNCHANGED <<poolVars, taskVars, held, callVars, handle, history>>

ClaimSucceeds(w) == task_state_[held[w]] = "kPending"

\* Mutant: compare_exchange_weak, which may fail for no reason.
RunClaimWeak(w) ==
  /\ pc[w] = "popped"
  /\ \/ /\ ClaimSucceeds(w)
        /\ task_state_' = [task_state_ EXCEPT ![held[w]] = "kRunning"]
        /\ pc' = [pc EXCEPT ![w] = "claimed"]
        /\ UNCHANGED held
     \/ /\ pc' = [pc EXCEPT ![w] = "idle"]
        /\ held' = [held EXCEPT ![w] = NoTask]
        /\ UNCHANGED task_state_
  /\ UNCHANGED <<poolVars, task_runner_, notified_, callVars, handle, history>>

\* Task::Run: the compare-exchange from kPending, or an early return.
RunClaim(w) ==
  /\ pc[w] = "popped"
  /\ \/ /\ ClaimSucceeds(w)
        /\ task_state_' = [task_state_ EXCEPT ![held[w]] = "kRunning"]
        /\ pc' = [pc EXCEPT ![w] = "claimed"]
        /\ UNCHANGED held
     \/ /\ ~ClaimSucceeds(w)
        /\ pc' = [pc EXCEPT ![w] = "idle"]
        /\ held' = [held EXCEPT ![w] = NoTask]
        /\ UNCHANGED task_state_
  /\ UNCHANGED <<poolVars, task_runner_, notified_, callVars, handle, history>>

\* Task::Run: task_runner_.store, then functor_() is entered.
RunFunctor(w) ==
  /\ pc[w] = "claimed"
  /\ task_runner_' = [task_runner_ EXCEPT ![held[w]] = w]
  /\ started' = started \cup {held[w]}
  /\ pc' = [pc EXCEPT ![w] = "functor"]
  /\ UNCHANGED <<poolVars, task_state_, notified_, held, callVars, handle,
                 doomed, noReached>>

\* functor_() returns; it is not in the middle of a call.
FunctorReturns(w) ==
  /\ pc[w] = "functor"
  /\ at[w] = "none"
  /\ pc' = [pc EXCEPT ![w] = "returned"]
  /\ UNCHANGED <<poolVars, taskVars, held, callVars, handle, history>>

\* Mutant: kCompleted is stored only if the task is not cancelled.
RunCompleteUnlessCanceled(w) ==
  /\ pc[w] = "returned"
  /\ task_state_' = [task_state_ EXCEPT ![held[w]] = IF @ = "kRunning" THEN "kCompleted" ELSE @]
  /\ pc' = [pc EXCEPT ![w] = "notify"]
  /\ UNCHANGED <<poolVars, task_runner_, notified_, held, callVars, handle,
                 history>>

\* Task::Run: the plain store of kCompleted, whatever the state was.
RunComplete(w) ==
  /\ pc[w] = "returned"
  /\ task_state_' = [task_state_ EXCEPT ![held[w]] = "kCompleted"]
  /\ pc' = [pc EXCEPT ![w] = "notify"]
  /\ UNCHANGED <<poolVars, task_runner_, notified_, held, callVars, handle,
                 history>>

\* Notification::Notify, under the mutex of the notification.
RunNotify(w) ==
  /\ pc[w] = "notify"
  /\ notified_' = [notified_ EXCEPT ![held[w]] = TRUE]
  /\ pc' = [pc EXCEPT ![w] = "clear"]
  /\ UNCHANGED <<poolVars, task_state_, task_runner_, held, callVars, handle,
                 history>>

\* Task::Run: task_runner_.store(invalid_id); the reference is dropped.
RunClear(w) ==
  /\ pc[w] = "clear"
  /\ task_runner_' = [task_runner_ EXCEPT ![held[w]] = NoThread]
  /\ held' = [held EXCEPT ![w] = NoTask]
  /\ pc' = [pc EXCEPT ![w] = "idle"]
  /\ UNCHANGED <<poolVars, task_state_, notified_, callVars, handle, history>>

-----------------------------------------------------------------------------
Call(t, where, k) ==
  /\ at' = [at EXCEPT ![t] = where]
  /\ arg' = [arg EXCEPT ![t] = k]
  /\ UNCHANGED seen

Return(t) ==
  /\ at' = [at EXCEPT ![t] = "none"]
  /\ arg' = [arg EXCEPT ![t] = NoTask]
  /\ seen' = [seen EXCEPT ![t] = "kNone"]

(***************************************************************************)
(* TaskHandle::CancelTask.  A handle without a delegate does nothing.  The *)
(* users of the pool move the handle out before they cancel (for instance  *)
(* IOManager::StopWatchingFileDescriptorNoLock), so a handle is cancelled  *)
(* once.                                                                   *)
(***************************************************************************)
CancelTask(t, k) ==
  /\ MayCall(t)
  /\ t \in Cancellers
  /\ handle[k] \in {"live", "empty"}
  /\ handle' = [handle EXCEPT ![k] = "spent"]
  /\ IF handle[k] = "live" THEN Call(t, "cancelLoad", k)
                           ELSE UNCHANGED callVars
  /\ UNCHANGED <<poolVars, taskVars, workerVars, history>>

(***************************************************************************)
(* Task::CancelTask, the load and the switch.  The default case is the     *)
(* DCHECK(0): a build without DCHECKs goes round the loop again.           *)
(***************************************************************************)
CancelLoad(t) ==
  /\ at[t] = "cancelLoad"
  /\ \/ /\ task_state_[arg[t]] \in {"kPending", "kRunning"}
        /\ at' = [at EXCEPT ![t] = "cancelCas"]
        /\ seen' = [seen EXCEPT ![t] = task_state_[arg[t]]]
        /\ UNCHANGED <<arg, noReached>>
     \/ /\ task_state_[arg[t]] = "kCompleted"
        /\ Return(t)
        /\ UNCHANGED noReached
     \/ /\ task_state_[arg[t]] = "kCanceled"
        /\ noReached' = TRUE
        /\ UNCHANGED callVars
  /\ UNCHANGED <<poolVars, taskVars, workerVars, handle, started, doomed>>

CasSucceeds(t) == task_state_[arg[t]] = seen[t]

\* Task::CancelTask, the compare-exchange to kCanceled; on failure, loop.
CancelCas(t) ==
  /\ at[t] = "cancelCas"
  /\ \/ /\ CasSucceeds(t)
        /\ task_state_' = [task_state_ EXCEPT ![arg[t]] = "kCanceled"]
        /\ doomed' = IF seen[t] = "kPending" THEN doomed \cup {arg[t]}
                                             ELSE doomed
        /\ Return(t)
     \/ /\ ~CasSucceeds(t)
        /\ at' = [at EXCEPT ![t] = "cancelLoad"]
        /\ UNCHANGED <<task_state_, doomed, arg, seen>>
  /\ UNCHANGED <<poolVars, task_runner_, notified_, workerVars, handle,
                 started, noReached>>

\* TaskHandle::WaitIfRunning on a handle that has a delegate.
WaitIfRunning(t, k) ==
  /\ MayCall(t)
  /\ t \in Workers => <<held[t], k>> \in Awaits
  /\ task_state_[k] # "kNone"
  /\ Call(t, "waitRunner", k)
  /\ UNCHANGED <<poolVars, taskVars, workerVars, handle, history>>

\* Mutant: the caller is not compared with the thread that runs the task.
RunsNothing(t) == FALSE

RunsIt(t) == task_runner_[arg[t]] = t

\* Task::WaitIfRunning: is the caller the thread that runs the task?
WaitLoadRunner(t) ==
  /\ at[t] = "waitRunner"
  /\ IF RunsIt(t)
       THEN Return(t)
       ELSE /\ at' = [at EXCEPT ![t] = "waitState"]
            /\ UNCHANGED <<arg, seen>>
  /\ UNCHANGED <<poolVars, taskVars, workerVars, handle, history>>

\* Task::WaitIfRunning: is the state kRunning?
WaitLoadState(t) ==
  /\ at[t] = "waitState"
  /\ IF task_state_[arg[t]] = "kRunning"
       THEN /\ at' = [at EXCEPT ![t] = "blocked"]
            /\ UNCHANGED <<arg, seen>>
       ELSE Return(t)
  /\ UNCHANGED <<poolVars, taskVars, workerVars, handle, history>>

\* Mutant: a waiter that comes too late for the signal goes round its loop.
WaitSignalled(t) ==
  /\ at[t] = "blocked" /\ notified_[arg[t]]
  /\ \/ task_runner_[arg[t]] # NoThread /\ Return(t)
     \/ /\ task_runner_[arg[t]] = NoThread
        /\ seen' = [seen EXCEPT ![t] = IF @ = "kNone" THEN "kRunning" ELSE "kNone"]
        /\ UNCHANGED <<at, arg>>
  /\ UNCHANGED <<poolVars, taskVars, workerVars, handle, history>>

\* Mutant: the flag is not tested again after a spurious wakeup.
WaitOnce(t) ==
  /\ at[t] = "blocked" /\ Return(t)
  /\ UNCHANGED <<poolVars, taskVars, workerVars, handle, history>>

(***************************************************************************)
(* Notification::WaitForNotification.  The flag is tested and set under    *)
(* one mutex and Notify signals all, so the wait is the guard on the flag. *)
(***************************************************************************)
WaitNotified(t) ==
  /\ at[t] = "blocked"
  /\ notified_[arg[t]]
  /\ Return(t)
  /\ UNCHANGED <<poolVars, taskVars, workerVars, handle, history>>

-----------------------------------------------------------------------------
Pills == [i \in 1..Cardinality(Workers) |-> Pill]

(***************************************************************************)
(* TaskRunner::~TaskRunner: the block under mutex_.                        *)
(***************************************************************************)
DtorStop ==
  /\ dtor = "alive"
  /\ dtor' = "join"
  /\ stop_triggered_' = TRUE
  /\ tasks_' = tasks_ \o Pills
  /\ SignalAll
  /\ UNCHANGED <<taskVars, held, callVars, handle, history>>

\* The loop that joins and deletes every worker.
DtorJoin ==
  /\ dtor = "join"
  /\ \A w \in Workers : pc[w] = "exited"
  /\ dtor' = "drain"
  /\ UNCHANGED <<tasks_, stop_triggered_, taskVars, workerVars, callVars,
                 handle, history>>

(***************************************************************************)
(* The drain: tasks_.front()->CancelTask() and then tasks_.pop().  Nobody  *)
(* shares a Pill, which is kPending: cancelling it is invisible.           *)
(***************************************************************************)
DtorCancelFront ==
  /\ dtor = "drain"
  /\ tasks_ # <<>>
  /\ dtor' = "pop"
  /\ IF Head(tasks_) = Pill THEN UNCHANGED callVars
                            ELSE Call(Dtor, "cancelLoad", Head(tasks_))
  /\ UNCHANGED <<tasks_, stop_triggered_, taskVars, workerVars, handle,
                 history>>

\* Mutant: tasks_.pop() is forgotten.
DtorNoPop ==
  /\ dtor = "pop" /\ at[Dtor] = "none" /\ dtor' = "drain"
  /\ UNCHANGED <<tasks_, stop_triggered_, taskVars, workerVars, callVars, handle, history>>

DtorPop ==
  /\ dtor = "pop"
  /\ at[Dtor] = "none"
  /\ tasks_' = Tail(tasks_)
  /\ dtor' = "drain"
  /\ UNCHANGED <<stop_triggered_, taskVars, workerVars, callVars, handle,
                 history>>

DtorReturn ==
  /\ dtor = "drain"
  /\ tasks_ = <<>>
  /\ dtor' = "done"
  /\ UNCHANGED <<tasks_, stop_triggered_, taskVars, workerVars, callVars,
                 handle, history>>

\* The pool is gone: the only state in which the model may stop.
Terminated ==
  /\ dtor = "done"
  /\ UNCHANGED vars

-----------------------------------------------------------------------------
Run(w) ==
  \/ RunClaim(w) \/ RunFunctor(w) \/ FunctorReturns(w)
  \/ RunComplete(w) \/ RunNotify(w) \/ RunClear(w)

CallStep(t) ==
  \/ CancelLoad(t) \/ CancelCas(t)
  \/ WaitLoadRunner(t) \/ WaitLoadState(t) \/ WaitNotified(t)

DtorStep == DtorJoin \/ DtorCancelFront \/ DtorPop \/ DtorReturn

Next ==
  \/ \E w \in Workers : RunTasks(w) \/ SpuriousWakeup(w) \/ Run(w)
  \/ \E t \in Threads : CallStep(t)
  \/ \E t \in Threads, k \in Tasks :
        PostTask(t, k) \/ CancelTask(t, k) \/ WaitIfRunning(t, k)
  \/ DtorStop
  \/ DtorStep
  \/ Terminated

Spec == Init /\ [][Next]_vars

(***************************************************************************)
(* Every thread that can run is scheduled and gets mutex_ in the end, and  *)
(* every functor returns (however many calls it makes).  Nothing obliges   *)
(* anyone to post, to cancel, to wait or to destroy the pool, and no       *)
(* spurious wake-up is counted on.                                         *)
(***************************************************************************)
Fairness ==
  /\ \A w \in Workers : /\ WF_vars(RunTasks(w))
                        /\ WF_vars(Run(w))
                        /\ SF_vars(FunctorReturns(w))
  /\ \A t \in Threads : WF_vars(CallStep(t))
  /\ WF_vars(DtorStep)

FairSpec == Spec /\ Fairness

-----------------------------------------------------------------------------
(* Safety *)

Queued(k) == \E i \in 1..Len(tasks_) : tasks_[i] = k

\* The worker may still be going to call Notify for the task it holds.
WillNotify(w) == pc[w] \in {"claimed", "functor", "returned", "notify"}

(***************************************************************************)
(* PostTask signals only when it found the queue empty, and the destructor *)
(* signals once.  Nevertheless a task in the queue is never left to        *)
(* workers that all sleep in queue_cond_var_, and no worker sleeps once    *)
(* stop_triggered_ is set.                                                 *)
(***************************************************************************)
NoLostWakeup ==
  /\ tasks_ # <<>> => Waiting # Workers
  /\ stop_triggered_ => Waiting = {}

(***************************************************************************)
(* A task is in one place: once in the queue, or in the hands of one       *)
(* worker.  So two workers never run it, whatever Task::Run does.          *)
(***************************************************************************)
OneHolder ==
  /\ \A v, w \in Workers : held[v] = held[w] /\ held[v] # NoTask => v = w
  /\ \A w \in Workers : ~Queued(held[w])
  /\ \A i, j \in 1..Len(tasks_) :
       tasks_[i] = tasks_[j] /\ tasks_[i] # Pill => i = j

(***************************************************************************)
(* The DCHECK(!notified_) of Notification::Notify holds, and whoever comes *)
(* back from WaitForNotification finds the task kCompleted: no late        *)
(* CancelTask turns a finished task into a cancelled one.                  *)
(***************************************************************************)
NotifiedMeansCompleted ==
  /\ \A w \in Workers : pc[w] = "notify" => ~notified_[held[w]]
  /\ \A k \in Tasks : notified_[k] => task_state_[k] = "kCompleted"

(***************************************************************************)
(* A CancelTask that found the task kPending wins over every worker that   *)
(* has popped it: the functor is never entered.                            *)
(***************************************************************************)
CanceledNeverStarts == doomed \cap started = {}

(***************************************************************************)
(* A thread blocked in WaitIfRunning waits for a task that another thread  *)
(* has claimed and has not notified yet, or that is notified: never for a  *)
(* task nobody runs, and never for the task it runs itself.                *)
(***************************************************************************)
BlockedHasRunner ==
  \A t \in Threads : at[t] = "blocked" =>
     \/ notified_[arg[t]]
     \/ \E w \in Workers \ {t} : held[w] = arg[t] /\ WillNotify(w)

(***************************************************************************)
(* The branch that Task::CancelTask marks with DCHECK(0) << "No reached"   *)
(* is not reached.                                                         *)
(***************************************************************************)
DefaultNotReached == ~noReached

-----------------------------------------------------------------------------
(* Liveness *)

(***************************************************************************)
(* A posted task is settled in the end: run to completion by a worker, or  *)
(* cancelled, by its poster or by the destructor.  The exception is a      *)
(* drain that meets a task cancelled before: there a build with DCHECKs    *)
(* aborts and one without spins, and the tasks behind it are never         *)
(* reached (see DefaultNotReached).                                        *)
(***************************************************************************)
PostedIsSettled ==
  \A k \in Tasks : task_state_[k] = "kPending" ~>
                     \/ task_state_[k] \in {"kCompleted", "kCanceled"}
                     \/ noReached

(***************************************************************************)
(* A functor that was entered is followed by the notification of the task, *)
(* even when CancelTask changed the state in between, so every             *)
(* WaitIfRunning that blocks returns.                                      *)
(***************************************************************************)
BlockedReturns ==
  \A t \in Threads : at[t] = "blocked" ~> at[t] = "none"

(***************************************************************************)
(* The destructor returns, with the same exception: every worker, asleep   *)
(* or busy when stop_triggered_ is set, leaves RunTasks and is joined, and *)
(* the drain ends.                                                         *)
(***************************************************************************)
DestructorReturns == stop_triggered_ ~> dtor = "done" \/ noReached

-----------------------------------------------------------------------------
(* What the pool implements *)

\* A task that is cancelled while it runs goes on running.
Stage(k) ==
  IF handle[k] = "none" THEN "new"
  ELSE CASE task_state_[k] = "kNone"      -> "refused"
         [] task_state_[k] = "kPending"   -> "posted"
         [] task_state_[k] = "kCompleted" -> "finished"
         [] task_state_[k] = "kCanceled" /\ k \in doomed -> "dropped"
         [] OTHER                         -> "running"

Queue == IF stop_triggered_ THEN <<>> ELSE tasks_

Hand(w) == IF pc[w] \in {"popped", "claimed", "functor", "returned"} THEN held[w] ELSE NoTask

Awaited(t) == IF at[t] = "blocked" THEN arg[t] ELSE NoTask

Pool == IF dtor = "alive" THEN "open" ELSE IF dtor = "done" THEN "gone" ELSE "closed"

Abstract == INSTANCE Executor WITH
  stage <- [k \in Tasks |-> Stage(k)],
  queue <- Queue,
  hand  <- [w \in Workers |-> Hand(w)],
  waits <- [t \in Threads |-> Awaited(t)],
  pool  <- Pool

(***************************************************************************)
(* The pool is an Executor, though its workers, posters, waiters and       *)
(* destructor take their steps one atomic access at a time: tasks are      *)
(* handed out in order and run at most once, cancelling wins until the     *)
(* worker's compare-exchange, a blocked WaitIfRunning ends with the task,  *)
(* and the destructor leaves nothing posted or running behind.             *)
(***************************************************************************)
ImplementsExecutor == Abstract!Spec
=============================================================================
