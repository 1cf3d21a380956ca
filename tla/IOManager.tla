----------------------------- MODULE IOManager -----------------------------
(***************************************************************************)
(* The I/O manager of libiomgr (io/io_manager.cc, io/io_poller.cc): threads *)
(* register controllers for a descriptor, the poll thread turns what epoll *)
(* reports into HandleIO tasks, and the workers of the task runner call    *)
(* the watchers, which may stop or change the watch from the callback.     *)
(*                                                                         *)
(* mutex_ protects the controllers and fd_controllers_.  A watcher belongs *)
(* to its controller, so watcher_ is not kept.  epoll is edge triggered: a *)
(* descriptor is on the ready list of the kernel from an edge, or from a   *)
(* registration that finds it ready, until epoll_wait reports it.  Timers  *)
(* are the subject of TimerManager; here epoll_wait may time out.  Of the  *)
(* task runner the model keeps the queue and the states of a task; the     *)
(* steps inside are the subject of TaskRunner.                             *)
(***************************************************************************)
EXTENDS Integers, Sequences, FiniteSets, SequencesExt

CONSTANTS
  Fds,               \* descriptors, WakeupFd included
  WakeupFd,          \* wakeup_fd_
  Controllers,       \* IOWatcher::Controllers, WakeupController included
  WakeupController,  \* wakeup_controller_
  ModesOf,           \* the modes that the user of a controller asks for
  Users,             \* threads of the program
  Workers,           \* threads of the task runner
  ActsIn,            \* the callbacks that call Watch or StopWatching
  Edges,             \* what may happen: pairs of a descriptor and a condition
                     \* (of WakeupFd: another thread calls Wakeup)
  MaxTasks,          \* bound: HandleIO tasks alive at a time
  NDebug,            \* built with NDEBUG: DCHECK does not evaluate its argument
  None

Modes == {"read", "write"}
Tasks == 1..MaxTasks
Threads == Users \cup Workers

\* What may happen to a descriptor: an error or hang-up is "hup".
Conditions == Modes \cup {"hup"}

ASSUME IOAssumption ==
  /\ WakeupFd \in Fds /\ WakeupController \in Controllers
  /\ None \notin Fds \cup Controllers \cup Threads
  /\ ModesOf \in [Controllers -> SUBSET ((SUBSET Modes) \ {{}})]
  /\ {"read"} \in ModesOf[WakeupController]
  /\ Users \cap Workers = {}
  /\ ActsIn \subseteq {"writable", "readable"}
  /\ Edges \subseteq Fds \X Conditions
  /\ MaxTasks \in Nat
  /\ NDebug \in BOOLEAN

VARIABLES
  fd_, mode_, task_,  \* of each Controller
  mode, controllers,  \* of each FDAndControllers
  interest,           \* kernel: the mode each descriptor is registered with
  level,              \* kernel: the conditions that hold of it
  ready_list,         \* kernel: the descriptors epoll_wait will report
  loop,               \* where the poll thread is
  io_events,          \* what epoll_wait returned and is not handled yet
  stopped_,
  dtor,               \* where ~IOManager is
  queue,              \* tasks posted and not yet taken by a worker
  task_state,         \* Task::task_state_
  bound,              \* the controller and the ready modes bound to a task
  running,            \* the task of each worker, or 0
  phase,              \* the callback each worker is in
  mutex_,             \* the thread in the middle of a call under mutex_
  call,               \* the call each thread is in
  unseen              \* history: edges its watcher has not been called for

ctrlVars   == <<fd_, mode_, task_>>
fdVars     == <<mode, controllers>>
kernelVars == <<interest, level, ready_list>>
loopVars   == <<loop, io_events>>
dtorVars   == <<stopped_, dtor>>
taskVars   == <<queue, task_state, bound, running, phase>>
callVars   == <<mutex_, call>>
vars == <<ctrlVars, fdVars, kernelVars, loopVars, dtorVars, taskVars, callVars,
          unseen>>

\* What is kept of a task that is through.
Unbound == [ctrl |-> None, ready |-> {}]

NoCall == [pc |-> "idle", op |-> "none", ctrl |-> None, task |-> 0,
           fd |-> None, mode |-> {}]

Calls == [pc : {"idle", "lock", "wait", "add"}, op : {"none", "stop", "watch"},
          ctrl : Controllers \cup {None}, task : Tasks \cup {0},
          fd : Fds \cup {None}, mode : SUBSET Modes]

(***************************************************************************)
(* The type of every variable.                                             *)
(***************************************************************************)
TypeOK ==
  /\ fd_ \in [Controllers -> Fds \cup {None}]
  /\ mode_ \in [Controllers -> SUBSET Modes]
  /\ task_ \in [Controllers -> Tasks \cup {0}]
  /\ mode \in [Fds -> SUBSET Modes]
  /\ controllers \in [Fds -> Seq(Controllers)]
  /\ interest \in [Fds -> SUBSET Modes]
  /\ level \in [Fds -> SUBSET Conditions]
  /\ ready_list \subseteq Fds
  /\ loop \in {"poll", "dispatch", "exited"}
  /\ io_events \in [Fds -> SUBSET Modes]
  /\ stopped_ \in BOOLEAN
  /\ dtor \in {"none", "stopped", "woken", "done"}
  /\ queue \in Seq(Tasks)
  /\ task_state \in [Tasks -> {"pending", "running", "canceled", "completed"}]
  /\ bound \in [Tasks -> [ctrl : Controllers \cup {None}, ready : SUBSET Modes]]
  /\ running \in [Workers -> Tasks \cup {0}]
  /\ phase \in [Workers -> {"idle", "writable", "readable"}]
  /\ mutex_ \in Threads \cup {None}
  /\ call \in [Threads -> Calls]
  /\ unseen \in [Controllers -> SUBSET Modes]

(***************************************************************************)
(* The constructor watches wakeup_fd_ inside a DCHECK.                     *)
(***************************************************************************)
Init ==
  LET watched == ~NDebug
      forCtrl(v, w) == [c \in Controllers |->
                          IF watched /\ c = WakeupController THEN v ELSE w]
      forFd(v, w) == [f \in Fds |-> IF watched /\ f = WakeupFd THEN v ELSE w]
  IN  /\ fd_ = forCtrl(WakeupFd, None)
      /\ mode_ = forCtrl({"read"}, {})
      /\ task_ = [c \in Controllers |-> 0]
      /\ mode = forFd({"read"}, {})
      /\ controllers = forFd(<<WakeupController>>, <<>>)
      /\ interest = forFd({"read"}, {})
      /\ level = [f \in Fds |-> {}]
      /\ ready_list = {}
      /\ loop = "poll"
      /\ io_events = [f \in Fds |-> {}]
      /\ stopped_ = FALSE
      /\ dtor = "none"
      /\ queue = <<>>
      /\ task_state = [t \in Tasks |-> "completed"]
      /\ bound = [t \in Tasks |-> Unbound]
      /\ running = [w \in Workers |-> 0]
      /\ phase = [w \in Workers |-> "idle"]
      /\ mutex_ = None
      /\ call = [th \in Threads |-> NoCall]
      /\ unseen = [c \in Controllers |-> {}]

-----------------------------------------------------------------------------
(* The kernel *)

\* Mutant: IOPoller::Poll hands on what epoll reports.
ReportedRaw(f) == level[f]

\* What epoll reports of a descriptor, as IOPoller::Poll maps it to modes.
Reported(f) ==
  IF interest[f] # {} /\ "hup" \in level[f] THEN Modes
                                            ELSE level[f] \cap interest[f]

\* A descriptor registered with mode m is ready at once if m holds of it.
ReadyAtOnce(f, m) == "hup" \in level[f] \/ level[f] \cap m # {}

\* The modes in which condition k concerns a watch with mode m.
Concerns(k, m) == IF k = "hup" THEN m ELSE m \cap {k}

\* An edge: data arrive, room appears, the peer hangs up.
MakeReady(f, k) ==
  /\ level' = [level EXCEPT ![f] = @ \cup {k}]
  /\ ready_list' = IF Concerns(k, interest[f]) # {} THEN ready_list \cup {f}
                                                    ELSE ready_list
  /\ unseen' = [c \in Controllers |->
                  IF c \in ToSet(controllers[f])
                    THEN unseen[c] \cup Concerns(k, mode_[c])
                    ELSE unseen[c]]
  /\ UNCHANGED interest

Edge(f, k) ==
  /\ MakeReady(f, k)
  /\ UNCHANGED <<ctrlVars, fdVars, loopVars, dtorVars, taskVars, callVars>>

-----------------------------------------------------------------------------
(* Watch and StopWatching *)

\* Users call at any time, a watcher from one of its callbacks.
MayCall(th, c) ==
  /\ call[th].pc = "idle"
  /\ c # WakeupController
  /\ th \in Workers =>
       /\ phase[th] \in ActsIn
       /\ bound[running[th]].ctrl = c

\* A thread calls Controller::StopWatching and waits for mutex_.
EnterStop(th, c) ==
  /\ MayCall(th, c)
  /\ call' = [call EXCEPT ![th] =
                 [NoCall EXCEPT !.pc = "lock", !.op = "stop", !.ctrl = c]]
  /\ UNCHANGED <<ctrlVars, fdVars, kernelVars, loopVars, dtorVars, taskVars,
                 mutex_, unseen>>

\* A thread calls IOWatcher::WatchFileDescriptor and waits for mutex_.
EnterWatch(th, c, f, m) ==
  /\ MayCall(th, c)
  /\ f # WakeupFd
  /\ m \in ModesOf[c]
  /\ call' = [call EXCEPT ![th] =
                 [NoCall EXCEPT !.pc = "lock", !.op = "watch", !.ctrl = c,
                                !.fd = f, !.mode = m]]
  /\ UNCHANGED <<ctrlVars, fdVars, kernelVars, loopVars, dtorVars, taskVars,
                 mutex_, unseen>>

\* Mutant: CancelTask leaves a running task alone.
CancelPending(t) ==
  task_state' = IF t = 0 THEN task_state
                ELSE [task_state EXCEPT
                        ![t] = IF @ = "pending" THEN "canceled" ELSE @]

\* Task::CancelTask: a task that runs is marked too.
CancelTask(t) ==
  task_state' = IF t = 0 THEN task_state
                ELSE [task_state EXCEPT
                        ![t] = IF @ = "completed" THEN @ ELSE "canceled"]

\* Mutant: the descriptor is removed although another controller watches it.
NoModeLeft(f, m) == {}

\* What is left of FDAndControllers::mode.
ModeLeft(f, m) == mode[f] \ m

(***************************************************************************)
(* StopWatchingFileDescriptorNoLock up to WaitIfRunning.  epoll_ctl fails  *)
(* if the descriptor is not registered; the call then returns false and    *)
(* the controller keeps its fd_.                                           *)
(***************************************************************************)
Unwatch(c) ==
  LET f    == fd_[c]
      left == ModeLeft(f, mode_[c])
  IN  /\ CancelTask(task_[c])
      /\ task_' = [task_ EXCEPT ![c] = 0]
      /\ controllers' = [controllers EXCEPT ![f] = RemoveFirst(@, c)]
      /\ mode' = [mode EXCEPT ![f] = left]
      /\ unseen' = [unseen EXCEPT ![c] = {}]
      /\ IF interest[f] = {}
           THEN UNCHANGED <<interest, ready_list>>
           ELSE /\ interest' = [interest EXCEPT ![f] = left]
                /\ ready_list' = IF left # {} /\ ReadyAtOnce(f, left)
                                   THEN ready_list \cup {f}
                                   ELSE IF left = {} THEN ready_list \ {f}
                                                     ELSE ready_list
      /\ UNCHANGED <<fd_, mode_, level, queue, bound, running, phase>>

\* The call under mutex_ goes on at pc, with the handle it took over.
GoOn(th, pc, t) ==
  /\ mutex_' = th
  /\ call' = [call EXCEPT ![th].pc = pc, ![th].task = t]

\* The call returns.
Leave(th) ==
  /\ mutex_' = None
  /\ call' = [call EXCEPT ![th] = NoCall]

(***************************************************************************)
(* StopWatchingFileDescriptor has mutex_: nothing to do for a controller   *)
(* that does not watch.                                                    *)
(***************************************************************************)
StopWatching(th) ==
  LET c == call[th].ctrl
  IN  /\ call[th].pc = "lock" /\ call[th].op = "stop"
      /\ mutex_ = None
      /\ IF fd_[c] = None
           THEN /\ Leave(th)
                /\ UNCHANGED <<ctrlVars, fdVars, kernelVars, taskVars, unseen>>
           ELSE /\ Unwatch(c)
                /\ IF interest[fd_[c]] = {} THEN Leave(th)
                                            ELSE GoOn(th, "wait", task_[c])
      /\ UNCHANGED <<loopVars, dtorVars>>

(***************************************************************************)
(* WatchFileDescriptor has mutex_: a controller cannot watch a second      *)
(* descriptor, and an earlier watch is stopped first.                      *)
(***************************************************************************)
WatchFileDescriptor(th) ==
  LET c == call[th].ctrl
      f == call[th].fd
  IN  /\ call[th].pc = "lock" /\ call[th].op = "watch"
      /\ mutex_ = None
      /\ IF fd_[c] = f
           THEN /\ Unwatch(c)
                /\ IF interest[f] = {} THEN GoOn(th, "add", 0)
                                       ELSE GoOn(th, "wait", task_[c])
           ELSE /\ IF fd_[c] = None THEN GoOn(th, "add", 0) ELSE Leave(th)
                /\ UNCHANGED <<ctrlVars, fdVars, kernelVars, taskVars, unseen>>
      /\ UNCHANGED <<loopVars, dtorVars>>

\* Task::WaitIfRunning returns at once unless another thread runs the task.
WaitReturns(th) ==
  LET t == call[th].task
  IN  t # 0 /\ task_state[t] = "running" => th \in Workers /\ running[th] = t

\* WaitIfRunning returns and the controller is reset.
StopReset(th) ==
  LET c == call[th].ctrl
  IN  /\ call[th].pc = "wait"
      /\ WaitReturns(th)
      /\ fd_' = [fd_ EXCEPT ![c] = None]
      /\ mode_' = [mode_ EXCEPT ![c] = {}]
      /\ IF call[th].op = "stop" THEN Leave(th) ELSE GoOn(th, "add", 0)
      /\ UNCHANGED <<task_, fdVars, kernelVars, loopVars, dtorVars, taskVars,
                     unseen>>

\* Mutant: the mode of the other controllers is not passed to epoll_ctl.
NewModeOnly(f, m) == m

\* The mode that AddFd or UpdateFd registers.
Registered(f, m) == m \cup mode[f]

\* The registration; epoll_ctl may fail, and nothing else changes then.
AddOrUpdateFd(th) ==
  LET c == call[th].ctrl
      f == call[th].fd
      m == call[th].mode
  IN  /\ call[th].pc = "add"
      /\ \/ /\ (mode[f] = {}) = (interest[f] = {})
            /\ interest' = [interest EXCEPT ![f] = Registered(f, m)]
            /\ ready_list' = IF ReadyAtOnce(f, Registered(f, m))
                               THEN ready_list \cup {f} ELSE ready_list
            /\ fd_' = [fd_ EXCEPT ![c] = f]
            /\ mode_' = [mode_ EXCEPT ![c] = m]
            /\ mode' = [mode EXCEPT ![f] = @ \cup m]
            /\ controllers' = [controllers EXCEPT ![f] = Append(@, c)]
            /\ unseen' = [unseen EXCEPT ![c] =
                            UNION {Concerns(k, m) : k \in level[f]}]
         \/ UNCHANGED <<ctrlVars, fdVars, kernelVars, unseen>>
      /\ Leave(th)
      /\ UNCHANGED <<task_, level, loopVars, dtorVars, taskVars>>

-----------------------------------------------------------------------------
(* The poll thread: IOManager::Run *)

\* epoll_wait reports what is ready.
Poll ==
  /\ loop = "poll"
  /\ \E f \in ready_list : Reported(f) # {}
  /\ io_events' = [f \in Fds |-> IF f \in ready_list THEN Reported(f) ELSE {}]
  /\ ready_list' = {}
  /\ loop' = "dispatch"
  /\ UNCHANGED <<ctrlVars, fdVars, interest, level, dtorVars, taskVars,
                 callVars, unseen>>

\* epoll_wait runs into the timeout that TimerCheck gave.
PollTimeout ==
  /\ loop = "poll"
  /\ \A f \in ready_list : Reported(f) = {}
  /\ loop' = "dispatch"
  /\ UNCHANGED <<ctrlVars, fdVars, kernelVars, io_events, dtorVars, taskVars,
                 callVars, unseen>>

\* Tasks that nothing refers to any more.
FreeTasks == {t \in Tasks : /\ \A k \in DOMAIN queue : queue[k] # t
                            /\ \A w \in Workers : running[w] # t
                            /\ \A c \in Controllers : task_[c] # t
                            /\ \A th \in Threads : call[th].task # t}

\* Mutant: the event is not cut down to what the controller asked for.
AllReady(f, c) == io_events[f]

\* What the event of f means to controller c.
ReadyFor(f, c) == io_events[f] \cap mode_[c]

\* The places, in the list of f, of the controllers its event is for.
Concerned(f) ==
  {k \in DOMAIN controllers[f] : ReadyFor(f, controllers[f][k]) # {}}

\* The enumeration of a set of numbers in ascending order.
Ascending(S) == {s \in [1..Cardinality(S) -> S] :
                   /\ ToSet(s) = S
                   /\ \A i, j \in DOMAIN s : i < j => s[i] < s[j]}

(***************************************************************************)
(* One event: the i-th controller that it concerns, the one at place at[i] *)
(* of the list, gets the i-th free task, new[i], for its HandleIO.         *)
(***************************************************************************)
Dispatch(f) ==
  \E at \in Ascending(Concerned(f)), new \in Ascending(FreeTasks) :
    LET n       == Len(at)
        ctrl(i) == controllers[f][at[i]]
        posted  == {new[i] : i \in 1..n}
        nth(t)  == CHOOSE i \in 1..n : new[i] = t
        of(c)   == {i \in 1..n : ctrl(i) = c}
    IN  /\ loop = "dispatch"
        /\ io_events[f] # {}
        /\ mutex_ = None
        /\ n <= Len(new)
        /\ queue' = queue \o SubSeq(new, 1, n)
        /\ task_state' = [t \in Tasks |->
                            IF t \in posted THEN "pending" ELSE task_state[t]]
        /\ bound' = [t \in Tasks |->
                       IF t \in posted
                         THEN [ctrl  |-> ctrl(nth(t)),
                               ready |-> ReadyFor(f, ctrl(nth(t)))]
                         ELSE bound[t]]
        /\ task_' = [c \in Controllers |->
                       IF of(c) = {} THEN task_[c]
                                     ELSE new[CHOOSE i \in of(c) : TRUE]]
        /\ io_events' = [io_events EXCEPT ![f] = {}]
        /\ UNCHANGED <<fd_, mode_, fdVars, kernelVars, loop, dtorVars, running,
                       phase, callVars, unseen>>

\* Mutant: stopped_ is not looked at.
NextTurnAnyway == "poll"

NextTurn == IF stopped_ THEN "exited" ELSE "poll"

\* All events are handled: the loop comes round, or ends.
DispatchEnd ==
  /\ loop = "dispatch"
  /\ \A f \in Fds : io_events[f] = {}
  /\ mutex_ = None
  /\ loop' = NextTurn
  /\ UNCHANGED <<ctrlVars, fdVars, kernelVars, io_events, dtorVars, taskVars,
                 callVars, unseen>>

-----------------------------------------------------------------------------
(* The workers of the task runner and HandleIO *)

\* The callback of worker w starts: its watcher sees the edge.
CallBack(w, c, ph) ==
  /\ phase' = [phase EXCEPT ![w] = ph]
  /\ unseen' = [unseen EXCEPT ![c] =
                  @ \ {IF ph = "writable" THEN "write" ELSE "read"}]

\* A worker takes a task: HandleIO starts unless the task is cancelled.
RunTask(w) ==
  LET t == Head(queue)
  IN  /\ phase[w] = "idle"
      /\ queue # <<>>
      /\ queue' = Tail(queue)
      /\ \/ /\ task_state[t] = "pending"
            /\ UNCHANGED bound
            /\ task_state' = [task_state EXCEPT ![t] = "running"]
            /\ running' = [running EXCEPT ![w] = t]
            /\ CallBack(w, bound[t].ctrl, IF "write" \in bound[t].ready
                                            THEN "writable" ELSE "readable")
         \/ /\ task_state[t] # "pending"
            /\ bound' = [bound EXCEPT ![t] = Unbound]
            /\ UNCHANGED <<task_state, running, phase, unseen>>
      /\ UNCHANGED <<ctrlVars, fdVars, kernelVars, loopVars, dtorVars, callVars>>

(***************************************************************************)
(* A callback may use up what it was called for.  The wakeup watcher reads *)
(* until nothing is left.                                                  *)
(***************************************************************************)
UsesUp(w, k) ==
  LET c == bound[running[w]].ctrl
      f == fd_[c]
  IN  /\ f # None
      /\ level' = [level EXCEPT ![f] = @ \ {k}]
      /\ unseen' = [d \in Controllers |->
                      IF fd_[d] = f /\ "hup" \notin level[f]
                        THEN unseen[d] \ {k} ELSE unseen[d]]

\* HandleIO makes both calls, OnFileWritable first.
ReadNext(t) == "read" \in bound[t].ready

\* OnFileWritable returns and HandleIO goes on with OnFileReadable.
WritableReturns(w) ==
  LET t == running[w]
  IN  /\ phase[w] = "writable"
      /\ call[w].pc = "idle"
      /\ ReadNext(t)
      /\ CallBack(w, bound[t].ctrl, "readable")
      /\ UNCHANGED <<ctrlVars, fdVars, kernelVars, loopVars, dtorVars, queue,
                     task_state, bound, running, callVars>>

(***************************************************************************)
(* The last callback returns: the task is completed.  Cancelling or        *)
(* waiting for it does nothing from now on, so a handle that refers to it  *)
(* is as good as none.                                                     *)
(***************************************************************************)
HandleIOReturns(w) ==
  LET t == running[w]
      k == IF phase[w] = "writable" THEN "write" ELSE "read"
  IN  /\ phase[w] # "idle"
      /\ call[w].pc = "idle"
      /\ phase[w] = "readable" \/ ~ReadNext(t)
      /\ \/ UsesUp(w, k)
         \/ /\ bound[t].ctrl # WakeupController
            /\ UNCHANGED <<level, unseen>>
      /\ task_state' = [task_state EXCEPT ![t] = "completed"]
      /\ bound' = [bound EXCEPT ![t] = Unbound]
      /\ task_' = [c \in Controllers |-> IF task_[c] = t THEN 0 ELSE task_[c]]
      /\ running' = [running EXCEPT ![w] = 0]
      /\ phase' = [phase EXCEPT ![w] = "idle"]
      /\ UNCHANGED <<fd_, mode_, fdVars, interest, ready_list, loopVars,
                     dtorVars, queue, callVars>>

-----------------------------------------------------------------------------
(* ~IOManager *)

DtorStop ==
  /\ dtor = "none"
  /\ mutex_ = None
  /\ stopped_' = TRUE
  /\ dtor' = "stopped"
  /\ UNCHANGED <<ctrlVars, fdVars, kernelVars, loopVars, taskVars, callVars,
                 unseen>>

DtorWakeup ==
  /\ dtor = "stopped"
  /\ MakeReady(WakeupFd, "read")
  /\ dtor' = "woken"
  /\ UNCHANGED <<ctrlVars, fdVars, loopVars, stopped_, taskVars, callVars>>

DtorJoin ==
  /\ dtor = "woken"
  /\ loop = "exited"
  /\ dtor' = "done"
  /\ UNCHANGED <<ctrlVars, fdVars, kernelVars, loopVars, stopped_, taskVars,
                 callVars, unseen>>

-----------------------------------------------------------------------------
CallStep(th) == \/ StopWatching(th) \/ WatchFileDescriptor(th)
                \/ StopReset(th) \/ AddOrUpdateFd(th)

Work(w) == RunTask(w) \/ WritableReturns(w) \/ HandleIOReturns(w)

Destructor == DtorStop \/ DtorWakeup \/ DtorJoin

Next ==
  \/ \E e \in Edges : Edge(e[1], e[2])
  \/ \E th \in Threads, c \in Controllers :
       \/ EnterStop(th, c)
       \/ \E f \in Fds, m \in SUBSET Modes : EnterWatch(th, c, f, m)
  \/ \E th \in Threads : CallStep(th)
  \/ Poll \/ PollTimeout \/ DispatchEnd
  \/ \E f \in Fds : Dispatch(f)
  \/ \E w \in Workers : Work(w)
  \/ Destructor

Spec == Init /\ [][Next]_vars

(***************************************************************************)
(* The threads run, callbacks return, and a thread that wants mutex_ gets  *)
(* it in the end although others take it too (strong fairness).  A timeout *)
(* of epoll_wait is not counted on, nor is the destructor called, but once *)
(* called it goes on.                                                      *)
(***************************************************************************)
Fairness ==
  /\ \A th \in Threads : SF_vars(CallStep(th))
  /\ \A w \in Workers : SF_vars(Work(w))
  /\ WF_vars(Poll)
  /\ SF_vars(DispatchEnd \/ \E f \in Fds : Dispatch(f))
  /\ WF_vars(DtorWakeup \/ DtorJoin)

FairSpec == Spec /\ Fairness

-----------------------------------------------------------------------------
(* Safety *)

(***************************************************************************)
(* What epoll watches, what FDAndControllers says and what the controllers *)
(* ask for agree whenever mutex_ is free, so that a stopped controller     *)
(* never takes the events of another one away.                             *)
(***************************************************************************)
RegistrationAgrees ==
  mutex_ = None =>
    \A f \in Fds :
      /\ ToSet(controllers[f]) = {c \in Controllers : fd_[c] = f}
      /\ mode[f] = UNION {mode_[c] : c \in ToSet(controllers[f])}
      /\ interest[f] = mode[f]

(***************************************************************************)
(* Edge-triggered epoll tells of an edge once, and it is not lost: until   *)
(* the watcher is called for it, or stops, the descriptor is on the ready  *)
(* list, or its event is at hand, or a HandleIO task is on its way that    *)
(* nothing cancelled.                                                      *)
(***************************************************************************)
EdgeNotLost ==
  \A c \in Controllers : \A m \in unseen[c] :
    \/ fd_[c] \in ready_list /\ m \in Reported(fd_[c])
    \/ m \in io_events[fd_[c]]
    \/ \E k \in DOMAIN queue : /\ bound[queue[k]].ctrl = c
                               /\ m \in bound[queue[k]].ready
                               /\ task_state[queue[k]] = "pending"
    \/ \E w \in Workers : /\ phase[w] = "writable" /\ m = "read"
                          /\ bound[running[w]].ctrl = c
                          /\ m \in bound[running[w]].ready

(***************************************************************************)
(* A watcher is called for what its controller asked for, though the event *)
(* is that of the descriptor and the controllers of the descriptor may     *)
(* have changed since epoll_wait returned it: DCHECK_GT(ready, 0) of       *)
(* HandleIO holds, and OnFileWritable of the wakeup watcher is not         *)
(* reached.                                                                *)
(***************************************************************************)
CalledAsAsked ==
  \A k \in DOMAIN queue :
    LET b == bound[queue[k]]
    IN  b.ready # {} /\ \E m \in ModesOf[b.ctrl] : b.ready \subseteq m

(***************************************************************************)
(* A watcher that stopped watching is not called: no callback starts       *)
(* unless its controller watches a descriptor, or a call is just changing  *)
(* what it watches.                                                        *)
(***************************************************************************)
NotCalledAfterStop ==
  [][\A w \in Workers :
       phase'[w] # phase[w] /\ phase'[w] # "idle" /\ mutex_ = None =>
         fd_[bound[running'[w]].ctrl] # None]_vars

-----------------------------------------------------------------------------
(* Liveness *)

(***************************************************************************)
(* Watch and StopWatching return, although they wait for a running task    *)
(* under mutex_ and the callbacks of that task may call them as well.      *)
(***************************************************************************)
CallsReturn == \A th \in Threads : []<>(call[th].pc = "idle")

\* A task that will read wakeup_fd_ until it is empty is posted or running.
DrainUnderWay ==
  \E t \in ToSet(queue) \cup ({running[w] : w \in Workers} \ {0}) :
    bound[t].ctrl = WakeupController

(***************************************************************************)
(* ~IOManager returns although other wakeups come before, between and      *)
(* after its own: the poll thread gets out of epoll_wait and sees          *)
(* stopped_, unless the task of an earlier wakeup is still under way when  *)
(* the destructor writes its own, and reads it.                            *)
(***************************************************************************)
DestructorReturns == (dtor = "stopped" /\ ~DrainUnderWay) ~> dtor = "done"
=============================================================================
