---------------------------- MODULE TimerManager ----------------------------
(***************************************************************************)
(* The timers of libiomgr (timer/timer_manager.cc) and the thread that     *)
(* serves them, the loop of IOManager::Run (io/io_manager.cc).             *)
(*                                                                         *)
(* Timers are spread over shards.  The heap of a shard is under the mutex  *)
(* of the shard; shard_queue_ and the cached min_deadline of every shard   *)
(* are under TimerManager::mutex_.  TimerInit takes the two mutexes one    *)
(* after the other, TimerCheck the second inside the first, so the cached  *)
(* minimum and the heap disagree in between: that window is what this      *)
(* module is about.                                                        *)
(*                                                                         *)
(* The heap is the set of its timers (TimerHeap is checked to implement    *)
(* that).  heap_capacity starts at Time::Infinite() and only RefillHeap    *)
(* changes it, which PopOne calls only when now >= heap_capacity: for the  *)
(* finite timeouts of this model less_urgent_timers stays empty, and both  *)
(* are left out.                                                           *)
(***************************************************************************)
EXTENDS Integers, Sequences, FiniteSets

CONSTANTS
  Shards,     \* shards_
  Timers,     \* one Timer per Timer::Controller
  ShardOf,    \* the hash of the address of a timer
  Callers,    \* threads that call Timer::Start and Controller::Cancel
  Timeouts,   \* the delays given to Timer::Start
  Ms,         \* clock ticks in the millisecond that epoll counts in
  MaxTime,    \* bound: the last tick of the clock
  MaxArms,    \* bound: how often one timer is started
  MaxDrains,  \* bound: tasks of the wakeup watcher not yet finished
  Prompt,     \* assumption: these tasks end before the loop comes round
  Infinite,   \* Time::Infinite()
  NoTimer

ASSUME TimerAssumption ==
  /\ IsFiniteSet(Shards) /\ Shards # {}
  /\ ShardOf \in [Timers -> Shards]
  /\ NoTimer \notin Timers
  /\ Timeouts \subseteq Nat
  /\ Ms \in Nat \ {0}
  /\ MaxTime \in Nat
  /\ MaxArms \in Nat
  /\ MaxDrains \in Nat
  /\ Prompt \in BOOLEAN
  /\ Infinite \in Nat /\ Infinite > MaxTime

Times == 0..MaxTime
N == Cardinality(Shards)

VARIABLES
  now,            \* Time::Now()
  deadline_,      \* Timer::deadline_
  pending_,       \* Timer::pending_
  urgent_timers,  \* TimerShard::urgent_timers, the set of timers in the heap
  min_deadline,   \* TimerShard::min_deadline
  shard_queue_,   \* TimerManager::shard_queue_
  pc,             \* where each caller is in TimerInit
  timer,          \* its local `timer`
  deadline,       \* its local `deadline`
  is_first,       \* its local `is_first_timer`
  loop,           \* where the thread of IOManager::Run is
  check_now,      \* the local `now` of TimerCheck
  new_min,        \* the local `new_min_deadline` of TimerCheck
  timeout,        \* what TimerCheck returned, in ticks, or Infinite
  poll_start,     \* when epoll_wait was entered
  wakeup,         \* epoll has wakeup_fd_ to report, and it has a value
  drains,         \* tasks of the wakeup watcher that have yet to read it
  swallowed,      \* history: a wakeup was read before epoll_wait saw it
  armed,          \* history: how often each timer was started
  posted,         \* history: how often its closure was given to TaskRunner
  canceled        \* history: how often TimerCancel took it out

timerVars  == <<deadline_, pending_, urgent_timers>>
queueVars  == <<min_deadline, shard_queue_>>
callerVars == <<pc, timer, deadline, is_first>>
loopVars   == <<loop, check_now, new_min, timeout, poll_start>>
wakeVars   == <<wakeup, drains, swallowed>>
history    == <<armed, posted, canceled>>
vars == <<now, timerVars, queueVars, callerVars, loopVars, wakeVars, history>>

Deadlines == Times \cup {Infinite}

(***************************************************************************)
(* The type of every variable.                                             *)
(***************************************************************************)
TypeOK ==
  /\ now \in Times
  /\ deadline_ \in [Timers -> Times]
  /\ pending_ \in [Timers -> BOOLEAN]
  /\ urgent_timers \in [Shards -> SUBSET Timers]
  /\ min_deadline \in [Shards -> Deadlines]
  /\ shard_queue_ \in [1..N -> Shards]
  /\ pc \in [Callers -> {"idle", "add", "publish"}]
  /\ timer \in [Callers -> Timers \cup {NoTimer}]
  /\ deadline \in [Callers -> Times]
  /\ is_first \in [Callers -> BOOLEAN]
  /\ loop \in {"check", "while", "store", "poll", "polling"}
  /\ check_now \in Times
  /\ new_min \in Deadlines
  /\ timeout \in Deadlines
  /\ poll_start \in Times
  /\ wakeup \in BOOLEAN
  /\ drains \in 0..MaxDrains
  /\ swallowed \in BOOLEAN
  /\ armed \in [Timers -> 0..MaxArms]
  /\ posted \in [Timers -> 0..MaxArms]
  /\ canceled \in [Timers -> 0..MaxArms]

Init ==
  /\ now = 0
  /\ deadline_ = [t \in Timers |-> 0]
  /\ pending_ = [t \in Timers |-> FALSE]
  /\ urgent_timers = [s \in Shards |-> {}]
  /\ min_deadline = [s \in Shards |-> Infinite]
  /\ shard_queue_ \in {q \in [1..N -> Shards] :
                         /\ \A i, j \in 1..N : q[i] = q[j] => i = j
                         /\ \A s \in Shards : \E i \in 1..N : q[i] = s}
  /\ pc = [c \in Callers |-> "idle"]
  /\ timer = [c \in Callers |-> NoTimer]
  /\ deadline = [c \in Callers |-> 0]
  /\ is_first = [c \in Callers |-> FALSE]
  /\ loop = "check"
  /\ check_now = 0
  /\ new_min = Infinite
  /\ timeout = Infinite
  /\ poll_start = 0
  /\ wakeup = FALSE
  /\ drains = 0
  /\ swallowed = FALSE
  /\ armed = [t \in Timers |-> 0]
  /\ posted = [t \in Timers |-> 0]
  /\ canceled = [t \in Timers |-> 0]

\* mutex_ is held by TimerCheck.
Checking == loop \in {"while", "store"}

Tick ==
  /\ now < MaxTime
  /\ now' = now + 1
  /\ UNCHANGED <<timerVars, queueVars, callerVars, loopVars, wakeVars, history>>

-----------------------------------------------------------------------------
(***************************************************************************)
(* SwapAdjacentShardsInQueue, iterated: the shard at i is carried to j and *)
(* the ones between move by one.  shard_queue_index is the position.       *)
(***************************************************************************)
Carry(q, i, j) ==
  [m \in 1..N |-> CASE m = j                -> q[i]
                    [] i <= m /\ m < j      -> q[m + 1]
                    [] j < m /\ m <= i      -> q[m - 1]
                    [] OTHER                -> q[m]]

(***************************************************************************)
(* Where the loops of OnDeadlineChanged leave the shard found at i: the    *)
(* first goes past every neighbour on the left that is later, the second   *)
(* past every neighbour on the right that is earlier.                      *)
(***************************************************************************)
StopsLeft(q, md, i, l) ==
  /\ l <= i
  /\ \A m \in l..(i - 1) : md[q[i]] < md[q[m]]
  /\ l > 1 => md[q[i]] >= md[q[l - 1]]

\* Mutant: the second loop is missing.
StopsAtOnce(q, md, i, r) == r = i

StopsRight(q, md, i, r) ==
  /\ i <= r
  /\ \A m \in (i + 1)..r : md[q[i]] > md[q[m]]
  /\ r < N => md[q[i]] <= md[q[r + 1]]

Reorder(s) ==
  \E i, l, r \in 1..N :
    /\ shard_queue_[i] = s
    /\ StopsLeft(shard_queue_, min_deadline', i, l)
    /\ StopsRight(Carry(shard_queue_, i, l), min_deadline', l, r)
    /\ shard_queue_' = Carry(Carry(shard_queue_, i, l), l, r)

\* Mutant: the poller is not woken.
ReorderOnly(s) == Reorder(s) /\ UNCHANGED wakeVars

\* OnDeadlineChanged, after min_deadline[s] has been assigned.
OnDeadlineChanged(s) ==
  /\ Reorder(s)
  /\ wakeup' = TRUE
  /\ UNCHANGED <<drains, swallowed>>

-----------------------------------------------------------------------------
(***************************************************************************)
(* Timer::Start on a timer that is not pending (TimerInit does not check): *)
(* the deadline is computed before any mutex is taken.                     *)
(***************************************************************************)
TimerInit(c, t, d) ==
  /\ pc[c] = "idle"
  /\ ~pending_[t]
  /\ armed[t] < MaxArms
  /\ \A b \in Callers : ~(pc[b] = "add" /\ timer[b] = t)
  /\ now + d <= MaxTime
  /\ timer' = [timer EXCEPT ![c] = t]
  /\ deadline' = [deadline EXCEPT ![c] = now + d]
  /\ pc' = [pc EXCEPT ![c] = "add"]
  /\ UNCHANGED <<now, timerVars, queueVars, is_first, loopVars, wakeVars,
                 history>>

\* What TimerHeap::Add returns: the new timer went up to the root.
AddIsFirst(s, d) == \A u \in urgent_timers[s] : d < deadline_[u]

\* The block of TimerInit under the mutex of the shard.
TimerInitAdd(c) ==
  LET t == timer[c]
      s == ShardOf[t]
  IN  /\ pc[c] = "add"
      /\ deadline_' = [deadline_ EXCEPT ![t] = deadline[c]]
      /\ pending_' = [pending_ EXCEPT ![t] = TRUE]
      /\ is_first' = [is_first EXCEPT ![c] = AddIsFirst(s, deadline[c])]
      /\ urgent_timers' = [urgent_timers EXCEPT ![s] = @ \cup {t}]
      /\ armed' = [armed EXCEPT ![t] = @ + 1]
      /\ pc' = [pc EXCEPT ![c] = "publish"]
      /\ UNCHANGED <<now, queueVars, timer, deadline, loopVars, wakeVars,
                     posted, canceled>>

\* Mutant: mutex_ is not taken.
MutexIgnored == loop \in {"check", "while", "store", "poll", "polling"}

MutexFree == ~Checking

\* The block of TimerInit under mutex_.
TimerInitPublish(c) ==
  LET s == ShardOf[timer[c]]
  IN  /\ pc[c] = "publish"
      /\ MutexFree
      /\ IF is_first[c] /\ deadline[c] < min_deadline[s]
           THEN /\ min_deadline' = [min_deadline EXCEPT ![s] = deadline[c]]
                /\ OnDeadlineChanged(s)
           ELSE UNCHANGED <<queueVars, wakeVars>>
      /\ pc' = [pc EXCEPT ![c] = "idle"]
      /\ timer' = [timer EXCEPT ![c] = NoTimer]
      /\ is_first' = [is_first EXCEPT ![c] = FALSE]
      /\ deadline' = [deadline EXCEPT ![c] = 0]
      /\ UNCHANGED <<now, timerVars, loopVars, history>>

\* Mutant: the pending flag is not tested.
StartedOnce(t) == armed[t] > 0 /\ canceled[t] < MaxArms

MayCancel(t) == pending_[t]

(***************************************************************************)
(* TimerCancel, under the mutex of the shard: nothing to do unless         *)
(* pending.  min_deadline is left as it is.                                *)
(***************************************************************************)
TimerCancel(c, t) ==
  /\ pc[c] = "idle"
  /\ MayCancel(t)
  /\ pending_' = [pending_ EXCEPT ![t] = FALSE]
  /\ urgent_timers' = [urgent_timers EXCEPT ![ShardOf[t]] = @ \ {t}]
  /\ canceled' = [canceled EXCEPT ![t] = @ + 1]
  /\ UNCHANGED <<now, deadline_, queueVars, callerVars, loopVars, wakeVars,
                 armed, posted>>

-----------------------------------------------------------------------------
\* TimerCheck takes mutex_ and reads the clock.
TimerCheck ==
  /\ loop = "check"
  /\ Prompt => drains = 0
  /\ loop' = "while"
  /\ check_now' = now
  /\ UNCHANGED <<now, timerVars, queueVars, callerVars, new_min, timeout,
                 poll_start, wakeVars, history>>

Front == shard_queue_[1]

\* Mutant: the comparison is inverted.
FrontNotDue == min_deadline[Front] > check_now

\* The condition of the loop of TimerCheck.
FrontDue == min_deadline[Front] <= check_now

\* ComputeMinDeadline of a heap with these timers.
IsMinDeadline(m, heap) ==
  \/ heap = {} /\ m = Infinite
  \/ /\ \E t \in heap : m = deadline_[t]
     /\ \A t \in heap : m <= deadline_[t]

\* Mutant: a timer that is due within the next millisecond counts as due.
ExpiredSoon(s) == {t \in urgent_timers[s] : deadline_[t] <= check_now + Ms}

\* The timers that PopOne finds due.
Expired(s) == {t \in urgent_timers[s] : deadline_[t] <= check_now}

(***************************************************************************)
(* PopTimers and PopOne, under the mutex of the front shard: every timer   *)
(* that is due leaves the heap and its closure is posted; the new minimum  *)
(* is computed and, after that, the mutex is released.                     *)
(***************************************************************************)
PopTimers ==
  /\ loop = "while"
  /\ FrontDue
  /\ LET due  == Expired(Front)
         rest == urgent_timers[Front] \ due
     IN  /\ pending_' = [t \in Timers |-> pending_[t] /\ t \notin due]
         /\ urgent_timers' = [urgent_timers EXCEPT ![Front] = rest]
         /\ posted' = [t \in Timers |-> IF t \in due THEN posted[t] + 1
                                                     ELSE posted[t]]
         /\ new_min' \in Deadlines
         /\ IsMinDeadline(new_min', rest)
  /\ loop' = "store"
  /\ UNCHANGED <<now, deadline_, queueVars, callerVars, check_now, timeout,
                 poll_start, wakeVars, armed, canceled>>

\* TimerCheck: min_deadline of the front shard is replaced.
TimerCheckStore ==
  /\ loop = "store"
  /\ min_deadline' = [min_deadline EXCEPT ![Front] = new_min]
  /\ OnDeadlineChanged(Front)
  /\ new_min' = Infinite
  /\ loop' = "while"
  /\ UNCHANGED <<now, timerVars, callerVars, check_now, timeout, poll_start,
                 history>>

(***************************************************************************)
(* The timeout of IOManager::Run: at least a millisecond, in whole         *)
(* milliseconds (IOPoller::Poll divides); Infinite polls without timeout.  *)
(***************************************************************************)
PollTimeout(delta) == IF delta < Ms THEN Ms ELSE (delta \div Ms) * Ms

\* TimerCheck returns and mutex_ is released.
TimerCheckReturn ==
  /\ loop = "while"
  /\ ~FrontDue
  /\ timeout' = IF min_deadline[Front] = Infinite
                  THEN Infinite
                  ELSE min_deadline[Front] - check_now
  /\ loop' = "poll"
  /\ UNCHANGED <<now, timerVars, queueVars, callerVars, check_now, new_min,
                 poll_start, wakeVars, history>>

\* epoll_wait is entered.
Poll ==
  /\ loop = "poll"
  /\ poll_start' = now
  /\ loop' = "polling"
  /\ UNCHANGED <<now, timerVars, queueVars, callerVars, check_now, new_min,
                 timeout, wakeVars, history>>

\* Mutant: epoll_wait is called without the timeout.
TimedOutNever == FALSE

(***************************************************************************)
(* A finite timeout has run out.  Beyond MaxTime the clock is not counted: *)
(* every finite timeout is then over.                                      *)
(***************************************************************************)
TimedOut == /\ timeout # Infinite
            /\ now >= poll_start + PollTimeout(timeout) \/ now = MaxTime

\* The end of a turn of the loop; its locals are dead.
LoopRound ==
  /\ loop = "polling"
  /\ loop' = "check"
  /\ check_now' = 0
  /\ timeout' = Infinite
  /\ poll_start' = 0
  /\ swallowed' = FALSE

(***************************************************************************)
(* epoll_wait returns because of wakeup_fd_, and the task that reads it is *)
(* posted, or because of the timeout.                                      *)
(***************************************************************************)
PollReturn ==
  /\ LoopRound
  /\ wakeup \/ TimedOut
  /\ wakeup' = FALSE
  /\ wakeup => drains < MaxDrains
  /\ drains' = IF wakeup THEN drains + 1 ELSE drains
  /\ UNCHANGED <<now, timerVars, queueVars, callerVars, new_min, history>>

\* epoll_wait returns for another descriptor; the loop comes round again.
PollOtherEvent ==
  /\ LoopRound
  /\ ~wakeup /\ ~TimedOut
  /\ UNCHANGED <<now, timerVars, queueVars, callerVars, new_min, wakeup, drains,
                 history>>

(***************************************************************************)
(* WakeupWatcher::OnFileReadable on a worker of the task runner reads      *)
(* wakeup_fd_ until it is empty.  What was written to wake the poll thread *)
(* again goes with it: epoll_wait then finds nothing to report.            *)
(***************************************************************************)
Drain ==
  /\ drains > 0
  /\ drains' = drains - 1
  /\ wakeup' = FALSE
  /\ swallowed' = (swallowed \/ (wakeup /\ loop \in {"poll", "polling"}))
  /\ UNCHANGED <<now, timerVars, queueVars, callerVars, loopVars, history>>

-----------------------------------------------------------------------------
InitStep(c) == TimerInitAdd(c) \/ TimerInitPublish(c)

RunLoop == \/ TimerCheck \/ PopTimers \/ TimerCheckStore \/ TimerCheckReturn
           \/ Poll \/ PollReturn

Next ==
  \/ Tick
  \/ \E c \in Callers : \/ \E t \in Timers, d \in Timeouts : TimerInit(c, t, d)
                        \/ InitStep(c)
                        \/ \E t \in Timers : TimerCancel(c, t)
  \/ RunLoop
  \/ PollOtherEvent
  \/ Drain

Spec == Init /\ [][Next]_vars

(***************************************************************************)
(* Time passes, and the threads that can run do.  A caller waiting for     *)
(* mutex_ gets it in the end, although the loop takes it again and again   *)
(* (strong fairness).  No other event is counted on.                       *)
(***************************************************************************)
Fairness ==
  /\ WF_vars(Tick)
  /\ WF_vars(RunLoop)
  /\ WF_vars(Drain)
  /\ \A c \in Callers : WF_vars(TimerInitAdd(c)) /\ SF_vars(TimerInitPublish(c))

FairSpec == Spec /\ Fairness

-----------------------------------------------------------------------------
(* Safety *)

(***************************************************************************)
(* The bound on the timers of shard s that TimerCheck goes by: the cached  *)
(* min_deadline or, between PopTimers and the store, the value about to    *)
(* replace it.                                                             *)
(***************************************************************************)
Bound(s) == IF loop = "store" /\ s = Front THEN new_min ELSE min_deadline[s]

\* A TimerInit on shard s has yet to publish a deadline of at most d.
InFlight(s, d) ==
  \E c \in Callers : /\ pc[c] = "publish" /\ is_first[c]
                     /\ ShardOf[timer[c]] = s
                     /\ deadline[c] <= d

(***************************************************************************)
(* The cached minimum of a shard is never later than a timer in its heap,  *)
(* except while the TimerInit that put an earlier timer on top is between  *)
(* its two mutexes.                                                        *)
(***************************************************************************)
MinDeadlineCovers ==
  \A s \in Shards : \A t \in urgent_timers[s] :
     Bound(s) <= deadline_[t] \/ InFlight(s, deadline_[t])

(***************************************************************************)
(* shard_queue_ holds every shard once, sorted by min_deadline: the front  *)
(* shard, the only one TimerCheck looks at, is the earliest.               *)
(***************************************************************************)
QueueSorted ==
  /\ \A i, j \in 1..N : shard_queue_[i] = shard_queue_[j] => i = j
  /\ \A s \in Shards : \E i \in 1..N : shard_queue_[i] = s
  /\ \A i, j \in 1..N : i < j =>
       min_deadline[shard_queue_[i]] <= min_deadline[shard_queue_[j]]

(***************************************************************************)
(* The heap holds the pending timers, and every start of a timer ends in   *)
(* one way: posted once, or cancelled once, or still pending.              *)
(***************************************************************************)
EachStartEndsOnce ==
  \A t \in Timers :
    /\ pending_[t] <=> t \in urgent_timers[ShardOf[t]]
    /\ armed[t] = posted[t] + canceled[t] + (IF pending_[t] THEN 1 ELSE 0)

(***************************************************************************)
(* The poller does not oversleep: when it is about to sleep or asleep,     *)
(* nothing has woken it and no wakeup was swallowed, its timeout counted   *)
(* from the moment TimerCheck read the clock ends at most a millisecond    *)
(* after the deadline of any timer whose TimerInit has returned.           *)
(***************************************************************************)
NoOversleep ==
  loop \in {"poll", "polling"} /\ ~wakeup /\ ~swallowed =>
    \A s \in Shards : \A t \in urgent_timers[s] :
      \/ /\ timeout # Infinite
         /\ check_now + PollTimeout(timeout) < deadline_[t] + Ms
         /\ check_now < deadline_[t]
      \/ InFlight(s, deadline_[t])

-----------------------------------------------------------------------------
(* Liveness *)

(***************************************************************************)
(* A timer that is started fires, unless it is cancelled.                  *)
(***************************************************************************)
StartedFires == \A t \in Timers : pending_[t] ~> ~pending_[t]

(***************************************************************************)
(* No closure is posted before its deadline, and only of a pending timer.  *)
(***************************************************************************)
NeverEarly ==
  [][\A t \in Timers : posted'[t] # posted[t] =>
        pending_[t] /\ deadline_[t] <= now]_vars
=============================================================================
