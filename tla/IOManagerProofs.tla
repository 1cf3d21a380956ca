-------------------------- MODULE IOManagerProofs --------------------------
(***************************************************************************)
(* Proofs about the I/O manager.  The first part, IInv, holds whatever the *)
(* users of the descriptors do; the second one, under the discipline       *)
(* NoSharedMode, gives that the registrations agree and that no edge is    *)
(* lost.                                                                   *)
(***************************************************************************)
EXTENDS IOManager, SequenceFacts, FiniteSetTheorems

-----------------------------------------------------------------------------
(* The inductive invariant *)

(***************************************************************************)
(* Two threads are never inside a call at the same time, and mutex_ says   *)
(* which one is.                                                           *)
(***************************************************************************)
OneInside ==
  \A th \in Threads : call[th].pc \in {"wait", "add"} <=> mutex_ = th

\* What is known of the arguments of a call.
CallShape ==
  \A th \in Threads :
    /\ call[th].pc # "idle" => /\ call[th].op \in {"stop", "watch"}
                               /\ call[th].ctrl \in Controllers
    /\ call[th].pc = "add" => call[th].op = "watch"
    /\ call[th].op = "watch" => /\ call[th].fd \in Fds
                                /\ call[th].mode \in ModesOf[call[th].ctrl]

(***************************************************************************)
(* A controller is on one list at most, that of its descriptor, and once;  *)
(* a call inside mutex_ has taken its own controller off.                  *)
(***************************************************************************)
OnceListed ==
  \A f \in Fds :
    /\ IsInjective(controllers[f])
    /\ \A c \in Controllers : Contains(controllers[f], c) =>
         /\ fd_[c] = f
         /\ \A th \in Threads :
              call[th].pc \in {"wait", "add"} => call[th].ctrl # c

\* A controller watches with a mode that its user asked for.
ModeAsked == \A c \in Controllers : mode_[c] \in ModesOf[c] \cup {{}}

\* A task is in the queue once, or with one worker.
TasksApart ==
  /\ IsInjective(queue)
  /\ \A w \in Workers : ~Contains(queue, running[w])
  /\ \A w \in Workers : phase[w] = "idle" <=> running[w] = 0
  /\ \A w, v \in Workers : running[w] = running[v] /\ running[w] # 0 => w = v

\* CalledAsAsked, of a task in the queue rather than of a place in it.
Asked ==
  \A t \in Tasks : Contains(queue, t) =>
    /\ bound[t].ctrl \in Controllers
    /\ bound[t].ready # {}
    /\ \E m \in ModesOf[bound[t].ctrl] : bound[t].ready \subseteq m

CallInv == OneInside /\ CallShape /\ OnceListed /\ ModeAsked
TaskInv == TasksApart /\ Asked

\* What holds whatever the users of the descriptors do.
IInv == TypeOK /\ CallInv /\ TaskInv

-----------------------------------------------------------------------------
(* One event *)

(***************************************************************************)
(* What Dispatch(f) does, without the order: tasks P, free before, are put *)
(* in the queue, one for every controller on the list of f that the event  *)
(* is for.                                                                 *)
(***************************************************************************)
Posts(f, P, new) ==
  /\ P \subseteq FreeTasks
  /\ new \in Seq(Tasks) /\ IsInjective(new)
  /\ \A t : Contains(new, t) <=> t \in P
  /\ queue' = queue \o new
  /\ task_state' = [t \in Tasks |-> IF t \in P THEN "pending" ELSE task_state[t]]
  /\ bound' = [t \in Tasks |-> bound'[t]]
  /\ \A t \in Tasks \ P : bound'[t] = bound[t]
  /\ \A t \in P : \E c \in Controllers :
       /\ Contains(controllers[f], c)
       /\ ReadyFor(f, c) # {}
       /\ bound'[t] = [ctrl |-> c, ready |-> ReadyFor(f, c)]
  /\ \A c \in Controllers :
       Contains(controllers[f], c) /\ ReadyFor(f, c) # {} =>
         \E t \in P : bound'[t].ctrl = c
  /\ task_' = [c \in Controllers |-> task_'[c]]
  /\ \A c \in Controllers :
       \/ task_'[c] = task_[c]
       \/ task_'[c] \in P /\ bound'[task_'[c]].ctrl = c

\* An ascending enumeration has no repetition.
LEMMA AscendingFacts ==
  ASSUME NEW S \in SUBSET Nat, IsFiniteSet(S), NEW s \in Ascending(S)
  PROVE  /\ s \in Seq(S) /\ IsInjective(s)
         /\ \A d : Contains(s, d) <=> d \in S
<1>1. Cardinality(S) \in Nat
  BY FS_CardinalityType
<1>2. s \in Seq(S) /\ Len(s) = Cardinality(S) /\ DOMAIN s = 1..Len(s)
  BY <1>1, IsASeq DEF Ascending
<1>3. IsInjective(s)
  <2> SUFFICES ASSUME NEW i \in 1..Len(s), NEW j \in 1..Len(s), s[i] = s[j],
                      i # j
               PROVE  FALSE
    BY <1>2 DEF IsInjective
  <2>1. s[i] \in Nat /\ s[j] \in Nat
    BY <1>2, ElementOfSeq
  <2>2. CASE i < j
    BY <1>2, <2>1, <2>2 DEF Ascending
  <2>3. CASE j < i
    BY <1>2, <2>1, <2>3 DEF Ascending
  <2> QED BY <1>1, <1>2, <2>2, <2>3
<1>4. \A d : Contains(s, d) <=> d \in S
  BY <1>2, Zenon DEF Ascending, Contains, ToSet
<1> QED BY <1>2, <1>3, <1>4

\* The first n elements of a list without repetition.
LEMMA PrefixFacts ==
  ASSUME NEW S, NEW s \in Seq(S), IsInjective(s), NEW n \in 0..Len(s)
  PROVE  /\ SubSeq(s, 1, n) \in Seq(S) /\ IsInjective(SubSeq(s, 1, n))
         /\ \A d : Contains(SubSeq(s, 1, n), d) <=> d \in {s[i] : i \in 1..n}
<1>1. Len(s) \in Nat /\ DOMAIN s = 1..Len(s)
  BY LenProperties
<1>2. \A i \in 1..n : i \in 1..Len(s) /\ s[i] \in S
  BY <1>1, ElementOfSeq
<1>3. /\ SubSeq(s, 1, n) \in Seq(S)
      /\ Len(SubSeq(s, 1, n)) = n
      /\ \A i \in 1..n : SubSeq(s, 1, n)[i] = s[i]
  <2>1. /\ SubSeq(s, 1, n) \in Seq(S)
        /\ Len(SubSeq(s, 1, n)) = IF 1 <= n THEN n - 1 + 1 ELSE 0
        /\ \A i \in 1..(n - 1 + 1) : SubSeq(s, 1, n)[i] = s[1 + i - 1]
    BY <1>1, <1>2, SubSeqProperties
  <2>2. n - 1 + 1 = n /\ \A i \in 1..n : 1 + i - 1 = i
    BY <1>1
  <2> QED BY <1>1, <2>1, <2>2
<1>4. DOMAIN SubSeq(s, 1, n) = 1..n
  BY <1>3, LenProperties
<1> QED BY <1>1, <1>2, <1>3, <1>4, Zenon DEF IsInjective, Contains

\* Dispatch posts a task to every controller that the event is for.
LEMMA DispatchPosts ==
  ASSUME TypeOK, OnceListed, NEW f \in Fds, Dispatch(f)
  PROVE  \E P \in SUBSET Tasks, new \in Seq(Tasks) : Posts(f, P, new)
<1>1. PICK at \in Ascending(Concerned(f)), new \in Ascending(FreeTasks) :
        LET n       == Len(at)
            ctrl(i) == controllers[f][at[i]]
            posted  == {new[i] : i \in 1..n}
            nth(t)  == CHOOSE i \in 1..n : new[i] = t
            of(c)   == {i \in 1..n : ctrl(i) = c}
        IN  /\ n <= Len(new)
            /\ queue' = queue \o SubSeq(new, 1, n)
            /\ task_state' = [t \in Tasks |->
                                IF t \in posted THEN "pending" ELSE task_state[t]]
            /\ bound' = [t \in Tasks |->
                           IF t \in posted
                             THEN [ctrl  |-> ctrl(nth(t)),
                                   ready |-> ReadyFor(f, ctrl(nth(t)))]
                             ELSE bound[t]]
            /\ task_' = [c \in Controllers |->
                           IF of(c) = {} THEN task_[c]
                                         ELSE new[CHOOSE i \in of(c) : TRUE]]
  BY Zenon DEF Dispatch
<1> DEFINE n       == Len(at)
           ctrl(i) == controllers[f][at[i]]
           P       == {new[i] : i \in 1..n}
           nth(t)  == CHOOSE i \in 1..n : new[i] = t
           of(c)   == {i \in 1..n : ctrl(i) = c}
           s       == SubSeq(new, 1, n)
<1>2. /\ controllers[f] \in Seq(Controllers)
      /\ DOMAIN controllers[f] = 1..Len(controllers[f])
      /\ Len(controllers[f]) \in Nat
  BY LenProperties DEF TypeOK
<1>3. /\ Concerned(f) \in SUBSET Nat /\ IsFiniteSet(Concerned(f))
      /\ FreeTasks \in SUBSET Nat /\ IsFiniteSet(FreeTasks)
  <2>1. Concerned(f) \subseteq 1..Len(controllers[f])
    BY <1>2 DEF Concerned
  <2>2. FreeTasks \subseteq 1..MaxTasks
    BY DEF FreeTasks, Tasks
  <2>3. IsFiniteSet(1..Len(controllers[f])) /\ IsFiniteSet(1..MaxTasks)
    BY <1>2, IOAssumption, FS_Interval
  <2>4. IsFiniteSet(Concerned(f)) /\ IsFiniteSet(FreeTasks)
    BY <2>1, <2>2, <2>3, FS_Subset
  <2> QED BY <1>2, <2>1, <2>2, <2>4, IOAssumption
<1>4. /\ at \in Seq(Concerned(f)) /\ n \in Nat
      /\ \A k : Contains(at, k) <=> k \in Concerned(f)
      /\ new \in Seq(FreeTasks) /\ IsInjective(new) /\ Len(new) \in Nat
      /\ DOMAIN new = 1..Len(new)
  BY <1>1, <1>3, AscendingFacts, LenProperties
<1>5. \A i \in 1..n : /\ at[i] \in 1..Len(controllers[f])
                      /\ ctrl(i) \in Controllers
                      /\ Contains(controllers[f], ctrl(i))
                      /\ ReadyFor(f, ctrl(i)) # {}
  <2> SUFFICES ASSUME NEW i \in 1..n
               PROVE  /\ at[i] \in 1..Len(controllers[f])
                      /\ ctrl(i) \in Controllers
                      /\ Contains(controllers[f], ctrl(i))
                      /\ ReadyFor(f, ctrl(i)) # {}
    OBVIOUS
  <2>1. at[i] \in Concerned(f)
    BY <1>4, Zenon DEF Contains
  <2>2. at[i] \in 1..Len(controllers[f]) /\ ReadyFor(f, ctrl(i)) # {}
    BY <1>2, <2>1 DEF Concerned
  <2> QED BY <1>2, <2>2, ElementOfSeq DEF Contains
<1>6. n \in 0..Len(new)
  BY <1>1, <1>4
<1>7. /\ s \in Seq(FreeTasks) /\ IsInjective(s)
      /\ \A d : Contains(s, d) <=> d \in P
  BY <1>4, <1>6, PrefixFacts
<1>8. \A i \in 1..n : i \in 1..Len(new) /\ new[i] \in FreeTasks
  BY <1>4, <1>6, ElementOfSeq
<1>9. P \subseteq FreeTasks /\ FreeTasks \subseteq Tasks
  BY <1>8 DEF FreeTasks
<1>10. s \in Seq(Tasks)
  BY <1>7, <1>9, SeqMonotonic
<1>11. \A i, j \in 1..n : new[i] = new[j] => i = j
  BY <1>4, <1>8, Zenon DEF IsInjective
<1>12. \A i \in 1..n : nth(new[i]) = i
  BY <1>11, Zenon
<1>13. \A i \in 1..n : bound'[new[i]] = [ctrl |-> ctrl(i), ready |-> ReadyFor(f, ctrl(i))]
  <2> SUFFICES ASSUME NEW i \in 1..n
               PROVE  bound'[new[i]] = [ctrl |-> ctrl(i), ready |-> ReadyFor(f, ctrl(i))]
    OBVIOUS
  <2>1. new[i] \in P /\ new[i] \in Tasks
    BY <1>8, <1>9
  <2>2. bound'[new[i]] = [ctrl  |-> ctrl(nth(new[i])),
                          ready |-> ReadyFor(f, ctrl(nth(new[i])))]
    BY <1>1, <2>1, Zenon
  <2> QED BY <1>12, <2>2, Zenon
<1>14. \A c \in Controllers : of(c) # {} =>
         \E i \in 1..n : ctrl(i) = c /\ task_'[c] = new[i]
  <2> SUFFICES ASSUME NEW c \in Controllers, of(c) # {}
               PROVE  \E i \in 1..n : ctrl(i) = c /\ task_'[c] = new[i]
    OBVIOUS
  <2>1. (CHOOSE i \in of(c) : TRUE) \in of(c)
    BY Zenon
  <2>2. task_'[c] = new[CHOOSE i \in of(c) : TRUE]
    BY <1>1, Zenon
  <2> QED BY <2>1, <2>2, Zenon
<1>15. \A c \in Controllers : of(c) = {} => task_'[c] = task_[c]
  BY <1>1, Zenon
<1>16. \A c \in Controllers :
         Contains(controllers[f], c) /\ ReadyFor(f, c) # {} =>
           \E i \in 1..n : ctrl(i) = c
  <2> SUFFICES ASSUME NEW c \in Controllers, NEW k \in 1..Len(controllers[f]),
                      controllers[f][k] = c, ReadyFor(f, c) # {}
               PROVE  \E i \in 1..n : ctrl(i) = c
    BY DEF Contains
  <2>1. k \in Concerned(f)
    BY <1>2 DEF Concerned
  <2> QED BY <1>4, <2>1, Zenon DEF Contains
<1> HIDE DEF nth, of, ctrl, n, P
<1>22. \A i \in 1..n : bound'[new[i]].ctrl = ctrl(i) /\ new[i] \in P
  <2>1. ASSUME NEW i \in 1..n
        PROVE  bound'[new[i]].ctrl = ctrl(i)
    <3> DEFINE x == ctrl(i)
               y == ReadyFor(f, ctrl(i))
    <3>1. bound'[new[i]] = [ctrl |-> x, ready |-> y]
      BY <1>13
    <3> HIDE DEF x, y
    <3>2. bound'[new[i]].ctrl = x
      BY <3>1
    <3> QED BY <3>2 DEF x
  <2>2. ASSUME NEW i \in 1..n
        PROVE  new[i] \in P
    BY DEF P
  <2> QED BY <2>1, <2>2
<1>17. \A c \in Controllers :
         \/ task_'[c] = task_[c]
         \/ task_'[c] \in P /\ bound'[task_'[c]].ctrl = c
  <2> SUFFICES ASSUME NEW c \in Controllers, task_'[c] # task_[c]
               PROVE  task_'[c] \in P /\ bound'[task_'[c]].ctrl = c
    OBVIOUS
  <2>1. PICK i \in 1..n : ctrl(i) = c /\ task_'[c] = new[i]
    BY <1>14, <1>15
  <2> QED BY <1>22, <2>1
<1>18. \A c \in Controllers :
         Contains(controllers[f], c) /\ ReadyFor(f, c) # {} =>
           \E t \in P : bound'[t].ctrl = c
  <2> SUFFICES ASSUME NEW c \in Controllers, NEW i \in 1..n, ctrl(i) = c
               PROVE  \E t \in P : bound'[t].ctrl = c
    BY <1>16
  <2> QED BY <1>22
<1>19. \A t \in P : \E c \in Controllers :
         /\ Contains(controllers[f], c)
         /\ ReadyFor(f, c) # {}
         /\ bound'[t] = [ctrl |-> c, ready |-> ReadyFor(f, c)]
  BY <1>5, <1>13, Zenon DEF P
<1>20. /\ queue' = queue \o s
       /\ task_state' = [t \in Tasks |-> IF t \in P THEN "pending" ELSE task_state[t]]
       /\ \A t \in Tasks \ P : bound'[t] = bound[t]
  BY <1>1, Zenon DEF P, n
<1>23. /\ bound' = [t \in Tasks |-> bound'[t]]
       /\ task_' = [c \in Controllers |-> task_'[c]]
  BY <1>1
<1> HIDE DEF s
<1>21. Posts(f, P, s)
  BY <1>7, <1>9, <1>10, <1>17, <1>18, <1>19, <1>20, <1>23, Zenon DEF Posts
<1> QED BY <1>9, <1>10, <1>21

-----------------------------------------------------------------------------
(* IInv is an invariant *)

\* Nothing of the calls, or nothing of the tasks, is changed.
LEMMA CallFrame ==
  ASSUME CallInv, UNCHANGED <<fd_, mode_, controllers, mutex_, call>>
  PROVE  CallInv'
BY DEF CallInv, OneInside, CallShape, OnceListed, ModeAsked

LEMMA TaskFrame ==
  ASSUME TaskInv, UNCHANGED <<queue, bound, running, phase>>
  PROVE  TaskInv'
BY DEF TaskInv, TasksApart, Asked

LEMMA InitIInv == Init => IInv
<1> SUFFICES ASSUME Init PROVE IInv
  OBVIOUS
<1> USE IOAssumption DEF Init
<1>0. <<WakeupController>> \in Seq(Controllers) /\ Len(<<WakeupController>>) = 1
      /\ <<WakeupController>>[1] = WakeupController
  OBVIOUS
<1>1. TypeOK
  <2>1. NoCall \in Calls
    BY DEF NoCall, Calls
  <2>2. /\ fd_ \in [Controllers -> Fds \cup {None}]
        /\ mode_ \in [Controllers -> SUBSET Modes]
        /\ task_ \in [Controllers -> Tasks \cup {0}]
        /\ mode \in [Fds -> SUBSET Modes]
        /\ interest \in [Fds -> SUBSET Modes]
        /\ level \in [Fds -> SUBSET Conditions]
    BY DEF Modes
  <2>3. controllers \in [Fds -> Seq(Controllers)]
    BY <1>0
  <2>4. /\ queue \in Seq(Tasks)
        /\ bound \in [Tasks -> [ctrl : Controllers \cup {None}, ready : SUBSET Modes]]
    BY DEF Unbound
  <2> QED BY <2>1, <2>2, <2>3, <2>4 DEF TypeOK
<1>2. OneInside /\ CallShape
  BY DEF OneInside, CallShape, NoCall
<1>3. OnceListed
  BY <1>0 DEF OnceListed, NoCall, IsInjective, Contains
<1>4. ModeAsked
  BY DEF ModeAsked
<1>5. TasksApart /\ Asked
  BY DEF TasksApart, Asked, IsInjective, Contains, Tasks
<1> QED BY <1>1, <1>2, <1>3, <1>4, <1>5 DEF IInv, CallInv, TaskInv

\* The kernel: MakeReady is the whole of Edge and of DtorWakeup here.
LEMMA MakeReadyIInv ==
  ASSUME IInv, NEW f \in Fds, NEW k \in Conditions, MakeReady(f, k),
         UNCHANGED <<ctrlVars, fdVars, loopVars, taskVars, callVars>>,
         stopped_' \in BOOLEAN, dtor' \in {"none", "stopped", "woken", "done"}
  PROVE  IInv'
<1> USE DEF IInv, ctrlVars, fdVars, loopVars, taskVars, callVars
<1>1. TypeOK'
  BY DEF TypeOK, MakeReady, Concerns, Conditions
<1> QED BY <1>1, CallFrame, TaskFrame

\* A thread calls StopWatching or WatchFileDescriptor.
LEMMA EnterIInv ==
  ASSUME IInv, NEW th \in Threads, NEW c \in Controllers,
         \/ EnterStop(th, c)
         \/ \E f \in Fds, m \in SUBSET Modes : EnterWatch(th, c, f, m)
  PROVE  IInv'
<1>1. PICK e \in Calls :
        /\ call' = [call EXCEPT ![th] = e]
        /\ e.pc = "lock" /\ e.op \in {"stop", "watch"} /\ e.ctrl = c
        /\ e.op = "watch" => e.fd \in Fds /\ e.mode \in ModesOf[c]
  <2>1. CASE EnterStop(th, c)
    <3> DEFINE e == [NoCall EXCEPT !.pc = "lock", !.op = "stop", !.ctrl = c]
    <3>1. e \in Calls /\ e.pc = "lock" /\ e.op = "stop" /\ e.ctrl = c
      BY DEF NoCall, Calls
    <3>2. call' = [call EXCEPT ![th] = e]
      BY <2>1 DEF EnterStop
    <3> QED BY <3>1, <3>2
  <2>2. ASSUME NEW f \in Fds, NEW m \in SUBSET Modes, EnterWatch(th, c, f, m)
        PROVE  \E e \in Calls :
                 /\ call' = [call EXCEPT ![th] = e]
                 /\ e.pc = "lock" /\ e.op \in {"stop", "watch"} /\ e.ctrl = c
                 /\ e.op = "watch" => e.fd \in Fds /\ e.mode \in ModesOf[c]
    <3> DEFINE e == [NoCall EXCEPT !.pc = "lock", !.op = "watch", !.ctrl = c,
                                   !.fd = f, !.mode = m]
    <3>1. /\ e \in Calls /\ e.pc = "lock" /\ e.op = "watch" /\ e.ctrl = c
          /\ e.fd = f /\ e.mode = m
      BY DEF NoCall, Calls
    <3>2. call' = [call EXCEPT ![th] = e] /\ m \in ModesOf[c]
      BY <2>2 DEF EnterWatch
    <3> QED BY <3>1, <3>2
  <2> QED BY <2>1, <2>2
<1>2. /\ call[th].pc = "idle"
      /\ UNCHANGED <<ctrlVars, fdVars, kernelVars, loopVars, dtorVars,
                     taskVars,
                     mutex_, unseen>>
  BY DEF EnterStop, EnterWatch, MayCall
<1> USE <1>2 DEF IInv, ctrlVars, fdVars, kernelVars, loopVars, dtorVars,
taskVars
<1>3. TypeOK'
  BY <1>1 DEF TypeOK
<1>4. OneInside' /\ CallShape'
  BY <1>1 DEF OneInside, CallShape, TypeOK, CallInv
<1>5. OnceListed'
  BY <1>1 DEF OnceListed, CallInv, TypeOK
<1>6. ModeAsked'
  BY DEF ModeAsked, CallInv
<1> QED BY <1>3, <1>4, <1>5, <1>6, TaskFrame DEF CallInv

\* A call returns, or goes on under mutex_ with the arguments it has.
LEMMA LeaveFacts ==
  ASSUME TypeOK, NEW th \in Threads, Leave(th)
  PROVE  /\ mutex_' = None
         /\ call' \in [Threads -> Calls]
         /\ \A x \in Threads : x # th => call'[x] = call[x]
         /\ call'[th].pc = "idle" /\ call'[th].op = "none" /\ call'[th].task = 0
<1>1. NoCall \in Calls /\ NoCall.pc = "idle" /\ NoCall.op = "none" /\ NoCall.task = 0
  BY DEF NoCall, Calls
<1>2. call \in [Threads -> Calls] /\ call' = [call EXCEPT ![th] = NoCall]
      /\ mutex_' = None
  BY DEF TypeOK, Leave
<1> QED BY <1>1, <1>2

LEMMA GoOnFacts ==
  ASSUME TypeOK, NEW th \in Threads, NEW pc \in {"wait", "add"},
         NEW t \in Tasks \cup {0}, GoOn(th, pc, t)
  PROVE  /\ mutex_' = th
         /\ call' \in [Threads -> Calls]
         /\ \A x \in Threads : x # th => call'[x] = call[x]
         /\ call'[th].pc = pc /\ call'[th].op = call[th].op
         /\ call'[th].ctrl = call[th].ctrl /\ call'[th].fd = call[th].fd
         /\ call'[th].mode = call[th].mode /\ call'[th].task = t
<1>1. call \in [Threads -> Calls] /\ mutex_' = th
  BY DEF TypeOK, GoOn
<1>2. PICK e \in Calls : call[th] = e
  BY <1>1
<1> DEFINE d == [[e EXCEPT !.pc = pc] EXCEPT !.task = t]
<1>3. /\ d \in Calls /\ d.pc = pc /\ d.op = e.op /\ d.ctrl = e.ctrl /\ d.fd = e.fd
      /\ d.mode = e.mode /\ d.task = t
  BY DEF Calls
<1> HIDE DEF d
<1>4. call' = [call EXCEPT ![th] = d]
  BY <1>1, <1>2 DEF GoOn, d
<1> QED BY <1>1, <1>2, <1>3, <1>4

\* StopWatchingFileDescriptorNoLock takes the controller off its list.
LEMMA UnwatchFacts ==
  ASSUME IInv, NEW c \in Controllers, fd_[c] \in Fds, Unwatch(c)
  PROVE  /\ controllers' \in [Fds -> Seq(Controllers)]
         /\ task_state' \in [Tasks -> {"pending", "running", "canceled", "completed"}]
         /\ \A f \in Fds : IsInjective(controllers'[f])
         /\ \A f \in Fds, d \in Controllers :
              Contains(controllers'[f], d) <=> Contains(controllers[f], d) /\ d # c
<1> DEFINE g == fd_[c]
           r == RemoveFirst(controllers[g], c)
<1>1. /\ controllers[g] \in Seq(Controllers) /\ IsInjective(controllers[g])
      /\ controllers \in [Fds -> Seq(Controllers)]
  BY DEF IInv, TypeOK, CallInv, OnceListed
<1>2. /\ r \in Seq(Controllers) /\ IsInjective(r)
      /\ \A d : Contains(r, d) <=> d # c /\ Contains(controllers[g], d)
  BY <1>1, RemoveFirstFacts
<1> HIDE DEF r
<1>3. controllers' = [controllers EXCEPT ![g] = r]
  BY DEF Unwatch, r
<1>4. controllers' \in [Fds -> Seq(Controllers)]
  BY <1>1, <1>2, <1>3
<1>5. \A f \in Fds : IsInjective(controllers'[f])
  <2> TAKE f \in Fds
  <2>1. CASE f = g
    BY <1>1, <1>2, <1>3, <2>1, Zenon
  <2>2. CASE f # g
    <3>1. controllers'[f] = controllers[f]
      BY <1>1, <1>3, <2>2
    <3> QED BY <3>1 DEF IInv, CallInv, OnceListed
  <2> QED BY <2>1, <2>2
<1>6. ASSUME NEW f \in Fds, NEW d \in Controllers
      PROVE  Contains(controllers'[f], d) <=> Contains(controllers[f], d) /\ d # c
  <2>1. CASE f = g
    BY <1>1, <1>2, <1>3, <2>1, Zenon
  <2>2. CASE f # g
    <3>1. controllers'[f] = controllers[f]
      BY <1>1, <1>3, <2>2
    <3>2. ~Contains(controllers[f], c)
      BY <2>2 DEF IInv, CallInv, OnceListed
    <3> QED BY <3>1, <3>2
  <2> QED BY <2>1, <2>2
<1>7. task_state' \in [Tasks -> {"pending", "running", "canceled", "completed"}]
  BY DEF Unwatch, CancelTask, IInv, TypeOK
<1> QED BY <1>4, <1>5, <1>6, <1>7

\* A call that was waiting for mutex_ takes its controller off the list.
LEMMA UnwatchIInv ==
  ASSUME IInv, NEW th \in Threads, call[th].pc = "lock", mutex_ = None,
         fd_[call[th].ctrl] \in Fds, Unwatch(call[th].ctrl),
         \/ Leave(th)
         \/ GoOn(th, "wait", task_[call[th].ctrl])
         \/ GoOn(th, "add", 0) /\ call[th].op = "watch",
         UNCHANGED <<loopVars, dtorVars>>
  PROVE  IInv'
<1> DEFINE c == call[th].ctrl
<1>0. c \in Controllers
  BY DEF IInv, CallInv, CallShape
<1>1. /\ controllers' \in [Fds -> Seq(Controllers)]
      /\ task_state' \in [Tasks -> {"pending", "running", "canceled", "completed"}]
      /\ \A f \in Fds : IsInjective(controllers'[f])
      /\ \A f \in Fds, d \in Controllers :
           Contains(controllers'[f], d) <=> Contains(controllers[f], d) /\ d # c
  BY <1>0, UnwatchFacts
<1>2. /\ UNCHANGED <<fd_, mode_, level, queue, bound, running, phase>>
      /\ mutex_' \in {None, th}
      /\ \A x \in Threads : x # th => call'[x] = call[x]
      /\ call' \in [Threads -> Calls]
      /\ task_' \in [Controllers -> Tasks \cup {0}]
      /\ mode' \in [Fds -> SUBSET Modes]
      /\ interest' \in [Fds -> SUBSET Modes]
      /\ ready_list' \subseteq Fds
      /\ unseen' \in [Controllers -> SUBSET Modes]
  <2> DEFINE g == fd_[c]
             left == ModeLeft(g, mode_[c])
  <2>1. /\ UNCHANGED <<fd_, mode_, level, queue, bound, running, phase>>
        /\ task_' = [task_ EXCEPT ![c] = 0]
        /\ mode' = [mode EXCEPT ![g] = left]
        /\ unseen' = [unseen EXCEPT ![c] = {}]
        /\ interest' = interest \/ interest' = [interest EXCEPT ![g] = left]
        /\ ready_list' \subseteq ready_list \cup {g}
    BY <1>0 DEF Unwatch
  <2>2. left \in SUBSET Modes
    BY DEF ModeLeft, IInv, TypeOK
  <2> HIDE DEF left
  <2>3. /\ task_' \in [Controllers -> Tasks \cup {0}]
        /\ mode' \in [Fds -> SUBSET Modes]
        /\ interest' \in [Fds -> SUBSET Modes]
        /\ ready_list' \subseteq Fds
        /\ unseen' \in [Controllers -> SUBSET Modes]
    BY <1>0, <2>1, <2>2 DEF IInv, TypeOK
  <2>4. task_[c] \in Tasks \cup {0}
    BY <1>0 DEF IInv, TypeOK
  <2>5. /\ mutex_' \in {None, th} /\ \A x \in Threads : x # th => call'[x] = call[x]
        /\ call' \in [Threads -> Calls]
    BY <2>4, LeaveFacts, GoOnFacts DEF IInv
  <2> QED BY <2>1, <2>3, <2>5
<1>3. TypeOK'
  BY <1>1, <1>2 DEF TypeOK, IInv, loopVars, dtorVars
<1>4. /\ call'[th].pc \in {"wait", "add"} <=> mutex_' = th
      /\ call'[th].pc # "idle" =>
           /\ call'[th].op = call[th].op /\ call'[th].ctrl = c
           /\ call'[th].fd = call[th].fd /\ call'[th].mode = call[th].mode
      /\ call'[th].pc = "add" => call[th].op = "watch"
      /\ call'[th].op = "watch" => call'[th].pc # "idle"
  <2>1. task_[c] \in Tasks \cup {0}
    BY <1>0 DEF IInv, TypeOK
  <2> QED BY <2>1, LeaveFacts, GoOnFacts, IOAssumption DEF IInv
<1>5. OneInside'
  <2>1. ASSUME NEW x \in Threads, x # th
        PROVE  call'[x].pc \in {"wait", "add"} <=> mutex_' = x
    BY <1>2, <2>1, IOAssumption DEF IInv, CallInv, OneInside
  <2> QED BY <1>4, <2>1 DEF OneInside
<1>6. CallShape'
  <2>1. ASSUME NEW x \in Threads, x # th
        PROVE  call'[x] = call[x]
    BY <1>2, <2>1
  <2> QED BY <1>0, <1>2, <1>4, <2>1 DEF IInv, CallInv, CallShape
<1>7. OnceListed'
  <2> SUFFICES ASSUME NEW f \in Fds, NEW d \in Controllers,
                      Contains(controllers'[f], d), NEW x \in Threads,
                      call'[x].pc \in {"wait", "add"}
               PROVE  fd_'[d] = f /\ call'[x].ctrl # d
    BY <1>1, <1>2 DEF OnceListed, IInv, CallInv
  <2>1. Contains(controllers[f], d) /\ d # c
    BY <1>1
  <2>2. fd_'[d] = f
    BY <1>2, <2>1 DEF OnceListed, IInv, CallInv
  <2>3. x = th
    BY <1>2, IOAssumption DEF OneInside, IInv, CallInv
  <2> QED BY <1>4, <2>1, <2>2, <2>3
<1>8. ModeAsked'
  BY <1>2 DEF IInv, CallInv, ModeAsked
<1> QED BY <1>2, <1>3, <1>5, <1>6, <1>7, <1>8, TaskFrame DEF IInv, CallInv

\* The thread that has mutex_, or gets it, moves on and nobody else is inside.
LEMMA MoveOneInside ==
  ASSUME IInv, NEW th \in Threads, mutex_ \in {None, th},
         mutex_' \in {None, th},
         \A x \in Threads : x # th => call'[x] = call[x],
         call'[th].pc \in {"wait", "add"} <=> mutex_' = th
  PROVE  OneInside' /\ \A x \in Threads : call'[x].pc \in {"wait", "add"} => x = th
<1>1. ASSUME NEW x \in Threads, x # th
      PROVE  call'[x].pc \notin {"wait", "add"} /\ mutex_' # x
  BY <1>1, IOAssumption DEF IInv, CallInv, OneInside
<1> QED BY <1>1 DEF OneInside

LEMMA MoveCallShape ==
  ASSUME IInv, NEW th \in Threads,
         \A x \in Threads : x # th => call'[x] = call[x],
         \/ call'[th].pc = "idle" /\ call'[th].op = "none"
         \/ /\ call'[th].op = call[th].op /\ call[th].pc # "idle"
            /\ call'[th].ctrl = call[th].ctrl
            /\ call'[th].fd = call[th].fd /\ call'[th].mode = call[th].mode
            /\ call'[th].pc = "add" => call[th].op = "watch"
  PROVE  CallShape'
<1>1. ASSUME NEW x \in Threads, x # th
      PROVE  call'[x] = call[x]
  BY <1>1
<1> QED BY <1>1 DEF IInv, CallInv, CallShape

\* StopWatching and WatchFileDescriptor of a controller without a watch, or
\* of one that watches another descriptor.
LEMMA NoWatchIInv ==
  ASSUME IInv, NEW th \in Threads, call[th].pc = "lock", mutex_ = None,
         \/ Leave(th)
         \/ /\ GoOn(th, "add", 0)
            /\ call[th].op = "watch" /\ fd_[call[th].ctrl] = None,
         UNCHANGED <<ctrlVars, fdVars, kernelVars, taskVars, unseen, loopVars,
                     dtorVars>>
  PROVE  IInv'
<1> USE DEF ctrlVars, fdVars, kernelVars, taskVars, loopVars, dtorVars
<1>1. /\ mutex_' \in {None, th}
      /\ call' \in [Threads -> Calls]
      /\ \A x \in Threads : x # th => call'[x] = call[x]
      /\ call'[th].pc \in {"wait", "add"} <=> mutex_' = th
      /\ \/ call'[th].pc = "idle" /\ call'[th].op = "none"
         \/ /\ call'[th].op = call[th].op
            /\ call'[th].ctrl = call[th].ctrl
            /\ call'[th].fd = call[th].fd /\ call'[th].mode = call[th].mode
            /\ call[th].op = "watch" /\ fd_[call[th].ctrl] = None
  BY LeaveFacts, GoOnFacts, IOAssumption DEF IInv
<1>2. TypeOK'
  BY <1>1 DEF IInv, TypeOK
<1>3. /\ OneInside' /\ CallShape'
      /\ \A x \in Threads : call'[x].pc \in {"wait", "add"} => x = th
  BY <1>1, MoveOneInside, MoveCallShape
<1>4. OnceListed'
  <2> SUFFICES ASSUME NEW f \in Fds, NEW c \in Controllers,
                      Contains(controllers[f], c),
                      call'[th].pc \in {"wait", "add"}
               PROVE  call'[th].ctrl # c
    BY <1>3 DEF OnceListed, IInv, CallInv
  <2> QED BY <1>1, IOAssumption DEF OnceListed, IInv, CallInv
<1>5. ModeAsked'
  BY DEF IInv, CallInv, ModeAsked
<1> QED BY <1>2, <1>3, <1>4, <1>5, TaskFrame DEF IInv, CallInv

LEMMA StopWatchingIInv ==
  ASSUME IInv, NEW th \in Threads, StopWatching(th)
  PROVE  IInv'
<1> DEFINE c == call[th].ctrl
<1>1. call[th].pc = "lock" /\ mutex_ = None /\ UNCHANGED <<loopVars, dtorVars>>
  BY DEF StopWatching
<1>2. CASE fd_[c] = None
  BY <1>1, <1>2, NoWatchIInv DEF StopWatching
<1>3. CASE fd_[c] # None
  <2>1. /\ Unwatch(c)
        /\ Leave(th) \/ GoOn(th, "wait", task_[c])
    BY <1>3 DEF StopWatching
  <2>2. fd_[c] \in Fds
    BY <1>1, <1>3 DEF IInv, CallInv, CallShape, TypeOK
  <2> QED BY <1>1, <2>1, <2>2, UnwatchIInv
<1> QED BY <1>2, <1>3

LEMMA WatchIInv ==
  ASSUME IInv, NEW th \in Threads, WatchFileDescriptor(th)
  PROVE  IInv'
<1> DEFINE c == call[th].ctrl
           f == call[th].fd
<1>1. /\ call[th].pc = "lock" /\ call[th].op = "watch" /\ mutex_ = None
      /\ UNCHANGED <<loopVars, dtorVars>>
  BY DEF WatchFileDescriptor
<1>2. CASE fd_[c] # f
  BY <1>1, <1>2, NoWatchIInv DEF WatchFileDescriptor
<1>3. CASE fd_[c] = f
  <2>1. /\ Unwatch(c)
        /\ GoOn(th, "add", 0) \/ GoOn(th, "wait", task_[c])
    BY <1>3 DEF WatchFileDescriptor
  <2>2. fd_[c] \in Fds
    BY <1>1, <1>3 DEF IInv, CallInv, CallShape, TypeOK
  <2> QED BY <1>1, <2>1, <2>2, UnwatchIInv
<1> QED BY <1>2, <1>3

LEMMA StopResetIInv ==
  ASSUME IInv, NEW th \in Threads, StopReset(th)
  PROVE  IInv'
<1> DEFINE c == call[th].ctrl
<1> USE DEF ctrlVars, fdVars, kernelVars, taskVars, loopVars, dtorVars
<1>0. /\ call[th].pc = "wait" /\ mutex_ = th /\ c \in Controllers
      /\ call[th].op \in {"stop", "watch"}
      /\ fd_' = [fd_ EXCEPT ![c] = None]
      /\ mode_' = [mode_ EXCEPT ![c] = {}]
      /\ UNCHANGED <<task_, fdVars, kernelVars, loopVars, dtorVars, taskVars,
                     unseen>>
  BY DEF StopReset, IInv, CallInv, OneInside, CallShape
<1>1. /\ mutex_' \in {None, th}
      /\ call' \in [Threads -> Calls]
      /\ \A x \in Threads : x # th => call'[x] = call[x]
      /\ call'[th].pc \in {"wait", "add"} <=> mutex_' = th
      /\ \/ call'[th].pc = "idle" /\ call'[th].op = "none"
         \/ /\ call'[th].op = call[th].op
            /\ call'[th].ctrl = call[th].ctrl
            /\ call'[th].fd = call[th].fd /\ call'[th].mode = call[th].mode
            /\ call[th].op = "watch"
  <2>1. CASE Leave(th)
    BY <2>1, LeaveFacts, IOAssumption DEF IInv
  <2>2. CASE GoOn(th, "add", 0) /\ call[th].op # "stop"
    BY <1>0, <2>2, GoOnFacts, IOAssumption DEF IInv
  <2> QED BY <2>1, <2>2 DEF StopReset
<1>2. TypeOK'
  BY <1>0, <1>1 DEF IInv, TypeOK
<1>3. /\ OneInside' /\ CallShape'
      /\ \A x \in Threads : call'[x].pc \in {"wait", "add"} => x = th
  BY <1>0, <1>1, MoveOneInside, MoveCallShape
<1>4. OnceListed'
  <2>1. \A f \in Fds : ~Contains(controllers[f], c)
    BY <1>0 DEF OnceListed, IInv, CallInv
  <2>2. \A d \in Controllers : d # c => fd_'[d] = fd_[d]
    BY <1>0 DEF IInv, TypeOK
  <2>3. controllers' = controllers
    BY <1>0
  <2> QED BY <1>1, <1>3, <2>1, <2>2, <2>3 DEF OnceListed, IInv, CallInv
<1>5. ModeAsked'
  BY <1>0 DEF IInv, CallInv, ModeAsked, TypeOK
<1> QED BY <1>0, <1>2, <1>3, <1>4, <1>5, TaskFrame DEF IInv, CallInv

LEMMA AddIInv ==
  ASSUME IInv, NEW th \in Threads, AddOrUpdateFd(th)
  PROVE  IInv'
<1> DEFINE c == call[th].ctrl
           f == call[th].fd
           m == call[th].mode
<1> USE DEF ctrlVars, fdVars, kernelVars, taskVars, loopVars, dtorVars
<1>0. /\ call[th].pc = "add" /\ mutex_ = th /\ c \in Controllers
      /\ f \in Fds /\ m \in ModesOf[c] /\ m \in SUBSET Modes
      /\ UNCHANGED <<task_, level, loopVars, dtorVars, taskVars>>
  BY DEF AddOrUpdateFd, IInv, CallInv, OneInside, CallShape, TypeOK, Calls
<1>1. /\ mutex_' = None
      /\ call' \in [Threads -> Calls]
      /\ \A x \in Threads : x # th => call'[x] = call[x]
      /\ call'[th].pc = "idle" /\ call'[th].op = "none"
  BY LeaveFacts DEF IInv, AddOrUpdateFd
<1>2. /\ OneInside' /\ CallShape'
      /\ \A x \in Threads : call'[x].pc \notin {"wait", "add"}
  <2>1. mutex_' # th
    BY <1>1, IOAssumption
  <2> QED BY <1>0, <1>1, <2>1, MoveOneInside, MoveCallShape
<1>3. CASE UNCHANGED <<ctrlVars, fdVars, kernelVars, unseen>>
  <2>1. TypeOK'
    BY <1>0, <1>1, <1>3 DEF IInv, TypeOK
  <2>2. OnceListed'
    BY <1>2, <1>3 DEF OnceListed, IInv, CallInv
  <2>3. ModeAsked'
    BY <1>3 DEF IInv, CallInv, ModeAsked
  <2> QED BY <1>0, <1>2, <2>1, <2>2, <2>3, TaskFrame DEF IInv, CallInv
<1>4. CASE /\ interest' = [interest EXCEPT ![f] = Registered(f, m)]
           /\ ready_list' = IF ReadyAtOnce(f, Registered(f, m))
                              THEN ready_list \cup {f} ELSE ready_list
           /\ fd_' = [fd_ EXCEPT ![c] = f]
           /\ mode_' = [mode_ EXCEPT ![c] = m]
           /\ mode' = [mode EXCEPT ![f] = @ \cup m]
           /\ controllers' = [controllers EXCEPT ![f] = Append(@, c)]
           /\ unseen' = [unseen EXCEPT ![c] =
                           UNION {Concerns(k, m) : k \in level[f]}]
  <2> DEFINE r == Append(controllers[f], c)
             u == UNION {Concerns(k, m) : k \in level[f]}
  <2>1. /\ \A g \in Fds : ~Contains(controllers[g], c)
        /\ controllers[f] \in Seq(Controllers) /\ IsInjective(controllers[f])
        /\ controllers \in [Fds -> Seq(Controllers)]
    BY <1>0 DEF OnceListed, IInv, CallInv, TypeOK
  <2>2. /\ r \in Seq(Controllers) /\ IsInjective(r)
        /\ \A d : Contains(r, d) <=> d = c \/ Contains(controllers[f], d)
    BY <1>0, <2>1, AppendFacts
  <2>3. u \in SUBSET Modes /\ Registered(f, m) \in SUBSET Modes
    BY <1>0 DEF Concerns, Registered, IInv, TypeOK
  <2> HIDE DEF r, u
  <2>4. controllers' = [controllers EXCEPT ![f] = r]
    BY <1>4 DEF r
  <2>5. unseen' = [unseen EXCEPT ![c] = u]
    BY <1>4 DEF u
  <2>6. TypeOK'
    BY <1>0, <1>1, <1>4, <2>2, <2>3, <2>4, <2>5 DEF IInv, TypeOK
  <2>7. OnceListed'
    <3>1. /\ controllers'[f] = r /\ fd_'[c] = f
          /\ \A g \in Fds : g # f => controllers'[g] = controllers[g]
          /\ \A d \in Controllers : d # c => fd_'[d] = fd_[d]
      BY <1>0, <1>4, <2>1, <2>4 DEF IInv, TypeOK
    <3> SUFFICES ASSUME NEW g \in Fds, NEW d \in Controllers
                 PROVE  /\ IsInjective(controllers'[g])
                        /\ Contains(controllers'[g], d) => fd_'[d] = g
      BY <1>0, <1>2 DEF OnceListed
    <3>2. CASE g = f
      BY <2>1, <2>2, <3>1, <3>2 DEF OnceListed, IInv, CallInv
    <3>3. CASE g # f
      BY <2>1, <3>1, <3>3 DEF OnceListed, IInv, CallInv
    <3> QED BY <3>2, <3>3
  <2>8. ModeAsked'
    BY <1>0, <1>4 DEF IInv, CallInv, ModeAsked, TypeOK
  <2> QED BY <1>0, <1>2, <2>6, <2>7, <2>8, TaskFrame DEF IInv, CallInv
<1> QED BY <1>3, <1>4 DEF AddOrUpdateFd

\* The poll thread and the destructor, apart from one event and the wakeup.
LEMMA PollIInv ==
  ASSUME IInv, Poll \/ PollTimeout \/ DispatchEnd \/ DtorStop \/ DtorJoin
  PROVE  IInv'
<1>1. /\ UNCHANGED <<ctrlVars, fdVars, interest, level, taskVars, callVars,
                     unseen>>
      /\ ready_list' \subseteq ready_list
      /\ loop' \in {"poll", "dispatch", "exited"}
      /\ stopped_' \in BOOLEAN
      /\ dtor' \in {"none", "stopped", "woken", "done"}
  BY DEF Poll, PollTimeout, DispatchEnd, DtorStop, DtorJoin, kernelVars,
         loopVars, dtorVars, NextTurn, IInv, TypeOK
<1>2. io_events' \in [Fds -> SUBSET Modes]
  <2>1. CASE Poll
    BY <2>1 DEF Poll, Reported, IInv, TypeOK
  <2>2. CASE io_events' = io_events
    BY <2>2 DEF IInv, TypeOK
  <2> QED BY <2>1, <2>2 DEF PollTimeout, DispatchEnd, DtorStop, DtorJoin,
  loopVars
<1>3. TypeOK'
  BY <1>1, <1>2 DEF IInv, TypeOK, ctrlVars, fdVars, taskVars, callVars
<1> QED BY <1>1, <1>3, CallFrame, TaskFrame
       DEF IInv, ctrlVars, fdVars, taskVars, callVars

LEMMA DispatchIInv ==
  ASSUME IInv, NEW f \in Fds, Dispatch(f)
  PROVE  IInv'
<1> USE DEF fdVars, kernelVars, dtorVars, callVars
<1>0. /\ UNCHANGED <<fd_, mode_, fdVars, kernelVars, loop, dtorVars, running,
                     phase, callVars, unseen>>
      /\ io_events' = [io_events EXCEPT ![f] = {}]
  BY DEF Dispatch
<1>1. PICK P \in SUBSET Tasks, new \in Seq(Tasks) : Posts(f, P, new)
  BY DispatchPosts DEF IInv, CallInv
<1>2. /\ queue \in Seq(Tasks) /\ IsInjective(queue)
      /\ \A t : Contains(new, t) <=> t \in P
      /\ \A t \in P : ~Contains(queue, t) /\ \A w \in Workers : running[w] # t
  <2>1. queue \in Seq(Tasks) /\ DOMAIN queue = 1..Len(queue)
    BY LenProperties DEF IInv, TypeOK
  <2> QED BY <1>1, <2>1 DEF Posts, IInv, TaskInv, TasksApart, FreeTasks,
  Contains
<1>3. /\ queue' \in Seq(Tasks) /\ IsInjective(queue')
      /\ \A t : Contains(queue', t) <=> Contains(queue, t) \/ t \in P
  BY <1>1, <1>2, ConcatFacts DEF Posts
<1>4. ASSUME NEW t \in P
      PROVE  /\ bound'[t].ctrl \in Controllers /\ bound'[t].ready \in SUBSET Modes
             /\ bound'[t] = [ctrl |-> bound'[t].ctrl, ready |-> bound'[t].ready]
             /\ bound'[t].ready # {}
             /\ \E m \in ModesOf[bound'[t].ctrl] : bound'[t].ready \subseteq m
  <2>1. PICK c \in Controllers :
          /\ ReadyFor(f, c) # {}
          /\ bound'[t] = [ctrl |-> c, ready |-> ReadyFor(f, c)]
    BY <1>1 DEF Posts
  <2>2. /\ ReadyFor(f, c) \in SUBSET Modes
        /\ ReadyFor(f, c) \subseteq mode_[c] /\ mode_[c] \in ModesOf[c]
    BY <2>1 DEF ReadyFor, IInv, TypeOK, CallInv, ModeAsked
  <2> QED BY <2>1, <2>2
<1>5. /\ bound' \in [Tasks -> [ctrl : Controllers \cup {None}, ready : SUBSET Modes]]
      /\ task_' \in [Controllers -> Tasks \cup {0}]
      /\ task_state' \in [Tasks -> {"pending", "running", "canceled", "completed"}]
  <2>1. \A t \in Tasks : bound'[t] \in [ctrl : Controllers \cup {None}, ready : SUBSET Modes]
    <3> SUFFICES ASSUME NEW t \in Tasks
                 PROVE  bound'[t] \in [ctrl : Controllers \cup {None}, ready : SUBSET Modes]
      OBVIOUS
    <3>1. CASE t \in P
      <4>1. PICK c \in Controllers, r \in SUBSET Modes : bound'[t] = [ctrl |-> c, ready |-> r]
        BY <1>4, <3>1
      <4> QED BY <4>1
    <3>2. CASE t \notin P
      BY <1>1, <3>2 DEF Posts, IInv, TypeOK
    <3> QED BY <3>1, <3>2
  <2>2. bound' = [t \in Tasks |-> bound'[t]] /\ task_' = [c \in Controllers |-> task_'[c]]
    BY <1>1 DEF Posts
  <2>3. \A c \in Controllers : task_'[c] \in Tasks \cup {0}
    BY <1>1 DEF Posts, IInv, TypeOK
  <2>4. task_state' \in [Tasks -> {"pending", "running", "canceled", "completed"}]
    BY <1>1 DEF Posts, IInv, TypeOK
  <2> QED BY <2>1, <2>2, <2>3, <2>4
<1>6. TypeOK'
  BY <1>0, <1>3, <1>5 DEF IInv, TypeOK
<1>7. TasksApart'
  BY <1>0, <1>2, <1>3 DEF IInv, TaskInv, TasksApart
<1>8. Asked'
  <2> SUFFICES ASSUME NEW t \in Tasks, Contains(queue', t)
               PROVE  /\ bound'[t].ctrl \in Controllers
                      /\ bound'[t].ready # {}
                      /\ \E m \in ModesOf[bound'[t].ctrl] : bound'[t].ready \subseteq m
    BY DEF Asked
  <2>1. CASE t \in P
    BY <1>4, <2>1
  <2>2. CASE t \notin P
    BY <1>1, <1>3, <2>2 DEF Posts, Asked, IInv, TaskInv
  <2> QED BY <2>1, <2>2
<1> QED BY <1>0, <1>6, <1>7, <1>8, CallFrame DEF IInv, TaskInv

LEMMA RunTaskIInv ==
  ASSUME IInv, NEW w \in Workers, RunTask(w)
  PROVE  IInv'
<1> DEFINE t == Head(queue)
<1> USE DEF ctrlVars, fdVars, kernelVars, loopVars, dtorVars, callVars
<1>0. /\ phase[w] = "idle" /\ queue # <<>> /\ queue' = Tail(queue)
      /\ UNCHANGED <<ctrlVars, fdVars, kernelVars, loopVars, dtorVars,
                     callVars>>
  BY DEF RunTask
<1>1. /\ t \in Tasks /\ queue' \in Seq(Tasks) /\ IsInjective(queue')
      /\ ~Contains(queue', t)
      /\ \A s : Contains(queue, s) <=> s = t \/ Contains(queue', s)
  BY <1>0, TailFacts DEF IInv, TypeOK, TaskInv, TasksApart
<1>2. t # 0
  BY <1>1, IOAssumption DEF Tasks
<1>3. CASE /\ UNCHANGED bound
           /\ task_state' = [task_state EXCEPT ![t] = "running"]
           /\ running' = [running EXCEPT ![w] = t]
           /\ CallBack(w, bound[t].ctrl, IF "write" \in bound[t].ready
                                           THEN "writable" ELSE "readable")
  <2>1. TypeOK'
    BY <1>0, <1>1, <1>3 DEF IInv, TypeOK, CallBack
  <2>2. TasksApart'
    <3>1. /\ running'[w] = t /\ phase'[w] # "idle"
          /\ \A v \in Workers : v # w => running'[v] = running[v] /\ phase'[v] = phase[v]
      BY <1>3 DEF IInv, TypeOK, CallBack
    <3>2. \A v \in Workers : running[v] # t /\ ~Contains(queue', running[v])
      BY <1>1 DEF IInv, TaskInv, TasksApart
    <3> QED BY <1>1, <1>2, <3>1, <3>2 DEF IInv, TaskInv, TasksApart
  <2>3. Asked'
    BY <1>1, <1>3 DEF Asked, IInv, TaskInv
  <2> QED BY <1>0, <2>1, <2>2, <2>3, CallFrame DEF IInv, TaskInv
<1>4. CASE /\ bound' = [bound EXCEPT ![t] = Unbound]
           /\ UNCHANGED <<task_state, running, phase, unseen>>
  <2>1. TypeOK'
    BY <1>0, <1>1, <1>4 DEF IInv, TypeOK, Unbound
  <2>2. TasksApart'
    BY <1>1, <1>4 DEF IInv, TaskInv, TasksApart
  <2>3. \A s \in Tasks : s # t => bound'[s] = bound[s]
    BY <1>4 DEF IInv, TypeOK
  <2>4. Asked'
    BY <1>1, <2>3 DEF Asked, IInv, TaskInv
  <2> QED BY <1>0, <2>1, <2>2, <2>4, CallFrame DEF IInv, TaskInv
<1> QED BY <1>3, <1>4 DEF RunTask

LEMMA WritableReturnsIInv ==
  ASSUME IInv, NEW w \in Workers, WritableReturns(w)
  PROVE  IInv'
<1> USE DEF ctrlVars, fdVars, kernelVars, loopVars, dtorVars, callVars
<1>0. /\ phase[w] = "writable" /\ phase' = [phase EXCEPT ![w] = "readable"]
      /\ UNCHANGED <<ctrlVars, fdVars, kernelVars, loopVars, dtorVars, queue,
                     task_state, bound, running, callVars>>
  BY DEF WritableReturns, CallBack
<1>1. unseen' \in [Controllers -> SUBSET Modes]
  BY DEF WritableReturns, CallBack, IInv, TypeOK
<1>2. TypeOK'
  BY <1>0, <1>1 DEF IInv, TypeOK
<1>3. TasksApart' /\ Asked'
  BY <1>0 DEF TasksApart, Asked, IInv, TaskInv, TypeOK
<1> QED BY <1>0, <1>2, <1>3, CallFrame DEF IInv, TaskInv

LEMMA HandleIOReturnsIInv ==
  ASSUME IInv, NEW w \in Workers, HandleIOReturns(w)
  PROVE  IInv'
<1> DEFINE t == running[w]
<1> USE DEF fdVars, loopVars, dtorVars, callVars
<1>0. /\ phase[w] # "idle"
      /\ task_state' = [task_state EXCEPT ![t] = "completed"]
      /\ bound' = [bound EXCEPT ![t] = Unbound]
      /\ task_' = [c \in Controllers |-> IF task_[c] = t THEN 0 ELSE task_[c]]
      /\ running' = [running EXCEPT ![w] = 0]
      /\ phase' = [phase EXCEPT ![w] = "idle"]
      /\ UNCHANGED <<fd_, mode_, fdVars, interest, ready_list, loopVars,
                     dtorVars, queue, callVars>>
  BY DEF HandleIOReturns
<1>1. t \in Tasks /\ t # 0 /\ ~Contains(queue, t)
  BY <1>0 DEF IInv, TypeOK, TaskInv, TasksApart
<1>2. /\ level' \in [Fds -> SUBSET Conditions]
      /\ unseen' \in [Controllers -> SUBSET Modes]
  <2>1. CASE UNCHANGED <<level, unseen>>
    BY <2>1 DEF IInv, TypeOK
  <2>2. ASSUME NEW k, UsesUp(w, k)
        PROVE  /\ level' \in [Fds -> SUBSET Conditions]
               /\ unseen' \in [Controllers -> SUBSET Modes]
    BY <2>2 DEF UsesUp, IInv, TypeOK
  <2> QED BY <2>1, <2>2 DEF HandleIOReturns
<1>3. TypeOK'
  BY <1>0, <1>1, <1>2 DEF IInv, TypeOK, Unbound
<1>4. TasksApart'
  <2>1. /\ running'[w] = 0 /\ phase'[w] = "idle"
        /\ \A v \in Workers : v # w => running'[v] = running[v] /\ phase'[v] = phase[v]
    BY <1>0 DEF IInv, TypeOK
  <2>2. ~Contains(queue, 0)
    <3>1. queue \in Seq(Tasks) /\ 0 \notin Tasks
      BY DEF IInv, TypeOK, Tasks
    <3> QED BY <3>1, ElementOfSeq DEF Contains
  <2> QED BY <1>0, <2>1, <2>2 DEF IInv, TaskInv, TasksApart
<1>5. \A s \in Tasks : s # t => bound'[s] = bound[s]
  BY <1>0 DEF IInv, TypeOK
<1>6. Asked'
  BY <1>0, <1>1, <1>5 DEF Asked, IInv, TaskInv
<1> QED BY <1>0, <1>3, <1>4, <1>6, CallFrame DEF IInv, TaskInv

\* IInv holds after every step.
LEMMA StepIInv == IInv /\ [Next]_vars => IInv'
<1> SUFFICES ASSUME IInv, [Next]_vars PROVE IInv'
  OBVIOUS
<1>1. CASE UNCHANGED vars
  <2>1. /\ UNCHANGED <<fd_, mode_, controllers, mutex_, call>>
        /\ UNCHANGED <<queue, bound, running, phase>>
    BY <1>1 DEF vars, ctrlVars, fdVars, callVars, taskVars
  <2>2. TypeOK'
    BY <1>1 DEF IInv, TypeOK, vars, ctrlVars, fdVars, kernelVars, loopVars,
                dtorVars, taskVars, callVars
  <2> QED BY <2>1, <2>2, CallFrame, TaskFrame DEF IInv
<1>2. ASSUME NEW e \in Edges, Edge(e[1], e[2]) PROVE IInv'
  <2>1. e[1] \in Fds /\ e[2] \in Conditions
    BY IOAssumption
  <2>2. stopped_' \in BOOLEAN /\ dtor' \in {"none", "stopped", "woken", "done"}
    BY <1>2 DEF Edge, dtorVars, IInv, TypeOK
  <2> QED BY <1>2, <2>1, <2>2, MakeReadyIInv DEF Edge
<1>3. CASE DtorWakeup
  <2>1. WakeupFd \in Fds /\ "read" \in Conditions
    BY IOAssumption DEF Conditions, Modes
  <2>2. stopped_' \in BOOLEAN /\ dtor' = "woken"
    BY <1>3 DEF DtorWakeup, IInv, TypeOK
  <2> QED BY <1>3, <2>1, <2>2, MakeReadyIInv DEF DtorWakeup
<1>4. ASSUME NEW th \in Threads, CallStep(th) PROVE IInv'
  BY <1>4, StopWatchingIInv, WatchIInv, StopResetIInv, AddIInv DEF CallStep
<1>5. ASSUME NEW w \in Workers, Work(w) PROVE IInv'
  BY <1>5, RunTaskIInv, WritableReturnsIInv, HandleIOReturnsIInv DEF Work
<1>6. CASE Poll \/ PollTimeout \/ DispatchEnd \/ DtorStop \/ DtorJoin
  BY <1>6, PollIInv
<1> QED BY <1>1, <1>2, <1>3, <1>4, <1>5, <1>6, EnterIInv, DispatchIInv
       DEF Next, Destructor

(***************************************************************************)
(* The variables of IOManager keep their types, in every reachable state.  *)
(***************************************************************************)
THEOREM TypeCorrect == Spec => []TypeOK
<1>1. IInv => TypeOK
  BY DEF IInv
<1> QED BY InitIInv, StepIInv, <1>1, PTL DEF Spec

(***************************************************************************)
(* A watcher is called for what its controller asked for, though epoll     *)
(* reports the descriptor and the list may have changed since, and however *)
(* many controllers share it (IOManager::Run and HandleIO).                *)
(***************************************************************************)
THEOREM WatchersCalledAsAsked == Spec => []CalledAsAsked
<1>1. IInv => CalledAsAsked
  <2> SUFFICES ASSUME IInv, NEW k \in DOMAIN queue
               PROVE  /\ bound[queue[k]].ready # {}
                      /\ \E m \in ModesOf[bound[queue[k]].ctrl] :
                           bound[queue[k]].ready \subseteq m
    BY DEF CalledAsAsked
  <2>1. queue[k] \in Tasks /\ Contains(queue, queue[k])
    BY LenProperties, ElementOfSeq DEF IInv, TypeOK, Contains
  <2> QED BY <2>1 DEF IInv, TaskInv, Asked
<1> QED BY InitIInv, StepIInv, <1>1, PTL DEF Spec

-----------------------------------------------------------------------------
(* The registrations *)

(***************************************************************************)
(* What is asked of the users: no controller is added to a descriptor with *)
(* a mode that another controller watches there.  TCPClientImpl keeps to   *)
(* it: it reads with one controller and writes with another, and stops the *)
(* one that it connects with before it is kConnected and may write.        *)
(***************************************************************************)
NoSharedMode ==
  \A th \in Threads :
    call[th].pc = "add" => call[th].mode \cap mode[call[th].fd] = {}

\* A call is between the removal of controller c and its reset.
Stopping(c) == \E th \in Threads : call[th].pc = "wait" /\ call[th].ctrl = c

\* Only the controller being stopped is off the list before it is reset.
AllListed ==
  \A f \in Fds, c \in Controllers :
    fd_[c] = f /\ ~Stopping(c) => Contains(controllers[f], c)

\* The controllers on the list of a descriptor share its mode out.
SharedOut ==
  \A f \in Fds, c \in Controllers : Contains(controllers[f], c) =>
    /\ mode_[c] # {} /\ mode_[c] \subseteq mode[f]
    /\ \A d \in Controllers :
         Contains(controllers[f], d) /\ d # c => mode_[c] \cap mode_[d] = {}

\* FDAndControllers::mode is theirs together, and so is the registration.
ModeIsTheirs ==
  \A f \in Fds :
    /\ interest[f] = mode[f]
    /\ \A m \in mode[f] : \E c \in Controllers :
         Contains(controllers[f], c) /\ m \in mode_[c]

RInv == AllListed /\ SharedOut /\ ModeIsTheirs

LEMMA RFrame ==
  ASSUME RInv, UNCHANGED <<fd_, mode_, controllers, mode, interest>>,
         \A c \in Controllers : Stopping(c)' <=> Stopping(c)
  PROVE  RInv'
BY DEF RInv, AllListed, SharedOut, ModeIsTheirs

LEMMA InitRInv == Init => RInv
<1> SUFFICES ASSUME Init PROVE RInv
  OBVIOUS
<1>1. /\ <<WakeupController>>[1] = WakeupController /\ Len(<<WakeupController>>) = 1
      /\ Len(<<>>) = 0
  OBVIOUS
<1>2. \A f \in Fds, c \in Controllers :
        Contains(controllers[f], c) <=> ~NDebug /\ f = WakeupFd /\ c = WakeupController
  BY <1>1 DEF Init, Contains
<1>3. AllListed
  BY <1>2, IOAssumption DEF AllListed, Init
<1>4. SharedOut /\ ModeIsTheirs
  BY <1>2, IOAssumption DEF SharedOut, ModeIsTheirs, Init
<1> QED BY <1>3, <1>4 DEF RInv

\* With mutex_ free no controller is between removal and reset.
LEMMA NoneStopping ==
  ASSUME IInv, mutex_ = None
  PROVE  \A c \in Controllers : ~Stopping(c)
BY IOAssumption DEF IInv, CallInv, OneInside, Stopping

LEMMA EnterRInv ==
  ASSUME IInv, RInv, NEW th \in Threads, NEW c \in Controllers,
         \/ EnterStop(th, c)
         \/ \E f \in Fds, m \in SUBSET Modes : EnterWatch(th, c, f, m)
  PROVE  RInv'
<1>1. /\ call[th].pc = "idle" /\ call'[th].pc = "lock"
      /\ \A x \in Threads : x # th => call'[x] = call[x]
      /\ UNCHANGED <<fd_, mode_, controllers, mode, interest>>
  BY DEF EnterStop, EnterWatch, MayCall, NoCall, ctrlVars, fdVars, kernelVars,
         IInv, TypeOK
<1>2. \A x \in Threads : call'[x].pc = "wait" <=> call[x].pc = "wait"
  BY <1>1
<1>3. \A d \in Controllers : Stopping(d)' <=> Stopping(d)
  BY <1>1, <1>2 DEF Stopping
<1> QED BY <1>1, <1>3, RFrame

\* The controller is off the list: the registration goes back to the others.
LEMMA UnwatchRInv ==
  ASSUME IInv, RInv, NEW th \in Threads, mutex_ = None, call[th].pc = "lock",
         fd_[call[th].ctrl] \in Fds, Unwatch(call[th].ctrl)
  PROVE  /\ interest[fd_[call[th].ctrl]] # {}
         /\ GoOn(th, "wait", task_[call[th].ctrl]) => RInv'
<1> DEFINE c == call[th].ctrl
           f == fd_[c]
<1>0. c \in Controllers
  BY DEF IInv, CallInv, CallShape
<1>1. Contains(controllers[f], c)
  BY <1>0, NoneStopping DEF RInv, AllListed
<1>2. interest[f] # {}
  BY <1>0, <1>1 DEF RInv, SharedOut, ModeIsTheirs
<1>3. ASSUME GoOn(th, "wait", task_[c])
      PROVE  RInv'
  <2>1. task_[c] \in Tasks \cup {0}
    BY <1>0 DEF IInv, TypeOK
  <2>2. call'[th].pc = "wait" /\ call'[th].ctrl = c
    BY <1>3, <2>1, GoOnFacts DEF IInv
  <2>3. \A g \in Fds, d \in Controllers :
          Contains(controllers'[g], d) <=> Contains(controllers[g], d) /\ d # c
    BY <1>0, UnwatchFacts
  <2>4. /\ UNCHANGED <<fd_, mode_>>
        /\ mode' = [mode EXCEPT ![f] = mode[f] \ mode_[c]]
        /\ interest' = [interest EXCEPT ![f] = mode[f] \ mode_[c]]
    BY <1>2 DEF Unwatch, ModeLeft
  <2>5. AllListed'
    <3> SUFFICES ASSUME NEW g \in Fds, NEW d \in Controllers, fd_[d] = g,
                        ~Stopping(d)'
                 PROVE  Contains(controllers'[g], d)
      BY <2>4 DEF AllListed
    <3>1. d # c
      BY <2>2 DEF Stopping
    <3> QED BY <2>3, <3>1, NoneStopping DEF RInv, AllListed
  <2>6. SharedOut'
    <3> SUFFICES ASSUME NEW g \in Fds, NEW d \in Controllers,
                        Contains(controllers'[g], d)
                 PROVE  /\ mode_[d] # {} /\ mode_[d] \subseteq mode'[g]
                        /\ \A e \in Controllers :
                             Contains(controllers'[g], e) /\ e # d =>
                               mode_[d] \cap mode_[e] = {}
      BY <2>4, Zenon DEF SharedOut
    <3>1. /\ mode_[d] # {} /\ mode_[d] \subseteq mode[g]
          /\ \A e \in Controllers :
               Contains(controllers'[g], e) /\ e # d => mode_[d] \cap mode_[e] = {}
      BY <2>3 DEF RInv, SharedOut
    <3>2. CASE g = f
      <4>1. mode_[d] \cap mode_[c] = {}
        BY <1>0, <1>1, <2>3, <3>2 DEF RInv, SharedOut
      <4>2. mode'[g] = mode[g] \ mode_[c]
        BY <2>4, <3>2 DEF IInv, TypeOK
      <4> QED BY <3>1, <4>1, <4>2
    <3>3. CASE g # f
      <4>1. mode'[g] = mode[g]
        BY <2>4, <3>3 DEF IInv, TypeOK
      <4> QED BY <3>1, <4>1
    <3> QED BY <3>2, <3>3
  <2>7. ModeIsTheirs'
    <3> SUFFICES ASSUME NEW g \in Fds
                 PROVE  /\ interest'[g] = mode'[g]
                        /\ \A m \in mode'[g] : \E d \in Controllers :
                             Contains(controllers'[g], d) /\ m \in mode_[d]
      BY <2>4, Zenon DEF ModeIsTheirs
    <3>1. /\ interest[g] = mode[g]
          /\ \A m \in mode[g] : \E d \in Controllers :
               Contains(controllers[g], d) /\ m \in mode_[d]
      BY DEF RInv, ModeIsTheirs
    <3>2. CASE g = f
      <4>1. mode'[g] = mode[g] \ mode_[c] /\ interest'[g] = mode[g] \ mode_[c]
        BY <2>4, <3>2 DEF IInv, TypeOK
      <4> QED BY <2>3, <3>1, <4>1
    <3>3. CASE g # f
      <4>1. mode'[g] = mode[g] /\ interest'[g] = interest[g]
        BY <2>4, <3>3 DEF IInv, TypeOK
      <4>2. ~Contains(controllers[g], c)
        BY <1>0, <3>3 DEF IInv, CallInv, OnceListed
      <4> QED BY <2>3, <3>1, <4>1, <4>2
    <3> QED BY <3>2, <3>3
  <2> QED BY <2>5, <2>6, <2>7 DEF RInv
<1> QED BY <1>2, <1>3

\* A call that has nothing to stop: nobody is at "wait" before or after.
LEMMA NoWatchRInv ==
  ASSUME IInv, RInv, NEW th \in Threads, mutex_ = None,
         Leave(th) \/ GoOn(th, "add", 0),
         UNCHANGED <<ctrlVars, fdVars, kernelVars>>
  PROVE  RInv'
<1>1. /\ \A x \in Threads : x # th => call'[x] = call[x]
      /\ call'[th].pc # "wait"
  BY LeaveFacts, GoOnFacts DEF IInv
<1>2. \A c \in Controllers : ~Stopping(c)'
  BY <1>1, NoneStopping DEF Stopping
<1> QED BY <1>2, NoneStopping, RFrame DEF ctrlVars, fdVars, kernelVars

LEMMA StopResetRInv ==
  ASSUME IInv, RInv, NEW th \in Threads, StopReset(th)
  PROVE  RInv'
<1> DEFINE c == call[th].ctrl
<1>1. /\ call[th].pc = "wait" /\ mutex_ = th /\ c \in Controllers
      /\ fd_' = [fd_ EXCEPT ![c] = None]
      /\ mode_' = [mode_ EXCEPT ![c] = {}]
      /\ UNCHANGED <<controllers, mode, interest>>
  BY DEF StopReset, IInv, CallInv, OneInside, CallShape, fdVars, kernelVars
<1>2. \A f \in Fds : ~Contains(controllers[f], c)
  BY <1>1 DEF OnceListed, IInv, CallInv
<1>3. /\ fd_'[c] = None
      /\ \A d \in Controllers : d # c => fd_'[d] = fd_[d] /\ mode_'[d] = mode_[d]
  BY <1>1 DEF IInv, TypeOK
<1>4. \A d \in Controllers : d # c => ~Stopping(d)
  BY <1>1 DEF Stopping, IInv, CallInv, OneInside
<1>5. AllListed'
  BY <1>1, <1>3, <1>4, IOAssumption DEF RInv, AllListed
<1>6. SharedOut' /\ ModeIsTheirs'
  BY <1>1, <1>2, <1>3 DEF RInv, SharedOut, ModeIsTheirs
<1> QED BY <1>5, <1>6 DEF RInv

LEMMA AddRInv ==
  ASSUME IInv, RInv, NoSharedMode, NEW th \in Threads, AddOrUpdateFd(th)
  PROVE  RInv'
<1> DEFINE c == call[th].ctrl
           f == call[th].fd
           m == call[th].mode
<1>0. /\ call[th].pc = "add" /\ mutex_ = th /\ c \in Controllers
      /\ f \in Fds /\ m \in SUBSET Modes /\ m # {} /\ m \cap mode[f] = {}
  <2>1. /\ call[th].pc = "add" /\ mutex_ = th /\ c \in Controllers
        /\ f \in Fds /\ m \in ModesOf[c] /\ m \cap mode[f] = {}
    BY DEF AddOrUpdateFd, IInv, CallInv, OneInside, CallShape, NoSharedMode
  <2>2. ModesOf[c] \subseteq (SUBSET Modes) \ {{}}
    BY <2>1, IOAssumption
  <2> QED BY <2>1, <2>2
<1>1. \A d \in Controllers : ~Stopping(d)
  BY <1>0 DEF Stopping, IInv, CallInv, OneInside
<1>2. /\ \A x \in Threads : x # th => call'[x] = call[x]
      /\ call'[th].pc = "idle"
  BY LeaveFacts DEF IInv, AddOrUpdateFd
<1>3. CASE UNCHANGED <<ctrlVars, fdVars, kernelVars, unseen>>
  <2>1. \A d \in Controllers : ~Stopping(d)'
    BY <1>1, <1>2 DEF Stopping
  <2> QED BY <1>1, <1>3, <2>1, RFrame DEF ctrlVars, fdVars, kernelVars
<1>4. CASE /\ interest' = [interest EXCEPT ![f] = Registered(f, m)]
           /\ fd_' = [fd_ EXCEPT ![c] = f]
           /\ mode_' = [mode_ EXCEPT ![c] = m]
           /\ mode' = [mode EXCEPT ![f] = @ \cup m]
           /\ controllers' = [controllers EXCEPT ![f] = Append(@, c)]
  <2>1. /\ \A g \in Fds : ~Contains(controllers[g], c)
        /\ controllers[f] \in Seq(Controllers) /\ IsInjective(controllers[f])
    BY <1>0 DEF OnceListed, IInv, CallInv, TypeOK
  <2>2. \A d : Contains(Append(controllers[f], c), d)
                 <=> d = c \/ Contains(controllers[f], d)
    BY <1>0, <2>1, AppendFacts
  <2>3. /\ \A d \in Controllers :
             Contains(controllers'[f], d) <=> d = c \/ Contains(controllers[f], d)
        /\ \A g \in Fds : g # f => controllers'[g] = controllers[g]
    BY <1>0, <1>4, <2>2 DEF IInv, TypeOK
  <2>4. /\ fd_'[c] = f /\ mode_'[c] = m
        /\ \A d \in Controllers : d # c => fd_'[d] = fd_[d] /\ mode_'[d] = mode_[d]
        /\ mode'[f] = mode[f] \cup m /\ interest'[f] = mode[f] \cup m
        /\ \A g \in Fds : g # f => mode'[g] = mode[g] /\ interest'[g] = interest[g]
    BY <1>0, <1>4 DEF IInv, TypeOK, Registered
  <2>5. AllListed'
    BY <1>0, <1>1, <2>3, <2>4 DEF RInv, AllListed
  <2>6. SharedOut'
    <3> SUFFICES ASSUME NEW g \in Fds, NEW d \in Controllers,
                        Contains(controllers'[g], d)
                 PROVE  /\ mode_'[d] # {} /\ mode_'[d] \subseteq mode'[g]
                        /\ \A e \in Controllers :
                             Contains(controllers'[g], e) /\ e # d =>
                               mode_'[d] \cap mode_'[e] = {}
      BY Zenon DEF SharedOut
    <3>1. CASE g # f
      BY <2>1, <2>3, <2>4, <3>1 DEF RInv, SharedOut
    <3>2. CASE g = f
      <4>1. \A e \in Controllers : Contains(controllers[f], e) =>
              /\ mode_'[e] = mode_[e] /\ mode_[e] # {} /\ mode_[e] \subseteq mode[f]
              /\ mode_[e] \cap m = {}
        BY <1>0, <2>1, <2>4 DEF RInv, SharedOut
      <4>2. \A e, e2 \in Controllers :
              Contains(controllers[f], e) /\ Contains(controllers[f], e2) /\ e # e2 =>
                mode_[e] \cap mode_[e2] = {}
        BY <1>0 DEF RInv, SharedOut
      <4> QED BY <1>0, <2>3, <2>4, <3>2, <4>1, <4>2
    <3> QED BY <3>1, <3>2
  <2>7. ModeIsTheirs'
    <3> SUFFICES ASSUME NEW g \in Fds
                 PROVE  /\ interest'[g] = mode'[g]
                        /\ \A k \in mode'[g] : \E d \in Controllers :
                             Contains(controllers'[g], d) /\ k \in mode_'[d]
      BY Zenon DEF ModeIsTheirs
    <3>1. /\ interest[g] = mode[g]
          /\ \A k \in mode[g] : \E d \in Controllers :
               /\ Contains(controllers[g], d) /\ k \in mode_[d]
               /\ mode_'[d] = mode_[d]
      BY <2>1, <2>4 DEF RInv, ModeIsTheirs
    <3> QED BY <1>0, <2>3, <2>4, <3>1
  <2> QED BY <2>5, <2>6, <2>7 DEF RInv
<1> QED BY <1>3, <1>4 DEF AddOrUpdateFd

\* RInv holds after every step of a system whose users share no mode.
LEMMA StepRInv == IInv /\ NoSharedMode /\ RInv /\ [Next]_vars => RInv'
<1> SUFFICES ASSUME IInv, NoSharedMode, RInv, [Next]_vars PROVE RInv'
  OBVIOUS
<1>1. CASE UNCHANGED <<fd_, mode_, controllers, mode, interest, call>>
  BY <1>1, RFrame DEF Stopping
<1>2. ASSUME NEW th \in Threads, StopWatching(th) PROVE RInv'
  <2> DEFINE c == call[th].ctrl
  <2>1. CASE fd_[c] = None
    BY <1>2, <2>1, NoWatchRInv DEF StopWatching
  <2>2. CASE fd_[c] # None
    <3>1. /\ Unwatch(c) /\ mutex_ = None /\ call[th].pc = "lock"
          /\ interest[fd_[c]] # {} => GoOn(th, "wait", task_[c])
      BY <1>2, <2>2 DEF StopWatching
    <3>2. fd_[c] \in Fds
      BY <2>2, <3>1 DEF IInv, CallInv, CallShape, TypeOK
    <3> QED BY <3>1, <3>2, UnwatchRInv
  <2> QED BY <2>1, <2>2
<1>3. ASSUME NEW th \in Threads, WatchFileDescriptor(th) PROVE RInv'
  <2> DEFINE c == call[th].ctrl
  <2>1. CASE fd_[c] # call[th].fd
    BY <1>3, <2>1, NoWatchRInv DEF WatchFileDescriptor
  <2>2. CASE fd_[c] = call[th].fd
    <3>1. /\ Unwatch(c) /\ mutex_ = None /\ call[th].pc = "lock"
          /\ interest[fd_[c]] # {} => GoOn(th, "wait", task_[c])
      BY <1>3, <2>2 DEF WatchFileDescriptor
    <3>2. fd_[c] \in Fds
      BY <1>3, <2>2 DEF IInv, CallInv, CallShape, WatchFileDescriptor
    <3> QED BY <3>1, <3>2, UnwatchRInv
  <2> QED BY <2>1, <2>2
<1>4. ASSUME NEW th \in Threads, CallStep(th) PROVE RInv'
  BY <1>2, <1>3, <1>4, StopResetRInv, AddRInv DEF CallStep
<1>5. ASSUME NEW w \in Workers, Work(w) PROVE RInv'
  BY <1>1, <1>5 DEF Work, RunTask, WritableReturns, HandleIOReturns, ctrlVars,
                    fdVars, kernelVars, callVars
<1>6. CASE Poll \/ PollTimeout \/ DispatchEnd \/ Destructor
  BY <1>1, <1>6 DEF Poll, PollTimeout, DispatchEnd, Destructor, DtorStop,
     DtorWakeup,
                    DtorJoin, MakeReady, ctrlVars, fdVars, kernelVars, callVars
<1>7. ASSUME NEW f \in Fds, Dispatch(f) PROVE RInv'
  BY <1>1, <1>7 DEF Dispatch, fdVars, kernelVars, callVars
<1>8. ASSUME NEW e \in Edges, Edge(e[1], e[2]) PROVE RInv'
  BY <1>1, <1>8 DEF Edge, MakeReady, ctrlVars, fdVars, callVars
<1>9. CASE UNCHANGED vars
  BY <1>1, <1>9 DEF vars, ctrlVars, fdVars, kernelVars, callVars
<1> QED BY <1>4, <1>5, <1>6, <1>7, <1>8, <1>9, EnterRInv DEF Next

(***************************************************************************)
(* If no two controllers of a descriptor share a mode, then what epoll     *)
(* watches, FDAndControllers and the controllers agree whenever mutex_ is  *)
(* free: the bookkeeping of WatchFileDescriptor and                        *)
(* StopWatchingFileDescriptorNoLock never lets one watch take another's    *)
(* events away.                                                            *)
(***************************************************************************)
THEOREM RegistrationsAgree == Spec /\ []NoSharedMode => []RegistrationAgrees
<1>1. IInv /\ RInv => RegistrationAgrees
  <2> SUFFICES ASSUME IInv, RInv, mutex_ = None, NEW f \in Fds
               PROVE  /\ ToSet(controllers[f]) = {c \in Controllers : fd_[c] = f}
                      /\ mode[f] = UNION {mode_[c] : c \in ToSet(controllers[f])}
                      /\ interest[f] = mode[f]
    BY DEF RegistrationAgrees
  <2>1. /\ controllers[f] \in Seq(Controllers)
        /\ DOMAIN controllers[f] = 1..Len(controllers[f])
    BY LenProperties DEF IInv, TypeOK
  <2>2. \A c : c \in ToSet(controllers[f]) <=> c \in Controllers /\ Contains(controllers[f], c)
    BY <2>1, ElementOfSeq DEF ToSet, Contains
  <2>3. \A c \in Controllers : Contains(controllers[f], c) <=> fd_[c] = f
    BY NoneStopping DEF RInv, AllListed, IInv, CallInv, OnceListed
  <2>4. /\ \A m \in mode[f] : \E c \in Controllers :
             Contains(controllers[f], c) /\ m \in mode_[c]
        /\ \A c \in Controllers : Contains(controllers[f], c) => mode_[c] \subseteq mode[f]
        /\ interest[f] = mode[f]
    BY DEF RInv, SharedOut, ModeIsTheirs
  <2> QED BY <2>2, <2>3, <2>4
<1> QED BY InitIInv, StepIInv, InitRInv, StepRInv, <1>1, PTL DEF Spec

-----------------------------------------------------------------------------
(* No edge is lost *)

\* An edge is kept for a controller that watches, in a mode it watches.
UnseenIsWatched ==
  \A c \in Controllers :
    /\ unseen[c] \subseteq mode_[c]
    /\ unseen[c] # {} => fd_[c] \in Fds /\ Contains(controllers[fd_[c]], c)

\* Every event is handled before the next epoll_wait.
EventsHandled == loop # "dispatch" => \A f \in Fds : io_events[f] = {}

\* The handle of a controller is that of a task of its own.
HandleIsOwn ==
  \A c \in Controllers :
    Contains(queue, task_[c]) => bound[task_[c]].ctrl = c

(***************************************************************************)
(* Where the edge of controller c in mode m may be: epoll will report it,  *)
(* it is reported, a task is posted for it, or the task has begun with the *)
(* other callback.                                                         *)
(***************************************************************************)
InKernel(c, m) == fd_[c] \in ready_list /\ m \in Reported(fd_[c])
AtHand(c, m)   == m \in io_events[fd_[c]]
Posted(c, m)   == \E t \in Tasks : /\ Contains(queue, t)
                                   /\ bound[t].ctrl = c /\ m \in bound[t].ready
                                   /\ task_state[t] = "pending"
Begun(c, m)    == \E w \in Workers : /\ phase[w] = "writable" /\ m = "read"
                                     /\ bound[running[w]].ctrl = c
                                     /\ m \in bound[running[w]].ready

Served(c, m) == InKernel(c, m) \/ AtHand(c, m) \/ Posted(c, m) \/ Begun(c, m)

AllServed == \A c \in Controllers : \A m \in unseen[c] : Served(c, m)

EInv == UnseenIsWatched /\ EventsHandled /\ HandleIsOwn /\ AllServed

\* What is known of a controller with an edge that its watcher has not seen.
LEMMA UnseenFacts ==
  ASSUME IInv, RInv, EInv, NEW c \in Controllers, NEW m \in unseen[c]
  PROVE  /\ m \in Modes /\ m \in mode_[c]
         /\ fd_[c] \in Fds /\ Contains(controllers[fd_[c]], c)
         /\ m \in mode[fd_[c]] /\ m \in interest[fd_[c]]
<1>1. /\ m \in mode_[c] /\ fd_[c] \in Fds /\ Contains(controllers[fd_[c]], c)
      /\ m \in Modes
  BY DEF EInv, UnseenIsWatched, IInv, TypeOK
<1> QED BY <1>1 DEF RInv, SharedOut, ModeIsTheirs

LEMMA InitEInv == Init => EInv
BY DEF Init, EInv, UnseenIsWatched, EventsHandled, HandleIsOwn, AllServed,
   Contains

\* Nothing of the tasks changes.
LEMMA TasksStay ==
  ASSUME UNCHANGED <<queue, bound, running, phase, task_state>>
  PROVE  \A c, m : (Posted(c, m)' <=> Posted(c, m)) /\ (Begun(c, m)' <=> Begun(c, m))
BY DEF Posted, Begun

\* A new edge is on the ready list for every controller that it concerns.
LEMMA MakeReadyEInv ==
  ASSUME IInv, RInv, EInv, NEW f \in Fds, NEW k \in Conditions, MakeReady(f, k),
         UNCHANGED <<ctrlVars, fdVars, loopVars, taskVars, callVars>>
  PROVE  EInv'
<1> USE DEF ctrlVars, fdVars, loopVars, taskVars
<1>0. /\ level' = [level EXCEPT ![f] = @ \cup {k}]
      /\ ready_list' = IF Concerns(k, interest[f]) # {} THEN ready_list \cup {f}
                                                        ELSE ready_list
      /\ interest' = interest
      /\ \A c \in Controllers :
           unseen'[c] = IF c \in ToSet(controllers[f])
                          THEN unseen[c] \cup Concerns(k, mode_[c]) ELSE unseen[c]
  BY DEF MakeReady
<1>1. \A c \in Controllers : c \in ToSet(controllers[f]) <=> Contains(controllers[f], c)
  <2>1. DOMAIN controllers[f] = 1..Len(controllers[f])
    BY LenProperties DEF IInv, TypeOK
  <2> QED BY <2>1 DEF ToSet, Contains
<1>2. /\ level'[f] = level[f] \cup {k}
      /\ \A g \in Fds : level[g] \subseteq level'[g]
  BY <1>0 DEF IInv, TypeOK
<1>3. UnseenIsWatched'
  <2> SUFFICES ASSUME NEW c \in Controllers
               PROVE  /\ unseen'[c] \subseteq mode_[c]
                      /\ unseen'[c] # {} =>
                           fd_[c] \in Fds /\ Contains(controllers[fd_[c]], c)
    BY DEF UnseenIsWatched
  <2>1. Contains(controllers[f], c) => fd_[c] = f
    BY DEF IInv, CallInv, OnceListed
  <2>2. Concerns(k, mode_[c]) \subseteq mode_[c]
    BY DEF Concerns
  <2>3. /\ unseen[c] \subseteq mode_[c]
        /\ unseen[c] # {} => fd_[c] \in Fds /\ Contains(controllers[fd_[c]], c)
    BY DEF EInv, UnseenIsWatched
  <2> QED BY <1>0, <1>1, <2>1, <2>2, <2>3
<1>4. EventsHandled' /\ HandleIsOwn'
  BY DEF EInv, EventsHandled, HandleIsOwn
<1>5. ASSUME NEW c \in Controllers, NEW m \in unseen'[c]
      PROVE  Served(c, m)'
  <2>1. CASE m \in unseen[c]
    <3>1. m \in Modes /\ fd_[c] \in Fds /\ Served(c, m)
      BY <2>1, UnseenFacts DEF EInv, AllServed
    <3>2. InKernel(c, m) => InKernel(c, m)'
      BY <1>0, <1>2, <3>1 DEF InKernel, Reported
    <3>3. AtHand(c, m) => AtHand(c, m)'
      BY DEF AtHand
    <3> QED BY <3>1, <3>2, <3>3, TasksStay DEF Served
  <2>2. CASE m \notin unseen[c]
    <3>1. Contains(controllers[f], c) /\ m \in Concerns(k, mode_[c])
      BY <1>0, <1>1, <2>2
    <3>2. fd_[c] = f /\ mode_[c] \subseteq interest[f] /\ m \in Modes /\ m \in mode_[c]
      BY <3>1 DEF IInv, CallInv, OnceListed, TypeOK, RInv, SharedOut,
         ModeIsTheirs,
                  Concerns
    <3>3. Concerns(k, interest[f]) # {} /\ (k = "hup" \/ k = m)
      BY <3>1, <3>2 DEF Concerns
    <3>4. InKernel(c, m)'
      BY <1>0, <1>2, <3>2, <3>3 DEF InKernel, Reported
    <3> QED BY <3>4 DEF Served
  <2> QED BY <2>1, <2>2
<1> QED BY <1>3, <1>4, <1>5 DEF EInv, AllServed

\* Nothing but the calls changes, or the poll thread has nothing to do.
LEMMA EFrame ==
  ASSUME EInv, UNCHANGED <<fd_, mode_, task_, controllers, interest, level,
                           ready_list, loopVars, taskVars, unseen>>
  PROVE  EInv'
<1> USE DEF loopVars, taskVars
<1>1. UnseenIsWatched' /\ EventsHandled' /\ HandleIsOwn'
  BY DEF EInv, UnseenIsWatched, EventsHandled, HandleIsOwn
<1>2. \A c, m : (InKernel(c, m)' <=> InKernel(c, m)) /\ (AtHand(c, m)' <=> AtHand(c, m))
  BY DEF InKernel, AtHand, Reported
<1> QED BY <1>1, <1>2, TasksStay DEF EInv, AllServed, Served

(***************************************************************************)
(* StopWatching: the edges of the others stay, for the registration keeps  *)
(* their modes and the task that is cancelled is not theirs.               *)
(***************************************************************************)
LEMMA UnwatchEInv ==
  ASSUME IInv, RInv, EInv, NEW c \in Controllers, mutex_ = None, fd_[c] \in Fds,
         interest[fd_[c]] # {}, Unwatch(c), UNCHANGED loopVars
  PROVE  EInv'
<1> DEFINE f == fd_[c]
           left == mode[f] \ mode_[c]
<1> USE DEF loopVars
<1>0. /\ CancelTask(task_[c])
      /\ task_' = [task_ EXCEPT ![c] = 0]
      /\ unseen' = [unseen EXCEPT ![c] = {}]
      /\ interest' = [interest EXCEPT ![f] = left]
      /\ ready_list' = IF left # {} /\ ReadyAtOnce(f, left)
                         THEN ready_list \cup {f}
                         ELSE IF left = {} THEN ready_list \ {f} ELSE ready_list
      /\ UNCHANGED <<fd_, mode_, level, queue, bound, running, phase>>
  BY DEF Unwatch, ModeLeft
<1>1. \A g \in Fds, d \in Controllers :
        Contains(controllers'[g], d) <=> Contains(controllers[g], d) /\ d # c
  BY UnwatchFacts
<1>2. /\ unseen'[c] = {} /\ task_'[c] = 0
      /\ \A d \in Controllers : d # c => unseen'[d] = unseen[d] /\ task_'[d] = task_[d]
  BY <1>0 DEF IInv, TypeOK
<1>3. ~Contains(queue, 0)
  <2>1. queue \in Seq(Tasks) /\ 0 \notin Tasks
    BY DEF IInv, TypeOK, Tasks
  <2> QED BY <2>1, ElementOfSeq DEF Contains
<1>4. UnseenIsWatched'
  BY <1>0, <1>1, <1>2 DEF EInv, UnseenIsWatched
<1>5. EventsHandled' /\ HandleIsOwn'
  BY <1>0, <1>2, <1>3 DEF EInv, EventsHandled, HandleIsOwn
<1>6. ASSUME NEW d \in Controllers, NEW m \in unseen'[d]
      PROVE  Served(d, m)'
  <2>1. d # c /\ m \in unseen[d]
    BY <1>2
  <2>2. /\ m \in Modes /\ m \in mode_[d] /\ fd_[d] \in Fds
        /\ Contains(controllers[fd_[d]], d) /\ m \in interest[fd_[d]]
        /\ m \in mode[fd_[d]]
    BY <2>1, UnseenFacts
  <2>3. Served(d, m)
    BY <2>1 DEF EInv, AllServed
  <2>4. InKernel(d, m) => InKernel(d, m)'
    <3>1. CASE fd_[d] = f
      <4>1. Contains(controllers[f], c)
        BY NoneStopping DEF RInv, AllListed
      <4>2. mode_[d] \cap mode_[c] = {}
        BY <2>1, <2>2, <3>1, <4>1 DEF RInv, SharedOut
      <4>3. m \in left /\ interest'[f] = left
        BY <1>0, <2>2, <3>1, <4>2 DEF IInv, TypeOK
      <4> QED BY <1>0, <2>2, <3>1, <4>3 DEF InKernel, Reported
    <3>2. CASE fd_[d] # f
      <4>1. interest'[fd_[d]] = interest[fd_[d]]
        BY <1>0, <2>2, <3>2 DEF IInv, TypeOK
      <4> QED BY <1>0, <2>2, <3>2, <4>1 DEF InKernel, Reported
    <3> QED BY <3>1, <3>2
  <2>5. AtHand(d, m) => AtHand(d, m)'
    BY <1>0 DEF AtHand
  <2>6. Posted(d, m) => Posted(d, m)'
    <3> SUFFICES ASSUME NEW t \in Tasks, Contains(queue, t), bound[t].ctrl = d,
                        m \in bound[t].ready, task_state[t] = "pending"
                 PROVE  Posted(d, m)'
      BY DEF Posted
    <3>1. t # task_[c]
      BY <2>1 DEF EInv, HandleIsOwn
    <3>2. task_state'[t] = task_state[t]
      BY <1>0, <3>1 DEF CancelTask, IInv, TypeOK
    <3> QED BY <1>0, <3>2 DEF Posted
  <2>7. Begun(d, m) => Begun(d, m)'
    BY <1>0 DEF Begun
  <2> QED BY <2>3, <2>4, <2>5, <2>6, <2>7 DEF Served
<1> QED BY <1>4, <1>5, <1>6 DEF EInv, AllServed

LEMMA StopResetEInv ==
  ASSUME IInv, RInv, EInv, NEW th \in Threads, StopReset(th)
  PROVE  EInv'
<1> DEFINE c == call[th].ctrl
<1> USE DEF fdVars, kernelVars, taskVars, loopVars
<1>1. /\ call[th].pc = "wait" /\ c \in Controllers
      /\ fd_' = [fd_ EXCEPT ![c] = None]
      /\ mode_' = [mode_ EXCEPT ![c] = {}]
      /\ UNCHANGED <<task_, fdVars, kernelVars, loopVars, taskVars, unseen>>
  BY DEF StopReset, IInv, CallInv, CallShape
<1>2. unseen[c] = {}
  BY <1>1 DEF EInv, UnseenIsWatched, IInv, CallInv, OnceListed
<1>3. \A d \in Controllers : d # c => fd_'[d] = fd_[d] /\ mode_'[d] = mode_[d]
  BY <1>1 DEF IInv, TypeOK
<1>4. UnseenIsWatched'
  BY <1>1, <1>2, <1>3 DEF EInv, UnseenIsWatched
<1>5. EventsHandled' /\ HandleIsOwn'
  BY <1>1 DEF EInv, EventsHandled, HandleIsOwn
<1>6. ASSUME NEW d \in Controllers, NEW m \in unseen'[d]
      PROVE  Served(d, m)'
  <2>1. d # c /\ m \in unseen[d] /\ fd_'[d] = fd_[d] /\ Served(d, m)
    BY <1>1, <1>2, <1>3 DEF EInv, AllServed
  <2>2. (InKernel(d, m) => InKernel(d, m)') /\ (AtHand(d, m) => AtHand(d, m)')
    BY <1>1, <2>1 DEF InKernel, AtHand, Reported
  <2> QED BY <1>1, <2>1, <2>2, TasksStay DEF Served
<1> QED BY <1>4, <1>5, <1>6 DEF EInv, AllServed

\* A registration that finds the descriptor ready puts it on the ready list.
LEMMA AddEInv ==
  ASSUME IInv, RInv, EInv, NEW th \in Threads, AddOrUpdateFd(th)
  PROVE  EInv'
<1> DEFINE c == call[th].ctrl
           f == call[th].fd
           m == call[th].mode
           u == UNION {Concerns(k, m) : k \in level[f]}
<1> USE DEF kernelVars, taskVars, loopVars
<1>0. /\ call[th].pc = "add" /\ c \in Controllers
      /\ f \in Fds /\ m \in SUBSET Modes
      /\ UNCHANGED <<task_, level, loopVars, taskVars>>
  BY DEF AddOrUpdateFd, IInv, CallInv, CallShape, TypeOK, Calls
<1>1. CASE UNCHANGED <<ctrlVars, fdVars, kernelVars, unseen>>
  BY <1>0, <1>1, EFrame DEF ctrlVars, fdVars
<1>2. CASE /\ interest' = [interest EXCEPT ![f] = Registered(f, m)]
           /\ ready_list' = IF ReadyAtOnce(f, Registered(f, m))
                              THEN ready_list \cup {f} ELSE ready_list
           /\ fd_' = [fd_ EXCEPT ![c] = f]
           /\ mode_' = [mode_ EXCEPT ![c] = m]
           /\ controllers' = [controllers EXCEPT ![f] = Append(@, c)]
           /\ unseen' = [unseen EXCEPT ![c] = u]
  <2>1. /\ \A g \in Fds : ~Contains(controllers[g], c)
        /\ controllers[f] \in Seq(Controllers) /\ IsInjective(controllers[f])
    BY <1>0 DEF OnceListed, IInv, CallInv, TypeOK
  <2>2. \A d : Contains(Append(controllers[f], c), d)
                 <=> d = c \/ Contains(controllers[f], d)
    BY <1>0, <2>1, AppendFacts
  <2>3. /\ \A d \in Controllers :
             Contains(controllers'[f], d) <=> d = c \/ Contains(controllers[f], d)
        /\ \A g \in Fds : g # f => controllers'[g] = controllers[g]
    BY <1>0, <1>2, <2>2 DEF IInv, TypeOK
  <2>4. u \subseteq m
    BY DEF Concerns
  <2>5. \A k \in u : "hup" \in level[f] \/ k \in level[f]
    BY DEF Concerns
  <2> HIDE DEF u
  <2>6. /\ fd_'[c] = f /\ mode_'[c] = m /\ unseen'[c] = u
        /\ \A d \in Controllers : d # c =>
             fd_'[d] = fd_[d] /\ mode_'[d] = mode_[d] /\ unseen'[d] = unseen[d]
        /\ interest'[f] = mode[f] \cup m
        /\ \A g \in Fds : g # f => interest'[g] = interest[g]
    BY <1>0, <1>2 DEF IInv, TypeOK, Registered
  <2>7. UnseenIsWatched'
    <3> SUFFICES ASSUME NEW d \in Controllers
                 PROVE  /\ unseen'[d] \subseteq mode_'[d]
                        /\ unseen'[d] # {} =>
                             fd_'[d] \in Fds /\ Contains(controllers'[fd_'[d]], d)
      BY DEF UnseenIsWatched
    <3>1. CASE d = c
      BY <1>0, <2>3, <2>4, <2>6, <3>1
    <3>2. CASE d # c
      <4>1. /\ unseen[d] \subseteq mode_[d]
            /\ unseen[d] # {} => fd_[d] \in Fds /\ Contains(controllers[fd_[d]], d)
        BY DEF EInv, UnseenIsWatched
      <4> QED BY <1>0, <2>3, <2>6, <3>2, <4>1
    <3> QED BY <3>1, <3>2
  <2>8. EventsHandled' /\ HandleIsOwn'
    BY <1>0 DEF EInv, EventsHandled, HandleIsOwn
  <2>9. ASSUME NEW d \in Controllers, NEW k \in unseen'[d]
        PROVE  Served(d, k)'
    <3>1. CASE d = c
      <4>1. k \in u /\ k \in m /\ k \in Modes
        BY <1>0, <2>4, <2>6, <3>1
      <4>2. ReadyAtOnce(f, Registered(f, m))
        BY <2>5, <4>1 DEF ReadyAtOnce, Registered
      <4>3. InKernel(d, k)'
        BY <1>0, <1>2, <2>5, <2>6, <3>1, <4>1, <4>2 DEF InKernel, Reported
      <4> QED BY <4>3 DEF Served
    <3>2. CASE d # c
      <4>1. k \in unseen[d] /\ fd_'[d] = fd_[d] /\ Served(d, k)
        BY <2>6, <3>2 DEF EInv, AllServed
      <4>2. k \in Modes /\ fd_[d] \in Fds /\ k \in interest[fd_[d]] /\ k \in mode[fd_[d]]
        BY <4>1, UnseenFacts
      <4>3. k \in interest'[fd_[d]]
        BY <2>6, <4>2
      <4>4. InKernel(d, k) => InKernel(d, k)'
        BY <1>0, <1>2, <4>1, <4>2, <4>3 DEF InKernel, Reported
      <4>5. AtHand(d, k) => AtHand(d, k)'
        BY <1>0, <4>1 DEF AtHand
      <4> QED BY <1>0, <4>1, <4>4, <4>5, TasksStay DEF Served
    <3> QED BY <3>1, <3>2
  <2> QED BY <2>7, <2>8, <2>9 DEF EInv, AllServed
<1> QED BY <1>1, <1>2 DEF AddOrUpdateFd

LEMMA PollEInv ==
  ASSUME IInv, RInv, EInv, Poll \/ PollTimeout \/ DispatchEnd
  PROVE  EInv'
<1> USE DEF ctrlVars, fdVars, kernelVars, taskVars
<1>1. /\ UNCHANGED <<ctrlVars, fdVars, interest, level, taskVars, unseen>>
      /\ \/ Poll
         \/ UNCHANGED <<ready_list, io_events>>
  BY DEF PollTimeout, DispatchEnd, Poll
<1>2. UnseenIsWatched' /\ HandleIsOwn'
  BY <1>1 DEF EInv, UnseenIsWatched, HandleIsOwn
<1>3. EventsHandled'
  BY DEF EInv, EventsHandled, Poll, PollTimeout, DispatchEnd
<1>4. ASSUME NEW c \in Controllers, NEW m \in unseen'[c]
      PROVE  Served(c, m)'
  <2>1. Served(c, m) /\ fd_[c] \in Fds
    BY <1>1, UnseenFacts DEF EInv, AllServed
  <2>2. CASE Poll
    <3>1. ~AtHand(c, m)
      BY <2>1, <2>2 DEF AtHand, Poll, EInv, EventsHandled
    <3>2. InKernel(c, m) => AtHand(c, m)'
      BY <1>1, <2>1, <2>2 DEF InKernel, AtHand, Poll
    <3> QED BY <1>1, <2>1, <3>1, <3>2, TasksStay DEF Served
  <2>3. CASE UNCHANGED <<ready_list, io_events>>
    <3>1. (InKernel(c, m) => InKernel(c, m)') /\ (AtHand(c, m) => AtHand(c, m)')
      BY <1>1, <2>3 DEF InKernel, AtHand, Reported
    <3> QED BY <1>1, <2>1, <3>1, TasksStay DEF Served
  <2> QED BY <1>1, <2>2, <2>3
<1> QED BY <1>2, <1>3, <1>4 DEF EInv, AllServed

(***************************************************************************)
(* One event: a controller that it concerns has its task now.              *)
(***************************************************************************)
LEMMA DispatchEInv ==
  ASSUME IInv, RInv, EInv, NEW f \in Fds, Dispatch(f)
  PROVE  EInv'
<1> USE DEF fdVars, kernelVars
<1>0. /\ UNCHANGED <<fd_, mode_, fdVars, kernelVars, loop, running, phase,
                     unseen>>
      /\ io_events' = [io_events EXCEPT ![f] = {}]
      /\ loop = "dispatch"
  BY DEF Dispatch
<1>1. PICK P \in SUBSET Tasks, new \in Seq(Tasks) : Posts(f, P, new)
  BY DispatchPosts DEF IInv, CallInv
<1>2. /\ queue \in Seq(Tasks)
      /\ \A t : Contains(new, t) <=> t \in P
      /\ \A t \in P : /\ ~Contains(queue, t)
                      /\ \A w \in Workers : running[w] # t
                      /\ \A c \in Controllers : task_[c] # t
  <2>1. queue \in Seq(Tasks) /\ DOMAIN queue = 1..Len(queue)
    BY LenProperties DEF IInv, TypeOK
  <2> QED BY <1>1, <2>1 DEF Posts, FreeTasks, Contains
<1>3. \A t : Contains(queue', t) <=> Contains(queue, t) \/ t \in P
  BY <1>1, <1>2, ConcatFacts DEF Posts
<1>4. \A t \in Tasks : t \notin P => bound'[t] = bound[t] /\ task_state'[t] = task_state[t]
  BY <1>1 DEF Posts
<1>5. UnseenIsWatched'
  BY <1>0 DEF EInv, UnseenIsWatched
<1>6. EventsHandled'
  BY <1>0 DEF EventsHandled
<1>7. HandleIsOwn'
  <2> SUFFICES ASSUME NEW c \in Controllers, Contains(queue', task_'[c])
               PROVE  bound'[task_'[c]].ctrl = c
    BY DEF HandleIsOwn
  <2>1. CASE task_'[c] = task_[c]
    <3>1. task_[c] \notin P /\ Contains(queue, task_[c])
      BY <1>2, <1>3, <2>1
    <3>2. task_[c] \in Tasks
      BY <1>2, <3>1, ElementOfSeq DEF Contains
    <3> QED BY <1>4, <2>1, <3>1, <3>2 DEF EInv, HandleIsOwn
  <2>2. CASE bound'[task_'[c]].ctrl = c
    BY <2>2
  <2> QED BY <1>1, <2>1, <2>2 DEF Posts
<1>8. ASSUME NEW c \in Controllers, NEW m \in unseen'[c]
      PROVE  Served(c, m)'
  <2>1. /\ Served(c, m) /\ m \in Modes /\ m \in mode_[c] /\ fd_[c] \in Fds
        /\ Contains(controllers[fd_[c]], c)
    BY <1>0, UnseenFacts DEF EInv, AllServed
  <2>2. InKernel(c, m) => InKernel(c, m)'
    BY <1>0 DEF InKernel, Reported
  <2>3. ASSUME AtHand(c, m)
        PROVE  AtHand(c, m)' \/ Posted(c, m)'
    <3>1. CASE fd_[c] # f
      BY <1>0, <2>1, <2>3, <3>1 DEF AtHand, IInv, TypeOK
    <3>2. CASE fd_[c] = f
      <4>1. m \in ReadyFor(f, c)
        BY <2>1, <2>3, <3>2 DEF AtHand, ReadyFor
      <4>2. PICK t \in P : bound'[t].ctrl = c
        BY <1>1, <2>1, <3>2, <4>1 DEF Posts
      <4>3. PICK d \in Controllers : bound'[t] = [ctrl |-> d, ready |-> ReadyFor(f, d)]
        BY <1>1 DEF Posts
      <4>4. d = c /\ bound'[t].ready = ReadyFor(f, c)
        BY <4>2, <4>3
      <4>5. t \in Tasks /\ task_state'[t] = "pending" /\ Contains(queue', t)
        BY <1>1, <1>3 DEF Posts
      <4> QED BY <4>1, <4>2, <4>4, <4>5 DEF Posted
    <3> QED BY <3>1, <3>2
  <2>4. Posted(c, m) => Posted(c, m)'
    BY <1>2, <1>3, <1>4 DEF Posted
  <2>5. ASSUME Begun(c, m)
        PROVE  Begun(c, m)'
    <3>1. PICK w \in Workers : /\ phase[w] = "writable" /\ m = "read"
                               /\ bound[running[w]].ctrl = c
                               /\ m \in bound[running[w]].ready
      BY <2>5 DEF Begun
    <3>2. running[w] \in Tasks /\ running[w] \notin P
      BY <1>2, <3>1 DEF IInv, TypeOK, TaskInv, TasksApart
    <3> QED BY <1>0, <1>4, <3>1, <3>2 DEF Begun
  <2> QED BY <2>1, <2>2, <2>3, <2>4, <2>5 DEF Served
<1> QED BY <1>5, <1>6, <1>7, <1>8 DEF EInv, AllServed

(***************************************************************************)
(* A worker takes a task: the watcher sees the first of its edges, and the *)
(* second one is with the worker.                                          *)
(***************************************************************************)
LEMMA RunTaskEInv ==
  ASSUME IInv, RInv, EInv, NEW w \in Workers, RunTask(w)
  PROVE  EInv'
<1> DEFINE t == Head(queue)
           c == bound[t].ctrl
<1> USE DEF ctrlVars, fdVars, kernelVars, loopVars
<1>0. /\ phase[w] = "idle" /\ queue # <<>> /\ queue' = Tail(queue)
      /\ UNCHANGED <<ctrlVars, fdVars, kernelVars, loopVars>>
  BY DEF RunTask
<1>1. /\ t \in Tasks /\ ~Contains(queue', t)
      /\ \A s : Contains(queue, s) <=> s = t \/ Contains(queue', s)
      /\ \A v \in Workers : running[v] # t
  <2>1. queue \in Seq(Tasks) /\ IsInjective(queue)
    BY DEF IInv, TypeOK, TaskInv, TasksApart
  <2>2. /\ t \in Tasks /\ ~Contains(queue', t)
        /\ \A s : Contains(queue, s) <=> s = t \/ Contains(queue', s)
    BY <1>0, <2>1, TailFacts
  <2> QED BY <2>2 DEF IInv, TaskInv, TasksApart
<1>2. \A d, m : (InKernel(d, m)' <=> InKernel(d, m)) /\ (AtHand(d, m)' <=> AtHand(d, m))
  BY <1>0 DEF InKernel, AtHand, Reported
<1>3. EventsHandled'
  BY <1>0 DEF EInv, EventsHandled
<1>4. CASE /\ task_state[t] = "pending"
           /\ UNCHANGED bound
           /\ task_state' = [task_state EXCEPT ![t] = "running"]
           /\ running' = [running EXCEPT ![w] = t]
           /\ CallBack(w, c, IF "write" \in bound[t].ready
                               THEN "writable" ELSE "readable")
  <2> DEFINE first == IF "write" \in bound[t].ready THEN "write" ELSE "read"
  <2>1. c \in Controllers
    BY <1>1 DEF IInv, TaskInv, Asked
  <2>2. /\ unseen'[c] = unseen[c] \ {first}
        /\ \A d \in Controllers : d # c => unseen'[d] = unseen[d]
        /\ phase'[w] = IF "write" \in bound[t].ready THEN "writable" ELSE "readable"
        /\ running'[w] = t
        /\ \A v \in Workers : v # w => phase'[v] = phase[v] /\ running'[v] = running[v]
        /\ \A s \in Tasks : s # t => task_state'[s] = task_state[s]
    BY <1>1, <1>4, <2>1 DEF CallBack, IInv, TypeOK
  <2>3. UnseenIsWatched'
    BY <1>0, <2>1, <2>2 DEF EInv, UnseenIsWatched
  <2>4. HandleIsOwn'
    BY <1>0, <1>1, <1>4 DEF EInv, HandleIsOwn
  <2>5. ASSUME NEW d \in Controllers, NEW m \in unseen'[d]
        PROVE  Served(d, m)'
    <3>1. m \in unseen[d] /\ Served(d, m) /\ m \in Modes
      BY <2>2, UnseenFacts DEF EInv, AllServed
    <3>2. ASSUME Posted(d, m)
          PROVE  Posted(d, m)' \/ Begun(d, m)'
      <4>1. PICK s \in Tasks : /\ Contains(queue, s)
                               /\ bound[s].ctrl = d /\ m \in bound[s].ready
                               /\ task_state[s] = "pending"
        BY <3>2 DEF Posted
      <4>2. CASE s = t
        <5>1. d = c /\ m # first
          BY <2>2, <4>1, <4>2
        <5>2. m = "read" /\ phase'[w] = "writable"
          BY <2>2, <3>1, <4>1, <4>2, <5>1 DEF Modes
        <5> QED BY <1>4, <2>2, <4>1, <4>2, <5>2 DEF Begun
      <4>3. CASE s # t
        BY <1>1, <1>4, <2>2, <4>1, <4>3 DEF Posted
      <4> QED BY <4>2, <4>3
    <3>3. Begun(d, m) => Begun(d, m)'
      BY <1>0, <1>4, <2>2 DEF Begun
    <3> QED BY <1>2, <3>1, <3>2, <3>3 DEF Served
  <2> QED BY <1>3, <2>3, <2>4, <2>5 DEF EInv, AllServed
<1>5. CASE /\ task_state[t] # "pending"
           /\ bound' = [bound EXCEPT ![t] = Unbound]
           /\ UNCHANGED <<task_state, running, phase, unseen>>
  <2>1. \A s \in Tasks : s # t => bound'[s] = bound[s]
    BY <1>5 DEF IInv, TypeOK
  <2>2. UnseenIsWatched'
    BY <1>0, <1>5 DEF EInv, UnseenIsWatched
  <2>3. HandleIsOwn'
    <3> SUFFICES ASSUME NEW d \in Controllers, Contains(queue', task_[d])
                 PROVE  bound'[task_[d]].ctrl = d
      BY <1>0 DEF HandleIsOwn
    <3>1. task_[d] # t /\ Contains(queue, task_[d])
      BY <1>1
    <3>2. task_[d] \in Tasks
      BY <3>1, ElementOfSeq DEF Contains, IInv, TypeOK
    <3> QED BY <2>1, <3>1, <3>2 DEF EInv, HandleIsOwn
  <2>4. ASSUME NEW d \in Controllers, NEW m \in unseen'[d]
        PROVE  Served(d, m)'
    <3>1. Served(d, m)
      BY <1>5 DEF EInv, AllServed
    <3>2. Posted(d, m) => Posted(d, m)'
      BY <1>1, <1>5, <2>1 DEF Posted
    <3>3. Begun(d, m) => Begun(d, m)'
      <4>1. \A v \in Workers : phase[v] = "writable" => running[v] \in Tasks
        BY DEF IInv, TypeOK, TaskInv, TasksApart
      <4> QED BY <1>1, <1>5, <2>1, <4>1 DEF Begun
    <3> QED BY <1>2, <3>1, <3>2, <3>3 DEF Served
  <2> QED BY <1>3, <2>2, <2>3, <2>4 DEF EInv, AllServed
<1> QED BY <1>4, <1>5 DEF RunTask

LEMMA WritableReturnsEInv ==
  ASSUME IInv, RInv, EInv, NEW w \in Workers, WritableReturns(w)
  PROVE  EInv'
<1> DEFINE t == running[w]
           c == bound[t].ctrl
<1> USE DEF ctrlVars, fdVars, kernelVars, loopVars
<1>0. /\ phase' = [phase EXCEPT ![w] = "readable"]
      /\ unseen' = [unseen EXCEPT ![c] = @ \ {"read"}]
      /\ UNCHANGED <<ctrlVars, fdVars, kernelVars, loopVars, queue,
                     task_state, bound, running>>
  BY DEF WritableReturns, CallBack
<1>1. /\ \A d \in Controllers : unseen'[d] \subseteq unseen[d]
      /\ c \in Controllers => "read" \notin unseen'[c]
      /\ \A v \in Workers : v # w => phase'[v] = phase[v]
  BY <1>0 DEF IInv, TypeOK
<1>2. UnseenIsWatched' /\ EventsHandled' /\ HandleIsOwn'
  BY <1>0, <1>1 DEF EInv, UnseenIsWatched, EventsHandled, HandleIsOwn
<1>3. ASSUME NEW d \in Controllers, NEW m \in unseen'[d]
      PROVE  Served(d, m)'
  <2>1. Served(d, m)
    BY <1>1 DEF EInv, AllServed
  <2>2. /\ InKernel(d, m) => InKernel(d, m)'
        /\ AtHand(d, m) => AtHand(d, m)'
    BY <1>0 DEF InKernel, AtHand, Reported
  <2>3. Posted(d, m) => Posted(d, m)'
    BY <1>0 DEF Posted
  <2>4. Begun(d, m) => Begun(d, m)'
    BY <1>0, <1>1 DEF Begun
  <2> QED BY <2>1, <2>2, <2>3, <2>4 DEF Served
<1> QED BY <1>2, <1>3 DEF EInv, AllServed

(***************************************************************************)
(* HandleIO is through: its task has no edge left, and a condition that is *)
(* used up is no edge any more.                                            *)
(***************************************************************************)
LEMMA HandleIOReturnsEInv ==
  ASSUME IInv, RInv, EInv, NEW w \in Workers, HandleIOReturns(w)
  PROVE  EInv'
<1> DEFINE t == running[w]
<1> USE DEF fdVars, loopVars
<1>0. /\ phase[w] # "idle" /\ (phase[w] = "readable" \/ ~ReadNext(t))
      /\ task_state' = [task_state EXCEPT ![t] = "completed"]
      /\ bound' = [bound EXCEPT ![t] = Unbound]
      /\ task_' = [c \in Controllers |-> IF task_[c] = t THEN 0 ELSE task_[c]]
      /\ running' = [running EXCEPT ![w] = 0]
      /\ phase' = [phase EXCEPT ![w] = "idle"]
      /\ UNCHANGED <<fd_, mode_, fdVars, interest, ready_list, loopVars,
                     queue>>
  BY DEF HandleIOReturns
<1>1. t \in Tasks /\ t # 0 /\ ~Contains(queue, t)
  BY <1>0 DEF IInv, TypeOK, TaskInv, TasksApart
<1>2. /\ \A s \in Tasks : s # t => bound'[s] = bound[s] /\ task_state'[s] = task_state[s]
      /\ \A v \in Workers : v # w => /\ running'[v] = running[v] /\ phase'[v] = phase[v]
                                     /\ running[v] # t
  <2>1. \A v \in Workers : v # w => running[v] # t
    BY <1>1 DEF IInv, TaskInv, TasksApart
  <2> QED BY <1>0, <2>1 DEF IInv, TypeOK
<1>3. /\ \A d \in Controllers : unseen'[d] \subseteq unseen[d]
      /\ \A d \in Controllers : \A m \in unseen'[d] :
           fd_[d] \in Fds /\ m \in Reported(fd_[d]) => m \in Reported(fd_[d])'
  <2>1. CASE UNCHANGED <<level, unseen>>
    BY <1>0, <2>1 DEF Reported
  <2>2. ASSUME NEW k \in Modes, UsesUp(w, k)
        PROVE  /\ \A d \in Controllers : unseen'[d] \subseteq unseen[d]
               /\ \A d \in Controllers : \A m \in unseen'[d] :
                    fd_[d] \in Fds /\ m \in Reported(fd_[d]) => m \in Reported(fd_[d])'
    <3> DEFINE g == fd_[bound[running[w]].ctrl]
    <3>1. /\ level' = [level EXCEPT ![g] = @ \ {k}]
          /\ \A d \in Controllers :
               unseen'[d] = IF fd_[d] = g /\ "hup" \notin level[g]
                              THEN unseen[d] \ {k} ELSE unseen[d]
      BY <2>2 DEF UsesUp
    <3> HIDE DEF g
    <3>2. \A h \in Fds : level'[h] = IF h = g THEN level[h] \ {k} ELSE level[h]
      BY <3>1 DEF IInv, TypeOK
    <3>3. k # "hup"
      BY DEF Modes
    <3>4. ASSUME NEW d \in Controllers, NEW m \in unseen'[d], fd_[d] \in Fds,
                 m \in Reported(fd_[d])
          PROVE  m \in Reported(fd_[d])'
      <4>1. fd_'[d] = fd_[d] /\ interest'[fd_[d]] = interest[fd_[d]]
        BY <1>0
      <4>2. CASE "hup" \in level[fd_[d]]
        BY <1>0, <3>2, <3>3, <3>4, <4>1, <4>2 DEF Reported
      <4>3. CASE "hup" \notin level[fd_[d]]
        <5>1. m \in level[fd_[d]] /\ m \in interest[fd_[d]]
          BY <3>4, <4>3 DEF Reported
        <5>2. fd_[d] = g => m # k
          BY <3>1, <4>3
        <5>3. m \in level'[fd_[d]] /\ "hup" \notin level'[fd_[d]]
          BY <3>2, <3>4, <4>3, <5>1, <5>2
        <5> QED BY <1>0, <4>1, <5>1, <5>3 DEF Reported
      <4> QED BY <4>2, <4>3
    <3> QED BY <3>1, <3>4
  <2>3. (IF phase[w] = "writable" THEN "write" ELSE "read") \in Modes
    BY DEF Modes
  <2> QED BY <2>1, <2>2, <2>3 DEF HandleIOReturns
<1>4. UnseenIsWatched' /\ EventsHandled'
  BY <1>0, <1>3 DEF EInv, UnseenIsWatched, EventsHandled
<1>5. HandleIsOwn'
  <2> SUFFICES ASSUME NEW d \in Controllers, Contains(queue, task_'[d])
               PROVE  bound'[task_'[d]].ctrl = d
    BY <1>0 DEF HandleIsOwn
  <2>1. task_'[d] \in Tasks
    BY ElementOfSeq DEF Contains, IInv, TypeOK
  <2>2. task_'[d] = task_[d] /\ task_[d] # t
    <3>1. 0 \notin Tasks
      BY DEF Tasks
    <3> QED BY <1>0, <2>1, <3>1
  <2> QED BY <1>2, <2>1, <2>2 DEF EInv, HandleIsOwn
<1>6. ASSUME NEW d \in Controllers, NEW m \in unseen'[d]
      PROVE  Served(d, m)'
  <2>1. Served(d, m) /\ fd_[d] \in Fds
    <3>1. m \in unseen[d]
      BY <1>3
    <3> QED BY <3>1, UnseenFacts DEF EInv, AllServed
  <2>2. InKernel(d, m) => InKernel(d, m)'
    <3>1. InKernel(d, m) => m \in Reported(fd_[d])'
      BY <1>3, <2>1 DEF InKernel
    <3> QED BY <1>0, <3>1 DEF InKernel
  <2>3. AtHand(d, m) => AtHand(d, m)'
    BY <1>0 DEF AtHand
  <2>4. Posted(d, m) => Posted(d, m)'
    BY <1>0, <1>1, <1>2 DEF Posted
  <2>5. ASSUME Begun(d, m)
        PROVE  Begun(d, m)'
    <3>1. PICK v \in Workers : /\ phase[v] = "writable" /\ m = "read"
                               /\ bound[running[v]].ctrl = d
                               /\ m \in bound[running[v]].ready
      BY <2>5 DEF Begun
    <3>2. v # w
      BY <1>0, <3>1 DEF ReadNext
    <3>3. running[v] \in Tasks
      BY <3>1 DEF IInv, TypeOK, TaskInv, TasksApart
    <3> QED BY <1>2, <3>1, <3>2, <3>3 DEF Begun
  <2> QED BY <2>1, <2>2, <2>3, <2>4, <2>5 DEF Served
<1> QED BY <1>4, <1>5, <1>6 DEF EInv, AllServed

\* EInv holds after every step.
LEMMA StepEInv == IInv /\ RInv /\ EInv /\ [Next]_vars => EInv'
<1> SUFFICES ASSUME IInv, RInv, EInv, [Next]_vars PROVE EInv'
  OBVIOUS
<1>1. CASE UNCHANGED <<ctrlVars, fdVars, kernelVars, loopVars, taskVars,
                       unseen>>
  BY <1>1, EFrame DEF ctrlVars, fdVars, kernelVars
<1>2. ASSUME NEW th \in Threads, StopWatching(th) PROVE EInv'
  <2> DEFINE c == call[th].ctrl
  <2>1. CASE fd_[c] = None
    BY <1>1, <1>2, <2>1 DEF StopWatching
  <2>2. CASE fd_[c] # None
    <3>1. /\ Unwatch(c) /\ mutex_ = None /\ call[th].pc = "lock"
          /\ UNCHANGED loopVars
      BY <1>2, <2>2 DEF StopWatching
    <3>2. c \in Controllers /\ fd_[c] \in Fds
      BY <2>2, <3>1 DEF IInv, CallInv, CallShape, TypeOK
    <3> QED BY <3>1, <3>2, UnwatchRInv, UnwatchEInv
  <2> QED BY <2>1, <2>2
<1>3. ASSUME NEW th \in Threads, WatchFileDescriptor(th) PROVE EInv'
  <2> DEFINE c == call[th].ctrl
  <2>1. CASE fd_[c] # call[th].fd
    BY <1>1, <1>3, <2>1 DEF WatchFileDescriptor
  <2>2. CASE fd_[c] = call[th].fd
    <3>1. /\ Unwatch(c) /\ mutex_ = None /\ call[th].pc = "lock"
          /\ UNCHANGED loopVars
      BY <1>3, <2>2 DEF WatchFileDescriptor
    <3>2. c \in Controllers /\ fd_[c] \in Fds
      BY <1>3, <2>2 DEF IInv, CallInv, CallShape, WatchFileDescriptor
    <3> QED BY <3>1, <3>2, UnwatchRInv, UnwatchEInv
  <2> QED BY <2>1, <2>2
<1>4. ASSUME NEW th \in Threads, CallStep(th) PROVE EInv'
  BY <1>2, <1>3, <1>4, StopResetEInv, AddEInv DEF CallStep
<1>5. ASSUME NEW w \in Workers, Work(w) PROVE EInv'
  BY <1>5, RunTaskEInv, WritableReturnsEInv, HandleIOReturnsEInv DEF Work
<1>6. CASE DtorStop \/ DtorJoin
  BY <1>1, <1>6 DEF DtorStop, DtorJoin
<1>7. CASE DtorWakeup
  <2>1. WakeupFd \in Fds /\ "read" \in Conditions
    BY IOAssumption DEF Conditions, Modes
  <2> QED BY <1>7, <2>1, MakeReadyEInv DEF DtorWakeup
<1>8. ASSUME NEW e \in Edges, Edge(e[1], e[2]) PROVE EInv'
  <2>1. e[1] \in Fds /\ e[2] \in Conditions
    BY IOAssumption
  <2> QED BY <1>8, <2>1, MakeReadyEInv DEF Edge
<1>9. ASSUME NEW th \in Threads, NEW c \in Controllers,
             \/ EnterStop(th, c)
             \/ \E f \in Fds, m \in SUBSET Modes : EnterWatch(th, c, f, m)
      PROVE  EInv'
  BY <1>1, <1>9 DEF EnterStop, EnterWatch
<1>10. CASE UNCHANGED vars
  BY <1>1, <1>10 DEF vars
<1> QED BY <1>4, <1>5, <1>6, <1>7, <1>8, <1>9, <1>10, PollEInv, DispatchEInv
       DEF Next, Destructor

(***************************************************************************)
(* No edge is lost, though epoll tells of it once only: until the watcher  *)
(* is called or stops, epoll will report the descriptor, or its event is   *)
(* at hand, or a task that nothing cancelled will call the watcher.        *)
(***************************************************************************)
THEOREM EdgesKept == Spec /\ []NoSharedMode => []EdgeNotLost
<1>1. IInv /\ EInv => EdgeNotLost
  <2> SUFFICES ASSUME IInv, NEW c \in Controllers, NEW m \in unseen[c], Served(c, m)
               PROVE  \/ fd_[c] \in ready_list /\ m \in Reported(fd_[c])
                      \/ m \in io_events[fd_[c]]
                      \/ \E k \in DOMAIN queue : /\ bound[queue[k]].ctrl = c
                                                 /\ m \in bound[queue[k]].ready
                                                 /\ task_state[queue[k]] = "pending"
                      \/ \E w \in Workers : /\ phase[w] = "writable" /\ m = "read"
                                            /\ bound[running[w]].ctrl = c
                                            /\ m \in bound[running[w]].ready
    BY DEF EInv, AllServed, EdgeNotLost
  <2>1. DOMAIN queue = 1..Len(queue)
    BY LenProperties DEF IInv, TypeOK
  <2>2. Posted(c, m) => \E k \in DOMAIN queue : /\ bound[queue[k]].ctrl = c
                                                /\ m \in bound[queue[k]].ready
                                                /\ task_state[queue[k]] = "pending"
    BY <2>1 DEF Posted, Contains
  <2> QED BY <2>2 DEF Served, InKernel, AtHand, Begun
<1> QED BY InitIInv, StepIInv, InitRInv, StepRInv, InitEInv, StepEInv, <1>1,
PTL
       DEF Spec
=============================================================================
