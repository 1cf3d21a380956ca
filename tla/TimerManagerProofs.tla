------------------------- MODULE TimerManagerProofs -------------------------
(***************************************************************************)
(* Theorems about TimerManager, for any number of shards, timers and       *)
(* callers: the cached minimum covers the heap, the queue of shards stays  *)
(* sorted, every start of a timer ends once, and the poller does not       *)
(* oversleep.                                                              *)
(***************************************************************************)
EXTENDS TimerManager, FiniteSetTheorems, TLAPS

\* The heaps hold the pending timers, each in its own shard.
HeapInv ==
  /\ \A s \in Shards : \A t \in urgent_timers[s] : ShardOf[t] = s
  /\ EachStartEndsOnce

\* A TimerInit in progress has a timer, and the only one to add it.
CallerInv ==
  /\ \A c \in Callers : pc[c] # "idle" => timer[c] \in Timers
  /\ \A c \in Callers : pc[c] = "add" =>
       ~pending_[timer[c]] /\ armed[timer[c]] < MaxArms
  /\ \A b, c \in Callers :
       pc[b] = "add" /\ pc[c] = "add" /\ timer[b] = timer[c] => b = c

\* What the poller goes by while it sleeps.
SleepInv ==
  /\ check_now <= now
  /\ loop \in {"poll", "polling"} /\ ~wakeup /\ ~swallowed =>
       \A s \in Shards :
         IF timeout = Infinite
           THEN min_deadline[s] = Infinite
           ELSE timeout > 0 /\ check_now + timeout <= min_deadline[s]

IInv ==
  /\ TypeOK
  /\ HeapInv
  /\ CallerInv
  /\ MinDeadlineCovers
  /\ QueueSorted
  /\ SleepInv

-----------------------------------------------------------------------------
(* Arithmetic and the queue of shards *)

\* There is at least one shard.
LEMMA NIsNat == N \in Nat \ {0}
  BY TimerAssumption, FS_CardinalityType, FS_EmptySet DEF N

\* The timeout is less than a millisecond longer than what was asked for.
LEMMA PollTimeoutBound ==
  ASSUME NEW d \in Nat, d > 0
  PROVE  PollTimeout(d) \in Nat /\ PollTimeout(d) < d + Ms
  BY TimerAssumption DEF PollTimeout

\* Where the shard at position m of Carry(q, i, j) came from.
Source(i, j, m) == IF m = j THEN i
                   ELSE IF i <= m /\ m < j THEN m + 1
                   ELSE IF j < m /\ m <= i THEN m - 1
                   ELSE m

\* Carrying is a permutation of the positions that keeps the order of all but j.
LEMMA SourceFacts ==
  ASSUME NEW i \in 1..N, NEW j \in 1..N
  PROVE  /\ \A m \in 1..N : Source(i, j, m) \in 1..N
         /\ \A a, b \in 1..N : Source(i, j, a) = Source(i, j, b) => a = b
         /\ \A m \in 1..N : m # j => Source(i, j, m) # i
         /\ \A a, b \in 1..N : a < b /\ a # j /\ b # j =>
              Source(i, j, a) < Source(i, j, b)
         /\ \A m \in 1..N : \E a \in 1..N : Source(i, j, a) = m
<1> USE NIsNat DEF Source
<1>1. \A m \in 1..N : Source(i, j, m) \in 1..N
  OBVIOUS
<1>2. \A a, b \in 1..N : Source(i, j, a) = Source(i, j, b) => a = b
  OBVIOUS
<1>3. \A m \in 1..N : m # j => Source(i, j, m) # i
  OBVIOUS
<1>4. \A a, b \in 1..N : a < b /\ a # j /\ b # j =>
        Source(i, j, a) < Source(i, j, b)
  OBVIOUS
<1>5. ASSUME NEW m \in 1..N
      PROVE  \E a \in 1..N : Source(i, j, a) = m
  <2>1. CASE m = i
    BY <2>1
  <2>2. CASE i < m /\ m <= j
    <3>1. m - 1 \in 1..N /\ Source(i, j, m - 1) = m
      BY <2>2
    <3> QED BY <3>1
  <2>3. CASE j <= m /\ m < i
    <3>1. m + 1 \in 1..N /\ Source(i, j, m + 1) = m
      BY <2>3
    <3> QED BY <3>1
  <2>4. CASE (m < i /\ m < j) \/ (m > i /\ m > j)
    <3>1. Source(i, j, m) = m
      BY <2>4
    <3> QED BY <3>1
  <2> QED BY <2>1, <2>2, <2>3, <2>4
<1> QED BY <1>1, <1>2, <1>3, <1>4, <1>5

IsQueue(q) == /\ q \in [1..N -> Shards]
              /\ \A a, b \in 1..N : q[a] = q[b] => a = b
              /\ \A s \in Shards : \E a \in 1..N : q[a] = s

\* Carrying a shard from i to j rearranges the queue.
LEMMA CarryFacts ==
  ASSUME NEW q, IsQueue(q), NEW i \in 1..N, NEW j \in 1..N
  PROVE  /\ IsQueue(Carry(q, i, j))
         /\ \A m \in 1..N : Carry(q, i, j)[m] = q[Source(i, j, m)]
<1>1. \A m \in 1..N : Source(i, j, m) \in 1..N
  BY SourceFacts
<1>2. \A m \in 1..N : Carry(q, i, j)[m] = q[Source(i, j, m)]
  BY NIsNat DEF Carry, Source
<1>3. Carry(q, i, j) \in [1..N -> Shards]
  <2>1. \A m \in 1..N : q[Source(i, j, m)] \in Shards
    BY <1>1 DEF IsQueue
  <2> QED BY <1>2, <2>1 DEF Carry
<1>4. \A a, b \in 1..N : Carry(q, i, j)[a] = Carry(q, i, j)[b] => a = b
  <2> SUFFICES ASSUME NEW a \in 1..N, NEW b \in 1..N,
                      Carry(q, i, j)[a] = Carry(q, i, j)[b]
               PROVE  a = b
    OBVIOUS
  <2>1. Source(i, j, a) = Source(i, j, b)
    BY <1>1, <1>2 DEF IsQueue
  <2> QED BY <2>1, SourceFacts
<1>5. ASSUME NEW s \in Shards
      PROVE  \E a \in 1..N : Carry(q, i, j)[a] = s
  <2>1. PICK m \in 1..N : q[m] = s
    BY DEF IsQueue
  <2>2. PICK a \in 1..N : Source(i, j, a) = m
    BY SourceFacts
  <2> QED BY <2>1, <2>2, <1>2
<1> QED BY <1>2, <1>3, <1>4, <1>5 DEF IsQueue

Sorted(q, md) == \A a, b \in 1..N : a < b => md[q[a]] <= md[q[b]]

\* The queue without its position i is sorted.
SortedBut(q, md, i) ==
  \A a, b \in 1..N : a < b /\ a # i /\ b # i => md[q[a]] <= md[q[b]]

\* Carrying the shard that is out of place leaves the others sorted.
LEMMA CarrySortedBut ==
  ASSUME NEW q, IsQueue(q), NEW i \in 1..N, NEW j \in 1..N, NEW md,
         SortedBut(q, md, i)
  PROVE  SortedBut(Carry(q, i, j), md, j)
<1> SUFFICES ASSUME NEW a \in 1..N, NEW b \in 1..N, a < b, a # j, b # j
             PROVE  md[Carry(q, i, j)[a]] <= md[Carry(q, i, j)[b]]
  BY DEF SortedBut
<1>1. /\ Source(i, j, a) \in 1..N /\ Source(i, j, b) \in 1..N
      /\ Source(i, j, a) # i /\ Source(i, j, b) # i
      /\ Source(i, j, a) < Source(i, j, b)
  BY SourceFacts
<1>2. /\ Carry(q, i, j)[a] = q[Source(i, j, a)]
      /\ Carry(q, i, j)[b] = q[Source(i, j, b)]
  BY CarryFacts
<1>3. md[q[Source(i, j, a)]] <= md[q[Source(i, j, b)]]
  BY <1>1 DEF SortedBut
<1> QED BY <1>2, <1>3

(***************************************************************************)
(* The two loops of OnDeadlineChanged sort a queue in which one shard is   *)
(* out of place.                                                           *)
(***************************************************************************)
LEMMA LoopsSort ==
  ASSUME NEW q, IsQueue(q), NEW md \in [Shards -> Deadlines],
         NEW i \in 1..N, NEW l \in 1..N, NEW r \in 1..N,
         SortedBut(q, md, i),
         StopsLeft(q, md, i, l),
         StopsRight(Carry(q, i, l), md, l, r)
  PROVE  Sorted(Carry(Carry(q, i, l), l, r), md)
<1> DEFINE p == Carry(q, i, l)
           w == Carry(p, l, r)
<1> USE NIsNat
<1>1. IsQueue(p) /\ \A m \in 1..N : p[m] = q[Source(i, l, m)]
  BY CarryFacts
<1>2. IsQueue(w) /\ \A m \in 1..N : w[m] = p[Source(l, r, m)]
  BY <1>1, CarryFacts
<1>3. SortedBut(p, md, l)
  BY CarrySortedBut
<1>4. SortedBut(w, md, r)
  BY <1>1, <1>3, CarrySortedBut
<1>5. \A x \in Shards : md[x] \in Int
  BY TimerAssumption DEF Deadlines, Times
<1>6. p[l] = q[i] /\ w[r] = p[l]
  BY <1>1, <1>2 DEF Source
<1>7. \A a \in 1..N : a < l => md[p[a]] <= md[p[l]]
  <2> SUFFICES ASSUME NEW a \in 1..N, a < l PROVE md[p[a]] <= md[p[l]]
    OBVIOUS
  <2>1. l - 1 \in 1..N /\ l <= i /\ md[q[i]] >= md[q[l - 1]]
    BY DEF StopsLeft
  <2>2. p[a] = q[a]
    BY <2>1, <1>1 DEF Source
  <2>3. md[q[a]] <= md[q[l - 1]]
    <3>1. CASE a = l - 1
      BY <3>1, <1>5 DEF IsQueue
    <3>2. CASE a < l - 1
      BY <3>2, <2>1 DEF SortedBut
    <3> QED BY <3>1, <3>2, <2>1
  <2>4. q[a] \in Shards /\ q[i] \in Shards /\ q[l - 1] \in Shards
    BY <2>1 DEF IsQueue
  <2> QED BY <2>1, <2>2, <2>3, <2>4, <1>5, <1>6
<1>8. \A a \in 1..N : a < r => md[w[a]] <= md[w[r]]
  <2> SUFFICES ASSUME NEW a \in 1..N, a < r PROVE md[w[a]] <= md[w[r]]
    OBVIOUS
  <2>1. l <= r
    BY DEF StopsRight
  <2>2. CASE a < l
    <3>1. w[a] = p[a]
      BY <2>1, <2>2, <1>2 DEF Source
    <3> QED BY <3>1, <2>2, <1>6, <1>7
  <2>3. CASE l <= a
    <3>1. w[a] = p[a + 1] /\ a + 1 \in (l + 1)..r
      BY <2>1, <2>3, <1>2 DEF Source
    <3>2. md[p[l]] > md[p[a + 1]]
      BY <3>1 DEF StopsRight
    <3>3. p[l] \in Shards /\ p[a + 1] \in Shards
      <4>1. a + 1 \in 1..N
        BY <3>1
      <4> QED BY <4>1, <1>1 DEF IsQueue
    <3> QED BY <3>1, <3>2, <3>3, <1>5, <1>6
  <2> QED BY <2>2, <2>3
<1>9. \A b \in 1..N : r < b => md[w[r]] <= md[w[b]]
  <2> SUFFICES ASSUME NEW b \in 1..N, r < b PROVE md[w[r]] <= md[w[b]]
    OBVIOUS
  <2>1. r + 1 \in 1..N /\ l <= r /\ md[p[l]] <= md[p[r + 1]]
    BY DEF StopsRight
  <2>2. w[b] = p[b]
    BY <2>1, <1>2 DEF Source
  <2>3. md[p[r + 1]] <= md[p[b]]
    <3>1. CASE b = r + 1
      BY <3>1, <1>1, <1>5 DEF IsQueue
    <3>2. CASE r + 1 < b
      BY <3>2, <2>1, <1>3 DEF SortedBut
    <3> QED BY <3>1, <3>2, <2>1
  <2>4. p[l] \in Shards /\ p[r + 1] \in Shards /\ p[b] \in Shards
    BY <2>1, <1>1 DEF IsQueue
  <2> QED BY <2>1, <2>2, <2>3, <2>4, <1>5, <1>6
<1>10. ASSUME NEW a \in 1..N, NEW b \in 1..N, a < b
       PROVE  md[w[a]] <= md[w[b]]
  <2>1. CASE a # r /\ b # r
    BY <2>1, <1>10, <1>4 DEF SortedBut
  <2>2. CASE a = r \/ b = r
    BY <2>2, <1>10, <1>8, <1>9
  <2> QED BY <2>1, <2>2
<1> QED BY <1>10 DEF Sorted

(***************************************************************************)
(* OnDeadlineChanged after min_deadline of one shard was assigned.         *)
(***************************************************************************)
LEMMA ReorderFacts ==
  ASSUME TypeOK, QueueSorted, NEW s \in Shards, NEW d \in Deadlines,
         min_deadline' = [min_deadline EXCEPT ![s] = d], Reorder(s)
  PROVE  shard_queue_' \in [1..N -> Shards] /\ QueueSorted'
<1>1. IsQueue(shard_queue_)
  BY DEF TypeOK, QueueSorted, IsQueue
<1>2. min_deadline' \in [Shards -> Deadlines]
  BY DEF TypeOK
<1>3. PICK i \in 1..N, l \in 1..N, r \in 1..N :
        /\ shard_queue_[i] = s
        /\ StopsLeft(shard_queue_, min_deadline', i, l)
        /\ StopsRight(Carry(shard_queue_, i, l), min_deadline', l, r)
        /\ shard_queue_' = Carry(Carry(shard_queue_, i, l), l, r)
  BY DEF Reorder
<1>4. SortedBut(shard_queue_, min_deadline', i)
  <2> SUFFICES ASSUME NEW a \in 1..N, NEW b \in 1..N, a < b, a # i, b # i
               PROVE  min_deadline'[shard_queue_[a]] <=
                        min_deadline'[shard_queue_[b]]
    BY DEF SortedBut
  <2>1. /\ shard_queue_[a] \in Shards /\ shard_queue_[b] \in Shards
        /\ shard_queue_[a] # s /\ shard_queue_[b] # s
    BY <1>1, <1>3 DEF IsQueue
  <2> QED BY <2>1 DEF QueueSorted, TypeOK
<1>5. IsQueue(Carry(shard_queue_, i, l))
  BY <1>1, CarryFacts
<1>6. IsQueue(shard_queue_')
  BY <1>3, <1>5, CarryFacts
<1>7. Sorted(shard_queue_', min_deadline')
  BY <1>1, <1>2, <1>3, <1>4, LoopsSort
<1> QED BY <1>6, <1>7 DEF IsQueue, Sorted, QueueSorted

-----------------------------------------------------------------------------
(* The actions *)

\* Tick preserves the invariant.
LEMMA TickPreserves ==
  ASSUME IInv, Tick
  PROVE  IInv'
<1> USE TimerAssumption DEF IInv, Tick, timerVars, queueVars, callerVars,
      loopVars, history, wakeVars
<1>1. TypeOK'
  BY DEF TypeOK, Times
<1>2. HeapInv' /\ CallerInv' /\ QueueSorted'
  BY DEF HeapInv, EachStartEndsOnce, CallerInv, QueueSorted
<1>3. MinDeadlineCovers'
  BY DEF MinDeadlineCovers, Bound, Front, InFlight
<1>4. SleepInv'
  BY DEF SleepInv, TypeOK, Times
<1> QED BY <1>1, <1>2, <1>3, <1>4

\* TimerInit preserves the invariant.
LEMMA TimerInitPreserves ==
  ASSUME IInv, NEW c \in Callers, NEW t \in Timers, NEW d \in Timeouts,
         TimerInit(c, t, d)
  PROVE  IInv'
<1> USE TimerAssumption DEF IInv, TimerInit, timerVars, queueVars, loopVars,
      history, wakeVars
<1>1. TypeOK'
  BY DEF TypeOK, Times
<1>2. HeapInv' /\ QueueSorted' /\ SleepInv'
  BY DEF HeapInv, EachStartEndsOnce, QueueSorted, SleepInv
<1>3. CallerInv'
  BY DEF CallerInv, TypeOK
<1>4. MinDeadlineCovers'
  <2>1. \A s \in Shards, e \in Times : InFlight(s, e) => InFlight(s, e)'
    BY DEF InFlight, TypeOK
  <2>2. \A s \in Shards : \A u \in urgent_timers[s] : deadline_[u] \in Times
    BY DEF TypeOK
  <2> QED BY <2>1, <2>2 DEF MinDeadlineCovers, Bound, Front
<1> QED BY <1>1, <1>2, <1>3, <1>4

\* TimerInitAdd preserves the invariant.
LEMMA TimerInitAddPreserves ==
  ASSUME IInv, NEW c \in Callers, TimerInitAdd(c)
  PROVE  IInv'
<1> USE DEF IInv
<1>1. PICK t \in Timers : t = timer[c]
  BY DEF TimerInitAdd, CallerInv
<1>2. PICK s \in Shards : s = ShardOf[t]
  BY TimerAssumption
<1>3. /\ pc[c] = "add"
      /\ deadline_' = [deadline_ EXCEPT ![t] = deadline[c]]
      /\ pending_' = [pending_ EXCEPT ![t] = TRUE]
      /\ is_first' = [is_first EXCEPT ![c] = AddIsFirst(s, deadline[c])]
      /\ urgent_timers' = [urgent_timers EXCEPT ![s] = @ \cup {t}]
      /\ armed' = [armed EXCEPT ![t] = @ + 1]
      /\ pc' = [pc EXCEPT ![c] = "publish"]
      /\ UNCHANGED <<now, queueVars, timer, deadline, loopVars, wakeVars,
                     posted, canceled>>
  BY <1>1, <1>2 DEF TimerInitAdd
<1> USE <1>3 DEF queueVars, loopVars, wakeVars
<1>4. ~pending_[t] /\ armed[t] < MaxArms
  BY <1>1 DEF CallerInv
<1>5. \A x \in Shards : t \notin urgent_timers[x]
  BY <1>4 DEF HeapInv, EachStartEndsOnce
<1>6. TypeOK'
  <2>1. AddIsFirst(s, deadline[c]) \in BOOLEAN
    BY DEF AddIsFirst
  <2>2. armed' \in [Timers -> 0..MaxArms]
    BY <1>4, TimerAssumption DEF TypeOK
  <2> QED BY <2>1, <2>2 DEF TypeOK
<1>7. HeapInv'
  BY <1>2, <1>4, <1>5 DEF HeapInv, EachStartEndsOnce, TypeOK
<1>8. CallerInv'
  BY <1>1 DEF CallerInv, TypeOK
<1>9. QueueSorted' /\ SleepInv'
  BY DEF QueueSorted, SleepInv
<1>10. MinDeadlineCovers'
  <2>1. \A x \in Shards : Bound(x)' = Bound(x)
    BY DEF Bound, Front
  <2>2. \A x \in Shards, e \in Times : InFlight(x, e) => InFlight(x, e)'
    BY DEF InFlight, TypeOK
  <2>3. ASSUME NEW x \in Shards, NEW u \in urgent_timers[x]
        PROVE  (Bound(x) <= deadline_[u] \/ InFlight(x, deadline_[u]))'
    <3>1. u \in Timers /\ u # t /\ deadline_[u] \in Times
      BY <1>5 DEF TypeOK
    <3>2. deadline_'[u] = deadline_[u]
      BY <3>1 DEF TypeOK
    <3>3. PICK e \in Times : e = deadline_[u]
      BY <3>1
    <3>4. Bound(x) <= e \/ InFlight(x, e)
      BY <3>3 DEF MinDeadlineCovers
    <3>5. Bound(x)' <= e \/ InFlight(x, e)'
      BY <3>4, <2>1, <2>2
    <3> QED BY <3>2, <3>3, <3>5
  <2>4. deadline_'[t] = deadline[c] /\ deadline[c] \in Times
    BY DEF TypeOK
  <2>5. CASE AddIsFirst(s, deadline[c])
    <3>1. /\ pc'[c] = "publish" /\ is_first'[c] /\ timer'[c] = t
          /\ deadline'[c] = deadline[c]
      BY <2>5, <1>1 DEF TypeOK
    <3>2. (InFlight(s, deadline_[t]))'
      BY <3>1, <2>4, <1>2 DEF InFlight, Times
    <3>3. \A x \in Shards : urgent_timers'[x] =
            IF x = s THEN urgent_timers[x] \cup {t} ELSE urgent_timers[x]
      BY DEF TypeOK
    <3> QED BY <3>2, <3>3, <2>3 DEF MinDeadlineCovers
  <2>6. CASE ~AddIsFirst(s, deadline[c])
    <3>1. PICK u \in urgent_timers[s] : ~(deadline[c] < deadline_[u])
      BY <2>6 DEF AddIsFirst
    <3>2. u \in Timers /\ deadline_[u] \in Times /\ deadline_[u] <= deadline[c]
      BY <3>1, <2>4 DEF TypeOK, Times
    <3>3. Bound(s) <= deadline_[u] \/ InFlight(s, deadline_[u])
      BY <3>1 DEF MinDeadlineCovers
    <3>4. InFlight(s, deadline_[u]) => InFlight(s, deadline[c])
      BY <3>2, <2>4 DEF InFlight, TypeOK, Times
    <3>5. Bound(s) \in Int
      BY TimerAssumption DEF Bound, TypeOK, Deadlines, Times
    <3>6. Bound(s) <= deadline[c] \/ InFlight(s, deadline[c])
      BY <3>2, <3>3, <3>4, <3>5, <2>4 DEF Times
    <3> QED BY <3>6, <2>1, <2>2, <2>3, <2>4 DEF MinDeadlineCovers, TypeOK
  <2> QED BY <2>5, <2>6
<1> QED BY <1>6, <1>7, <1>8, <1>9, <1>10

\* TimerInitPublish preserves the invariant.
LEMMA TimerInitPublishPreserves ==
  ASSUME IInv, NEW c \in Callers, TimerInitPublish(c)
  PROVE  IInv'
<1> USE DEF IInv
<1>1. PICK s \in Shards : s = ShardOf[timer[c]]
  BY TimerAssumption DEF TimerInitPublish, CallerInv
<1>2. /\ pc[c] = "publish"
      /\ loop # "store"
      /\ pc' = [pc EXCEPT ![c] = "idle"]
      /\ timer' = [timer EXCEPT ![c] = NoTimer]
      /\ is_first' = [is_first EXCEPT ![c] = FALSE]
      /\ deadline' = [deadline EXCEPT ![c] = 0]
      /\ UNCHANGED <<now, timerVars, loopVars, history>>
  BY DEF TimerInitPublish, MutexFree, Checking
<1> USE <1>2 DEF timerVars, loopVars, history
<1>3. HeapInv' /\ CallerInv'
  BY DEF HeapInv, EachStartEndsOnce, CallerInv, TypeOK
<1>4. \A x \in Shards, e \in Times :
        InFlight(x, e) =>
          \/ InFlight(x, e)'
          \/ x = s /\ is_first[c] /\ deadline[c] <= e
  BY <1>1 DEF InFlight, TypeOK
<1>5. CASE is_first[c] /\ deadline[c] < min_deadline[s]
  <2>1. /\ min_deadline' = [min_deadline EXCEPT ![s] = deadline[c]]
        /\ Reorder(s)
        /\ wakeup' = TRUE /\ UNCHANGED <<drains, swallowed>>
    BY <1>1, <1>5 DEF TimerInitPublish, OnDeadlineChanged
  <2>2. deadline[c] \in Deadlines /\ deadline[c] \in Int
    BY DEF TypeOK, Deadlines, Times
  <2>3. shard_queue_' \in [1..N -> Shards] /\ QueueSorted'
    BY <2>1, <2>2, ReorderFacts
  <2>4. TypeOK'
    BY <2>1, <2>2, <2>3, TimerAssumption DEF TypeOK, Times
  <2>5. SleepInv'
    BY <2>1 DEF SleepInv
  <2>6. \A x \in Shards : min_deadline'[x] <= min_deadline[x]
    <3> SUFFICES ASSUME NEW x \in Shards
                 PROVE  min_deadline'[x] <= min_deadline[x]
      OBVIOUS
    <3>1. min_deadline[x] \in Int /\ min_deadline[s] \in Int
      BY TimerAssumption DEF TypeOK, Deadlines, Times
    <3>2. min_deadline'[x] = IF x = s THEN deadline[c] ELSE min_deadline[x]
      BY <2>1 DEF TypeOK
    <3>3. deadline[c] <= min_deadline[s]
      BY <1>5, <2>2, <3>1
    <3> QED BY <3>1, <3>2, <3>3
  <2>7. ASSUME NEW x \in Shards, NEW u \in urgent_timers[x]
        PROVE  (Bound(x) <= deadline_[u] \/ InFlight(x, deadline_[u]))'
    <3>1. PICK e \in Times : e = deadline_[u]
      BY DEF TypeOK
    <3>2. min_deadline[x] <= e \/ InFlight(x, e)
      BY <3>1 DEF MinDeadlineCovers, Bound
    <3>3. min_deadline'[x] \in Int /\ min_deadline[x] \in Int
      BY <2>4, TimerAssumption DEF TypeOK, Deadlines, Times
    <3>4. min_deadline'[s] = deadline[c]
      BY <2>1 DEF TypeOK
    <3>5. min_deadline'[x] <= e \/ InFlight(x, e)'
      BY <3>2, <3>3, <3>4, <2>2, <2>6, <1>4 DEF Times
    <3> QED BY <3>1, <3>5 DEF Bound
  <2>8. MinDeadlineCovers'
    BY <2>7 DEF MinDeadlineCovers
  <2> QED BY <1>3, <2>3, <2>4, <2>5, <2>8
<1>6. CASE ~(is_first[c] /\ deadline[c] < min_deadline[s])
  <2>1. UNCHANGED <<queueVars, wakeVars>>
    BY <1>1, <1>6 DEF TimerInitPublish
  <2> USE <2>1 DEF queueVars, wakeVars
  <2>2. TypeOK'
    BY TimerAssumption DEF TypeOK, Times
  <2>3. QueueSorted' /\ SleepInv'
    BY DEF QueueSorted, SleepInv
  <2>4. ASSUME NEW x \in Shards, NEW u \in urgent_timers[x]
        PROVE  (Bound(x) <= deadline_[u] \/ InFlight(x, deadline_[u]))'
    <3>1. PICK e \in Times : e = deadline_[u]
      BY DEF TypeOK
    <3>2. min_deadline[x] <= e \/ InFlight(x, e)
      BY <3>1 DEF MinDeadlineCovers, Bound
    <3>3. min_deadline[x] \in Int /\ min_deadline[s] \in Int /\ deadline[c] \in Int
      BY TimerAssumption DEF TypeOK, Deadlines, Times
    <3>4. min_deadline[x] <= e \/ InFlight(x, e)'
      BY <3>2, <3>3, <1>4, <1>6 DEF Times
    <3> QED BY <3>1, <3>4 DEF Bound
  <2>5. MinDeadlineCovers'
    BY <2>4 DEF MinDeadlineCovers
  <2> QED BY <1>3, <2>2, <2>3, <2>5
<1> QED BY <1>5, <1>6

\* TimerCancel preserves the invariant.
LEMMA TimerCancelPreserves ==
  ASSUME IInv, NEW c \in Callers, NEW t \in Timers, TimerCancel(c, t)
  PROVE  IInv'
<1> USE TimerAssumption DEF IInv, TimerCancel, MayCancel, queueVars, loopVars,
      callerVars, wakeVars
<1>1. TypeOK'
  <2>1. canceled[t] + 1 \in 0..MaxArms
    BY DEF TypeOK, HeapInv, EachStartEndsOnce
  <2>2. canceled' \in [Timers -> 0..MaxArms]
    BY <2>1 DEF TypeOK
  <2> QED BY <2>2 DEF TypeOK
<1>2. HeapInv'
  <2>1. \A s \in Shards : urgent_timers'[s] =
          IF s = ShardOf[t] THEN urgent_timers[s] \ {t} ELSE urgent_timers[s]
    BY DEF TypeOK
  <2>2. \A s \in Shards : \A u \in urgent_timers'[s] : ShardOf[u] = s
    BY <2>1 DEF HeapInv
  <2>3. ASSUME NEW u \in Timers
        PROVE  /\ pending_'[u] <=> u \in urgent_timers'[ShardOf[u]]
               /\ armed[u] = posted[u] + canceled'[u]
                             + (IF pending_'[u] THEN 1 ELSE 0)
    <3>1. ShardOf[u] \in Shards
      OBVIOUS
    <3>2. /\ pending_[u] <=> u \in urgent_timers[ShardOf[u]]
          /\ armed[u] = posted[u] + canceled[u] + (IF pending_[u] THEN 1 ELSE 0)
      BY DEF HeapInv, EachStartEndsOnce
    <3>3. posted[u] \in Int /\ canceled[u] \in Int
      BY DEF TypeOK
    <3>4. CASE u = t
      <4>1. pending_[u] /\ ~pending_'[u] /\ canceled'[u] = canceled[u] + 1
        BY <3>4 DEF TypeOK
      <4>2. u \notin urgent_timers'[ShardOf[u]]
        BY <2>1, <3>1, <3>4
      <4> QED BY <3>2, <3>3, <4>1, <4>2
    <3>5. CASE u # t
      <4>1. pending_'[u] = pending_[u] /\ canceled'[u] = canceled[u]
        BY <3>5 DEF TypeOK
      <4>2. u \in urgent_timers'[ShardOf[u]] <=> u \in urgent_timers[ShardOf[u]]
        BY <2>1, <3>1, <3>5
      <4> QED BY <3>2, <4>1, <4>2
    <3> QED BY <3>4, <3>5
  <2> QED BY <2>2, <2>3 DEF HeapInv, EachStartEndsOnce
<1>3. CallerInv' /\ QueueSorted' /\ SleepInv'
  BY DEF CallerInv, QueueSorted, SleepInv, TypeOK
<1>4. MinDeadlineCovers'
  <2>1. \A s \in Shards : urgent_timers'[s] \subseteq urgent_timers[s]
    BY DEF TypeOK
  <2> QED BY <2>1 DEF MinDeadlineCovers, Bound, Front, InFlight
<1> QED BY <1>1, <1>2, <1>3, <1>4

\* TimerCheck preserves the invariant.
LEMMA TimerCheckPreserves ==
  ASSUME IInv, TimerCheck
  PROVE  IInv'
<1> USE TimerAssumption DEF IInv, TimerCheck, timerVars, queueVars, callerVars,
      history, wakeVars
<1>1. TypeOK' /\ SleepInv'
  BY DEF TypeOK, SleepInv, Times
<1>2. HeapInv' /\ CallerInv' /\ QueueSorted'
  BY DEF HeapInv, EachStartEndsOnce, CallerInv, QueueSorted
<1>3. MinDeadlineCovers'
  BY DEF MinDeadlineCovers, Bound, Front, InFlight
<1> QED BY <1>1, <1>2, <1>3

\* PopTimers preserves the invariant.
LEMMA PopTimersPreserves ==
  ASSUME IInv, PopTimers
  PROVE  IInv'
<1> USE DEF IInv
<1> DEFINE due  == Expired(Front)
           rest == urgent_timers[Front] \ due
<1>1. /\ loop = "while"
      /\ pending_' = [t \in Timers |-> pending_[t] /\ t \notin due]
      /\ urgent_timers' = [urgent_timers EXCEPT ![Front] = rest]
      /\ posted' = [t \in Timers |-> IF t \in due THEN posted[t] + 1
                                                  ELSE posted[t]]
      /\ new_min' \in Deadlines
      /\ IsMinDeadline(new_min', rest)
      /\ loop' = "store"
      /\ UNCHANGED <<now, deadline_, queueVars, callerVars, check_now, timeout,
                     poll_start, wakeVars, armed, canceled>>
  BY DEF PopTimers
<1> USE <1>1 DEF queueVars, callerVars, wakeVars
<1>2. Front \in Shards /\ Front' = Front
  BY NIsNat DEF Front, TypeOK
<1>3. due \subseteq urgent_timers[Front] /\ due \subseteq Timers
  BY <1>2 DEF Expired, TypeOK
<1>4. \A t \in due : pending_[t] /\ ShardOf[t] = Front
  BY <1>2, <1>3 DEF HeapInv, EachStartEndsOnce
<1> HIDE DEF due
<1>5. \A s \in Shards : urgent_timers'[s] = urgent_timers[s] \ due
  <2> SUFFICES ASSUME NEW s \in Shards
               PROVE  urgent_timers'[s] = urgent_timers[s] \ due
    OBVIOUS
  <2>1. CASE s = Front
    BY <2>1, <1>2 DEF TypeOK
  <2>2. CASE s # Front
    <3>1. urgent_timers'[s] = urgent_timers[s]
      BY <2>2, <1>2 DEF TypeOK
    <3>2. \A t \in urgent_timers[s] : t \notin due
      BY <2>2, <1>4 DEF HeapInv
    <3> QED BY <3>1, <3>2
  <2> QED BY <2>1, <2>2
<1>6. TypeOK'
  <2>1. \A t \in due : posted[t] + 1 \in 0..MaxArms
    BY <1>3, <1>4, TimerAssumption DEF HeapInv, EachStartEndsOnce, TypeOK
  <2>2. posted' \in [Timers -> 0..MaxArms]
    BY <2>1 DEF TypeOK
  <2>3. pending_' \in [Timers -> BOOLEAN]
    OBVIOUS
  <2>4. urgent_timers' \in [Shards -> SUBSET Timers]
    BY <1>2 DEF TypeOK
  <2> QED BY <2>2, <2>3, <2>4 DEF TypeOK
<1>7. HeapInv'
  <2>1. \A s \in Shards : \A t \in urgent_timers'[s] : ShardOf[t] = s
    BY <1>5 DEF HeapInv
  <2>2. ASSUME NEW t \in Timers
        PROVE  /\ pending_'[t] <=> t \in urgent_timers'[ShardOf[t]]
               /\ armed[t] = posted'[t] + canceled[t]
                             + (IF pending_'[t] THEN 1 ELSE 0)
    <3>1. pending_[t] <=> t \in urgent_timers[ShardOf[t]]
      BY DEF HeapInv, EachStartEndsOnce
    <3>2. ShardOf[t] \in Shards
      BY TimerAssumption
    <3>3. pending_'[t] <=> t \in urgent_timers'[ShardOf[t]]
      BY <3>1, <3>2, <1>5
    <3>4. CASE t \in due
      <4>1. pending_[t] /\ ~pending_'[t] /\ posted'[t] = posted[t] + 1
        BY <3>4, <1>4
      <4>2. armed[t] = posted[t] + canceled[t] + 1
        BY <4>1 DEF HeapInv, EachStartEndsOnce
      <4>3. posted[t] \in Int /\ canceled[t] \in Int
        BY DEF TypeOK
      <4> QED BY <3>3, <4>1, <4>2, <4>3
    <3>5. CASE t \notin due
      BY <3>5 DEF HeapInv, EachStartEndsOnce, TypeOK
    <3> QED BY <3>3, <3>4, <3>5
  <2> QED BY <2>1, <2>2 DEF HeapInv, EachStartEndsOnce
<1>8. CallerInv'
  BY DEF CallerInv
<1>9. QueueSorted' /\ SleepInv'
  BY DEF QueueSorted, SleepInv
<1>10. MinDeadlineCovers'
  <2> SUFFICES ASSUME NEW s \in Shards, NEW t \in urgent_timers'[s]
               PROVE  (Bound(s) <= deadline_[t] \/ InFlight(s, deadline_[t]))'
    BY DEF MinDeadlineCovers
  <2>1. CASE s = Front
    <3>1. Bound(s)' = new_min'
      BY <2>1, <1>2 DEF Bound
    <3>2. t \in rest
      BY <2>1, <1>2 DEF TypeOK
    <3>3. new_min' <= deadline_[t]
      BY <3>2 DEF IsMinDeadline
    <3> QED BY <3>1, <3>3
  <2>2. CASE s # Front
    <3>1. Bound(s)' = min_deadline[s] /\ Bound(s) = min_deadline[s]
      BY <2>2, <1>2 DEF Bound
    <3>2. t \in urgent_timers[s]
      BY <1>5
    <3> QED BY <3>1, <3>2 DEF MinDeadlineCovers, InFlight
  <2> QED BY <2>1, <2>2
<1> QED BY <1>6, <1>7, <1>8, <1>9, <1>10

\* TimerCheckStore preserves the invariant.
LEMMA TimerCheckStorePreserves ==
  ASSUME IInv, TimerCheckStore
  PROVE  IInv'
<1> USE DEF IInv
<1>1. PICK f \in Shards : f = Front
  BY NIsNat DEF Front, TypeOK
<1>2. /\ loop = "store" /\ loop' = "while"
      /\ min_deadline' = [min_deadline EXCEPT ![f] = new_min]
      /\ Reorder(f)
      /\ wakeup' = TRUE /\ UNCHANGED <<drains, swallowed>>
      /\ new_min' = Infinite
      /\ UNCHANGED <<now, timerVars, callerVars, check_now, timeout, poll_start,
                     history>>
  BY <1>1 DEF TimerCheckStore, OnDeadlineChanged
<1> USE <1>2 DEF timerVars, callerVars, history
<1>3. new_min \in Deadlines
  BY DEF TypeOK
<1>4. shard_queue_' \in [1..N -> Shards] /\ QueueSorted'
  BY <1>3, ReorderFacts
<1>5. TypeOK'
  BY <1>3, <1>4 DEF TypeOK, Deadlines
<1>6. HeapInv' /\ CallerInv' /\ SleepInv'
  BY DEF HeapInv, EachStartEndsOnce, CallerInv, SleepInv
<1>7. MinDeadlineCovers'
  <2>1. \A s \in Shards : Bound(s)' = Bound(s)
    BY <1>1 DEF Bound, TypeOK
  <2> QED BY <2>1 DEF MinDeadlineCovers, InFlight
<1> QED BY <1>4, <1>5, <1>6, <1>7

\* The front shard of a sorted queue is the earliest.
LEMMA FrontIsEarliest ==
  ASSUME TypeOK, QueueSorted, NEW s \in Shards
  PROVE  Front \in Shards /\ min_deadline[Front] <= min_deadline[s]
<1>1. 1 \in 1..N
  BY NIsNat
<1>2. Front \in Shards
  BY <1>1 DEF Front, TypeOK
<1>3. PICK i \in 1..N : shard_queue_[i] = s
  BY DEF QueueSorted
<1>4. CASE i = 1
  <2>1. min_deadline[s] \in Int
    BY TimerAssumption DEF TypeOK, Deadlines, Times
  <2> QED BY <1>2, <1>3, <1>4, <2>1 DEF Front
<1>5. CASE i # 1
  <2>1. 1 < i
    BY <1>5, NIsNat
  <2> QED BY <1>1, <1>2, <1>3, <2>1 DEF Front, QueueSorted
<1> QED BY <1>4, <1>5

\* TimerCheckReturn preserves the invariant.
LEMMA TimerCheckReturnPreserves ==
  ASSUME IInv, TimerCheckReturn
  PROVE  IInv'
<1> USE DEF IInv, TimerCheckReturn, timerVars, queueVars, callerVars, history,
      wakeVars
<1>1. PICK f \in Shards : f = Front
  BY NIsNat DEF Front, TypeOK
<1>2. /\ min_deadline[f] \in Deadlines
      /\ check_now \in Times
      /\ ~(min_deadline[f] <= check_now)
      /\ timeout' = IF min_deadline[f] = Infinite THEN Infinite
                                                 ELSE min_deadline[f] - check_now
  BY <1>1 DEF FrontDue, TypeOK
<1>3. timeout' \in Deadlines
  BY <1>2, TimerAssumption DEF Deadlines, Times
<1>4. TypeOK'
  BY <1>3 DEF TypeOK
<1>5. HeapInv' /\ CallerInv' /\ QueueSorted'
  BY DEF HeapInv, EachStartEndsOnce, CallerInv, QueueSorted
<1>6. MinDeadlineCovers'
  BY DEF MinDeadlineCovers, Bound, Front, InFlight
<1>7. ASSUME NEW s \in Shards
      PROVE  IF timeout' = Infinite
               THEN min_deadline[s] = Infinite
               ELSE timeout' > 0 /\ check_now + timeout' <= min_deadline[s]
  <2>1. min_deadline[f] <= min_deadline[s]
    BY <1>1, FrontIsEarliest
  <2>2. min_deadline[s] \in Deadlines
    BY DEF TypeOK
  <2> QED BY <1>2, <2>1, <2>2, TimerAssumption DEF Deadlines, Times
<1>8. SleepInv'
  BY <1>7 DEF SleepInv
<1> QED BY <1>4, <1>5, <1>6, <1>8

\* Poll preserves the invariant.
LEMMA PollPreserves ==
  ASSUME IInv, Poll
  PROVE  IInv'
<1> USE DEF IInv, Poll, timerVars, queueVars, callerVars, history, wakeVars
<1>1. TypeOK' /\ SleepInv'
  BY DEF TypeOK, SleepInv
<1>2. HeapInv' /\ CallerInv' /\ QueueSorted'
  BY DEF HeapInv, EachStartEndsOnce, CallerInv, QueueSorted
<1>3. MinDeadlineCovers'
  BY DEF MinDeadlineCovers, Bound, Front, InFlight
<1> QED BY <1>1, <1>2, <1>3

\* PollReturn preserves the invariant.
LEMMA PollReturnPreserves ==
  ASSUME IInv, PollReturn \/ PollOtherEvent
  PROVE  IInv'
<1> USE TimerAssumption DEF IInv, timerVars, queueVars, callerVars, history
<1>1. /\ loop = "polling" /\ loop' = "check"
      /\ check_now' = 0 /\ timeout' = Infinite /\ poll_start' = 0
      /\ wakeup' \in {FALSE, wakeup} /\ drains' \in 0..MaxDrains
      /\ swallowed' = FALSE
      /\ UNCHANGED <<now, timerVars, queueVars, callerVars, new_min, history>>
  <2>1. drains \in 0..MaxDrains
    BY DEF TypeOK
  <2>2. CASE PollReturn
    <3>1. drains' \in 0..MaxDrains
      <4>1. CASE wakeup
        <5>1. drains' = drains + 1 /\ drains < MaxDrains
          BY <2>2, <4>1 DEF PollReturn
        <5> QED BY <5>1, <2>1
      <4>2. CASE ~wakeup
        BY <2>1, <2>2, <4>2 DEF PollReturn
      <4> QED BY <4>1, <4>2
    <3> QED BY <2>2, <3>1 DEF PollReturn, LoopRound
  <2>3. CASE PollOtherEvent
    BY <2>1, <2>3 DEF PollOtherEvent, LoopRound
  <2> QED BY <2>2, <2>3
<1> USE <1>1
<1>2. TypeOK'
  <2>1. wakeup' \in BOOLEAN
    BY DEF TypeOK
  <2>2. 0 \in Times /\ Infinite \in Deadlines
    BY DEF Times, Deadlines
  <2> QED BY <2>1, <2>2 DEF TypeOK
<1>3. SleepInv'
  BY DEF SleepInv, TypeOK, Times
<1>4. HeapInv' /\ CallerInv' /\ QueueSorted'
  BY DEF HeapInv, EachStartEndsOnce, CallerInv, QueueSorted
<1>5. MinDeadlineCovers'
  BY DEF MinDeadlineCovers, Bound, Front, InFlight
<1> QED BY <1>2, <1>3, <1>4, <1>5

\* Drain preserves the invariant.
LEMMA DrainPreserves ==
  ASSUME IInv, Drain
  PROVE  IInv'
<1> USE TimerAssumption DEF IInv, Drain, timerVars, queueVars, callerVars,
      loopVars, history
<1>1. TypeOK'
  <2>1. drains' \in 0..MaxDrains
    BY DEF TypeOK
  <2>2. swallowed' \in BOOLEAN
    OBVIOUS
  <2> QED BY <2>1, <2>2 DEF TypeOK
<1>2. loop \in {"poll", "polling"} /\ ~swallowed' => ~wakeup /\ ~swallowed
  OBVIOUS
<1>3. SleepInv'
  BY <1>2 DEF SleepInv
<1>4. HeapInv' /\ CallerInv' /\ QueueSorted'
  BY DEF HeapInv, EachStartEndsOnce, CallerInv, QueueSorted
<1>5. MinDeadlineCovers'
  BY DEF MinDeadlineCovers, Bound, Front, InFlight
<1> QED BY <1>1, <1>3, <1>4, <1>5

\* A stuttering step preserves the invariant.
LEMMA StutterPreserves ==
  ASSUME IInv, UNCHANGED vars
  PROVE  IInv'
<1> USE DEF IInv, vars, timerVars, queueVars, callerVars, loopVars,
      history, wakeVars
<1>1. TypeOK' /\ SleepInv'
  BY DEF TypeOK, SleepInv
<1>2. HeapInv' /\ CallerInv' /\ QueueSorted'
  BY DEF HeapInv, EachStartEndsOnce, CallerInv, QueueSorted
<1>3. MinDeadlineCovers'
  BY DEF MinDeadlineCovers, Bound, Front, InFlight
<1> QED BY <1>1, <1>2, <1>3

-----------------------------------------------------------------------------
(* The theorems *)

\* The constructor (timer_manager.cc) leaves the invariant established.
LEMMA InitEstablishes ==
  ASSUME Init
  PROVE  IInv
<1> USE TimerAssumption DEF Init
<1>1. TypeOK
  <2>1. 0 \in Times /\ 0 \in 0..MaxArms /\ 0 \in 0..MaxDrains /\ Infinite \in Deadlines
    BY DEF Times, Deadlines
  <2>2. shard_queue_ \in [1..N -> Shards]
    OBVIOUS
  <2> QED BY <2>1, <2>2 DEF TypeOK
<1>2. HeapInv /\ CallerInv
  BY DEF HeapInv, EachStartEndsOnce, CallerInv
<1>3. MinDeadlineCovers
  BY DEF MinDeadlineCovers
<1>4. QueueSorted
  <2>1. \A i \in 1..N : shard_queue_[i] \in Shards
    OBVIOUS
  <2> QED BY <2>1 DEF QueueSorted
<1>5. SleepInv
  BY DEF SleepInv
<1> QED BY <1>1, <1>2, <1>3, <1>4, <1>5 DEF IInv

\* No step of a caller, of the poll thread or of a worker breaks the invariant.
LEMMA NextPreserves ==
  ASSUME IInv, Next
  PROVE  IInv'
<1>1. CASE Tick
  BY <1>1, TickPreserves
<1>2. ASSUME NEW c \in Callers, NEW t \in Timers, NEW d \in Timeouts,
             TimerInit(c, t, d)
      PROVE  IInv'
  BY <1>2, TimerInitPreserves
<1>3. ASSUME NEW c \in Callers, InitStep(c)
      PROVE  IInv'
  BY <1>3, TimerInitAddPreserves, TimerInitPublishPreserves DEF InitStep
<1>4. ASSUME NEW c \in Callers, NEW t \in Timers, TimerCancel(c, t)
      PROVE  IInv'
  BY <1>4, TimerCancelPreserves
<1>5. CASE RunLoop
  BY <1>5, TimerCheckPreserves, PopTimersPreserves, TimerCheckStorePreserves,
     TimerCheckReturnPreserves, PollPreserves, PollReturnPreserves DEF RunLoop
<1>6. CASE PollOtherEvent
  BY <1>6, PollReturnPreserves
<1>7. CASE Drain
  BY <1>7, DrainPreserves
<1> QED BY <1>1, <1>2, <1>3, <1>4, <1>5, <1>6, <1>7 DEF Next

\* The inductive invariant of TimerManager holds in every state.
THEOREM Invariance == Spec => []IInv
<1>1. Init => IInv
  BY InitEstablishes
<1>2. IInv /\ [Next]_vars => IInv'
  BY NextPreserves, StutterPreserves
<1> QED BY <1>1, <1>2, PTL DEF Spec

\* Every variable of TimerManager keeps its type.
THEOREM TypeCorrect == Spec => []TypeOK
<1>1. IInv => TypeOK
  BY DEF IInv
<1> QED BY <1>1, Invariance, PTL

\* The min_deadline of a shard is no later than its timers, except in the window
\* between the two mutexes of TimerInit.
THEOREM MinimumCovers == Spec => []MinDeadlineCovers
<1>1. IInv => MinDeadlineCovers
  BY DEF IInv
<1> QED BY <1>1, Invariance, PTL

\* shard_queue_ stays a sorted permutation of the shards whatever the order of
\* TimerInit and TimerCheck.
THEOREM QueueStaysSorted == Spec => []QueueSorted
<1>1. IInv => QueueSorted
  BY DEF IInv
<1> QED BY <1>1, Invariance, PTL

\* Every Timer::Start ends once: posted by PopTimers, cancelled, or still pending.
THEOREM StartsEndOnce == Spec => []EachStartEndsOnce
<1>1. IInv => EachStartEndsOnce
  BY DEF IInv, HeapInv
<1> QED BY <1>1, Invariance, PTL

\* IOManager::Run does not sleep past a published deadline by a millisecond or
\* more unless its wakeup was swallowed.
THEOREM PollerInTime == Spec => []NoOversleep
<1>1. ASSUME IInv PROVE NoOversleep
  <2> SUFFICES ASSUME loop \in {"poll", "polling"}, ~wakeup, ~swallowed,
                      NEW s \in Shards, NEW t \in urgent_timers[s],
                      ~InFlight(s, deadline_[t])
               PROVE  /\ timeout # Infinite
                      /\ check_now + PollTimeout(timeout) < deadline_[t] + Ms
                      /\ check_now < deadline_[t]
    BY DEF NoOversleep
  <2>1. /\ deadline_[t] \in Times /\ check_now \in Times
        /\ timeout \in Deadlines /\ min_deadline[s] \in Deadlines
    BY <1>1 DEF IInv, TypeOK
  <2>2. min_deadline[s] <= deadline_[t]
    BY <1>1 DEF IInv, MinDeadlineCovers, Bound
  <2>3. IF timeout = Infinite
          THEN min_deadline[s] = Infinite
          ELSE timeout > 0 /\ check_now + timeout <= min_deadline[s]
    BY <1>1 DEF IInv, SleepInv
  <2>4. timeout # Infinite
    BY <2>1, <2>2, <2>3, TimerAssumption DEF Times
  <2>5. timeout \in Nat /\ timeout > 0 /\ check_now + timeout <= deadline_[t]
    BY <2>1, <2>2, <2>3, <2>4, TimerAssumption DEF Times, Deadlines
  <2>6. PollTimeout(timeout) \in Nat /\ PollTimeout(timeout) < timeout + Ms
    BY <2>5, PollTimeoutBound
  <2> QED BY <2>1, <2>4, <2>5, <2>6, TimerAssumption DEF Times
<1> QED BY <1>1, Invariance, PTL

(***************************************************************************)
(* Only PopTimers gives a closure to the task runner, and only that of a   *)
(* pending timer whose deadline the clock has reached.                     *)
(***************************************************************************)
THEOREM NotBeforeDeadline == Spec => NeverEarly
<1> DEFINE InTime == \A t \in Timers : posted'[t] # posted[t] =>
                       pending_[t] /\ deadline_[t] <= now
<1>1. ASSUME IInv, PopTimers PROVE InTime
  <2> SUFFICES ASSUME NEW t \in Timers, posted'[t] # posted[t]
               PROVE  pending_[t] /\ deadline_[t] <= now
    OBVIOUS
  <2>1. t \in Expired(Front)
    BY <1>1 DEF PopTimers
  <2>2. Front \in Shards
    BY <1>1, NIsNat DEF IInv, TypeOK, Front
  <2>3. t \in urgent_timers[Front] /\ deadline_[t] <= check_now
    BY <2>1 DEF Expired
  <2>4. pending_[t]
    BY <1>1, <2>2, <2>3 DEF IInv, HeapInv, EachStartEndsOnce
  <2>5. deadline_[t] \in Int /\ check_now \in Int /\ now \in Int
    BY <1>1 DEF IInv, TypeOK, Times
  <2> QED BY <1>1, <2>3, <2>4, <2>5 DEF IInv, SleepInv
<1>2. ASSUME IInv, [Next]_vars PROVE [InTime]_vars
  <2>1. CASE PopTimers
    BY <1>1, <1>2, <2>1
  <2>2. CASE UNCHANGED vars
    BY <2>2
  <2>3. CASE ~PopTimers /\ Next
    <3>1. posted' = posted
      BY <2>3 DEF Next, RunLoop, InitStep, Tick, TimerInit, TimerInitAdd,
         TimerInitPublish, TimerCancel, TimerCheck, TimerCheckStore,
         TimerCheckReturn, Poll, PollReturn, PollOtherEvent, Drain, LoopRound, history
    <3> QED BY <3>1
  <2> QED BY <1>2, <2>1, <2>2, <2>3
<1>3. IInv /\ [Next]_vars => [InTime]_vars
  BY <1>2
<1> QED BY <1>3, Invariance, PTL DEF Spec, NeverEarly
=============================================================================
