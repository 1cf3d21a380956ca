----------------------------- MODULE TCPClient -----------------------------
(***************************************************************************)
(* One TCPClientImpl (io/tcp_client_impl.cc): the application starts       *)
(* operations, the workers of the task runner call OnFileReadable,         *)
(* OnFileWritable and OnConnectTimeout, and those call the application     *)
(* back, which may start the next operation, disconnect or destroy the     *)
(* client from the callback.                                               *)
(*                                                                         *)
(* No lock protects the client, so a step is what one thread does up to    *)
(* the next access that another thread can see.  What the client can rely  *)
(* on from IOManager is external: a HandleIO task is posted for every      *)
(* event, whether or not an earlier one has started; a controller has the  *)
(* handle of the last one only, so StopWatching cancels that one if it has *)
(* not started, and neither cancels the others nor waits for one that      *)
(* runs.  The behaviours that no unit test provokes are not excluded but   *)
(* recorded in mishap.                                                     *)
(***************************************************************************)
EXTENDS Integers, FiniteSets

CONSTANTS
  App,        \* the application's thread
  Workers,    \* threads of the task runner
  Limit,      \* bound: operations of each kind that become pending
  MaxChunks,  \* bound: pieces of data the peer sends
  Builds      \* "debug", where a DCHECK that fails ends the process, "release"

\* "ready" is ReadIfReady.
Kinds == {"connect", "read", "ready", "write"}
\* The IOWatcher::Controllers of the client.
Watches == {"connect", "read", "write"}
Threads == {App} \cup Workers
\* What a call of Read or ReadIfReady is doing, see Store.
Reads == {"read", "read2", "ready"}

\* RetryRead bound as a callback; operations are numbered from 1, 0 is none.
Retry == -1

Mishaps == {"early", "twice", "again", "timeout", "stopped", "stale"}

\* What the DCHECKs that no operation is pending say in their comments.
Dchecks == {"no read pending", "No writing pending"}

ASSUME TCPAssumption ==
  /\ App \notin Workers /\ IsFiniteSet(Workers)
  /\ Limit \in Nat \ {0} /\ MaxChunks \in Nat /\ Builds \subseteq {"debug", "release"}

VARIABLES
  socket_fd_, connect_state_,
  callback,   \* connect_callback_, read_callback_, read_if_ready_callback_ and
              \* write_callback_
  timer,      \* connect_timeout_controller_: pending, or its closure posted
  watching,   \* the controllers that are registered
  armed,      \* kernel: the controllers epoll_wait has an event for
  posted,     \* the controllers whose task_ is a HandleIO task not started
  loose,      \* HandleIO tasks not started whose handle was overwritten
  call,       \* the operation each thread is in: what it has left to store
  at,         \* where the handler that a worker runs is
  freed,      \* the client is destroyed
  link,       \* kernel: the connection
  inbox, sent,\* kernel: pieces of data not read yet; sent so far by the peer
  eof,        \* kernel: the peer closed
  room,       \* kernel: the send buffer takes data
  started,    \* operations of each kind that became pending
  pending,    \* the operation the application waits for
  calls,      \* how often the callback of each operation was called
  mishap,     \* history: the hazards the behaviour met
  crash       \* how the process died

clientVars == <<socket_fd_, connect_state_, callback, freed>>
watchVars  == <<watching, armed, posted, loose>>
kernelVars == <<link, inbox, sent, eof, room>>
opVars     == <<started, pending, calls>>
vars == <<clientVars, timer, watchVars, call, at, kernelVars, opVars, mishap,
          crash>>

Idle == [pc |-> "idle", kind |-> "none"]
In(pc, kind) == [pc |-> pc, kind |-> kind]
OpIds == 0 .. Limit

(***************************************************************************)
(* The type of every variable.                                             *)
(***************************************************************************)
TypeOK ==
  /\ socket_fd_ \in {"unset", "open", "closed"}
  /\ connect_state_ \in {"kNone", "kConnecting", "kConnected"}
  /\ callback \in [Kinds -> OpIds \cup {Retry}]
  /\ timer \in {"off", "pending", "posted"}
  /\ armed \subseteq watching /\ watching \subseteq Watches
  /\ posted \subseteq Watches /\ loose \in [Watches -> Nat]
  /\ call \in [Threads -> {"none", "read2"} \cup Kinds]
  /\ at \in [Workers -> [pc : {"idle", "start", "retry", "callback", "clear"},
                         kind : Kinds \cup {"none"}]]
  /\ freed \in BOOLEAN
  /\ link \in {"down", "inprogress", "established", "failed"}
  /\ inbox \in 0..MaxChunks /\ sent \in 0..MaxChunks
  /\ eof \in BOOLEAN /\ room \in BOOLEAN
  /\ started \in [Kinds -> Nat]
  /\ pending \in [Kinds -> OpIds]
  /\ calls \in [Kinds -> [1..Limit -> Nat]]
  /\ mishap \subseteq Mishaps
  /\ crash \in {"none", "freed"} \cup Dchecks \cup Kinds

\* TCPClientImpl::TCPClientImpl.
Init ==
  /\ socket_fd_ = "unset" /\ connect_state_ = "kNone"
  /\ callback = [k \in Kinds |-> 0]
  /\ timer = "off"
  /\ watching = {} /\ armed = {} /\ posted = {}
  /\ loose = [c \in Watches |-> 0]
  /\ call = [t \in Threads |-> "none"]
  /\ at = [w \in Workers |-> Idle]
  /\ freed = FALSE
  /\ link = "down" /\ inbox = 0 /\ sent = 0 /\ eof = FALSE
  /\ room \in BOOLEAN
  /\ started = [k \in Kinds |-> 0] /\ pending = [k \in Kinds |-> 0]
  /\ calls = [k \in Kinds |-> [i \in 1..Limit |-> 0]]
  /\ mishap = {} /\ crash = "none"

-----------------------------------------------------------------------------
(* What the client uses of IOWatcher and of the system calls *)

\* IOWatcher::WatchFileDescriptor: the registration is new to epoll, so that
\* every condition that holds is reported (again).
Watch(c) ==
  /\ watching' = watching \cup {c} /\ armed' = watching \cup {c}
  /\ posted' = posted \ {c} /\ UNCHANGED loose

\* Mutant: an event of the kernel outlives the registration.
StopWatchingLate(cs) ==
  /\ watching' = watching \ cs /\ armed' = armed
  /\ posted' = posted \ (cs \cap watching) /\ UNCHANGED loose

\* Controller::StopWatching of the controllers cs: the tasks in their task_ are
\* cancelled if they have not started.
StopWatching(cs) ==
  /\ watching' = watching \ cs
  /\ armed' = IF cs \cap watching = {} THEN armed ELSE watching \ cs
  /\ posted' = posted \ (cs \cap watching) /\ UNCHANGED loose

\* The hazard of a StopWatching that leaves a task of cs behind.
Stale(cs) == IF \E c \in cs : loose[c] > 0 THEN {"stale"} ELSE {}

\* epoll: the condition a controller waits for holds.
Ready(c) ==
  CASE c = "connect" -> link \in {"established", "failed"}
    [] c = "read"    -> inbox > 0 \/ eof \/ link = "failed"
    [] c = "write"   -> room \/ link = "failed"

\* read() and write() would block.
NothingToRead == inbox = 0 /\ ~eof /\ link = "established"
NoRoom        == ~room /\ link = "established"

\* read() takes a piece of data; at the end of it, or after an error, nothing.
TakeData == inbox' = IF inbox > 0 THEN inbox - 1 ELSE 0

\* close(): the kernel forgets the connection.
CloseLink ==
  /\ link' = "down" /\ inbox' = 0 /\ sent' = 0 /\ eof' = FALSE /\ room' = FALSE

-----------------------------------------------------------------------------
(* The application's calls *)

\* Bound: after a mishap the client's own threads go on, but neither the
\* application nor the kernel nor the timer starts anything new.
Unharmed == crash = "none" /\ mishap = {}

\* The application's code runs in its own thread and in its callbacks.
MayCall(t) ==
  /\ Unharmed /\ ~freed /\ call[t] = "none"
  /\ t # App => at[t].pc = "callback"

\* The handlers that clear the slots of a kind when their callback returns.
Clearing(kinds) == \E w \in Workers : at[w].kind \in kinds

\* Open, Bind or an option fails: TCPClient::Connect destroys the client.
OpenFails ==
  /\ socket_fd_' = "closed" /\ freed' = TRUE
  /\ UNCHANGED <<connect_state_, timer, watchVars, call, link>>

(***************************************************************************)
(* TCPClientImpl::Connect up to the watch: connect() succeeds, fails or is *)
(* in progress.  In the last case the timer is started and then the watch  *)
(* registered; if that fails the timer stays.                              *)
(***************************************************************************)
StartConnect(t) ==
  /\ socket_fd_' = "open"
  /\ UNCHANGED freed
  /\ \/ /\ \E ok \in BOOLEAN :
             /\ link' = IF ok THEN "established" ELSE "failed"
             /\ connect_state_' = IF ok THEN "kConnected" ELSE "kNone"
        /\ UNCHANGED <<timer, watchVars, call>>
     \/ /\ link' = "inprogress" /\ timer' \in {"off", "pending"}
        /\ \/ /\ connect_state_' = "kConnecting"
              /\ Watch("connect")
              /\ call' = [call EXCEPT ![t] = "connect"]
           \/ connect_state_' = "kNone" /\ UNCHANGED <<watchVars, call>>

\* TCPClient::Connect.
Connect(t) ==
  /\ MayCall(t) /\ socket_fd_ = "unset"
  /\ OpenFails \/ StartConnect(t)
  /\ UNCHANGED <<callback, at, inbox, sent, eof, room, opVars, mishap, crash>>

\* AdoptConnectedSocket, for a connection the server accepted.
AdoptConnectedSocket(t) ==
  /\ MayCall(t) /\ socket_fd_ = "unset"
  /\ socket_fd_' = "open" /\ link' = "established" /\ connect_state_' = "kConnected"
  /\ UNCHANGED <<callback, freed, timer, watchVars, call, at, inbox, sent, eof,
                 room, opVars, mishap, crash>>

\* What the DCHECKs of ReadIfReady and Write ask of the caller: connected, and
\* no other operation of these kinds.
MayStart(t, kinds) ==
  /\ MayCall(t)
  /\ socket_fd_ = "open" /\ connect_state_ = "kConnected"
  /\ pending["connect"] = 0
  /\ \A k \in kinds \cap Kinds : pending[k] = 0
  /\ \A u \in Threads : call[u] \notin kinds

\* The DCHECK that slot k is empty: it fails while the callback that is in it
\* runs, and a callback that starts the next operation ends a debug build.
DcheckFails(k, comment) == "debug" \in Builds /\ callback[k] # 0 /\ crash' = comment
DcheckHolds(k) == ("release" \in Builds \/ callback[k] = 0) /\ UNCHANGED crash

(***************************************************************************)
(* Read and ReadIfReady up to the watch.  A result that is there is        *)
(* returned; otherwise the watch is registered (if it fails, nothing has   *)
(* changed).                                                               *)
(***************************************************************************)
ReadIfReady(t, kind) ==
  /\ MayStart(t, Reads)
  /\ \/ /\ DcheckFails("ready", "no read pending")
        /\ UNCHANGED <<watchVars, call, mishap, inbox>>
     \/ /\ DcheckHolds("ready") /\ ~NothingToRead
        /\ TakeData
        /\ UNCHANGED <<watchVars, call, mishap>>
     \/ /\ DcheckHolds("ready") /\ NothingToRead /\ started[kind] < Limit
        /\ Watch("read")
        /\ call' = [call EXCEPT ![t] = kind]
        /\ mishap' = mishap \cup
                     IF Clearing(Reads) THEN {"again"} ELSE {}
        /\ UNCHANGED inbox
  /\ UNCHANGED <<clientVars, timer, at, link, sent, eof, room, opVars>>

\* Write up to the watch.
Write(t) ==
  /\ MayStart(t, {"write"})
  /\ \/ /\ DcheckFails("write", "No writing pending")
        /\ UNCHANGED <<watchVars, call, mishap, room>>
     \/ /\ DcheckHolds("write") /\ ~NoRoom
        /\ room' \in BOOLEAN
        /\ UNCHANGED <<watchVars, call, mishap>>
     \/ /\ DcheckHolds("write") /\ NoRoom /\ started["write"] < Limit
        /\ Watch("write")
        /\ call' = [call EXCEPT ![t] = "write"]
        /\ mishap' = mishap \cup IF Clearing({"write"}) THEN {"again"} ELSE {}
        /\ UNCHANGED room
  /\ UNCHANGED <<clientVars, timer, at, link, inbox, sent, eof, opVars>>

\* What the call stores: for Read, RetryRead and then read_callback_.
Stored(t) == IF call[t] = "read" THEN [callback EXCEPT !["ready"] = Retry]
             ELSE LET k == IF call[t] = "read2" THEN "read" ELSE call[t]
                  IN  [callback EXCEPT ![k] = started[k] + 1]

\* The call stores the callback, after the watch, and returns TryAgain.
Store(t) ==
  /\ crash = "none" /\ call[t] # "none"
  /\ \/ freed /\ crash' = "freed" /\ UNCHANGED <<callback, call, opVars>>
     \/ /\ ~freed
        /\ callback' = Stored(t)
        /\ \/ /\ call[t] = "read"
              /\ call' = [call EXCEPT ![t] = "read2"]
              /\ UNCHANGED opVars
           \/ LET k == IF call[t] = "read2" THEN "read" ELSE call[t]
              IN  /\ call[t] # "read"
                  /\ started' = [started EXCEPT ![k] = @ + 1]
                  /\ pending' = [pending EXCEPT ![k] = started[k] + 1]
                  /\ call' = [call EXCEPT ![t] = "none"]
                  /\ UNCHANGED calls
        /\ UNCHANGED crash
  /\ UNCHANGED <<socket_fd_, connect_state_, freed, timer, watchVars, at,
                 kernelVars, mishap>>

\* CancelReadIfReady.
CancelReadIfReady(t) ==
  /\ MayCall(t) /\ pending["ready"] # 0
  /\ StopWatching({"read"})
  /\ callback' = [callback EXCEPT !["ready"] = 0]
  /\ pending' = [pending EXCEPT !["ready"] = 0]
  /\ mishap' = mishap \cup Stale({"read"}) \cup
       IF \E w \in Workers : at[w].kind \in Reads THEN {"stopped"} ELSE {}
  /\ UNCHANGED <<socket_fd_, connect_state_, freed, timer, call, at, kernelVars,
                 started, calls, crash>>

\* The timer after connect_timeout_controller_.Cancel().
Cancelled == IF timer = "pending" THEN "off" ELSE timer

\* Some thread is inside the client, or the closure of the timer is on its way.
Busy ==
  \/ timer = "posted"
  \/ \E w \in Workers : at[w] # Idle
  \/ \E u \in Threads : call[u] # "none"

\* Mutant: the read watch is forgotten.
DisconnectReading(t, destroy) ==
  /\ MayCall(t) /\ socket_fd_ = "open"
  /\ StopWatching({"connect", "write"})
  /\ timer' = Cancelled
  /\ socket_fd_' = "closed" /\ connect_state_' = "kNone"
  /\ UNCHANGED callback
  /\ freed' = destroy
  /\ pending' = [k \in Kinds |-> 0]
  /\ mishap' = mishap \cup Stale(Watches) \cup IF Busy THEN {"stopped"} ELSE {}
  /\ CloseLink
  /\ UNCHANGED <<call, at, started, calls, crash>>

(***************************************************************************)
(* Disconnect, and the destructor, which calls it (once more).  A pending  *)
(* write_callback_ is kept: the test that clears it is inverted.           *)
(***************************************************************************)
Disconnect(t, destroy) ==
  /\ MayCall(t) /\ (socket_fd_ = "open" \/ (socket_fd_ = "closed" /\ destroy))
  /\ StopWatching(Watches)
  /\ timer' = Cancelled
  /\ socket_fd_' = "closed" /\ connect_state_' = "kNone"
  /\ callback' = [callback EXCEPT !["connect"] = 0, !["read"] = 0, !["ready"] = 0]
  /\ freed' = destroy
  /\ pending' = [k \in Kinds |-> 0]
  /\ mishap' = mishap \cup Stale(Watches) \cup IF Busy THEN {"stopped"} ELSE {}
  /\ CloseLink
  /\ UNCHANGED <<call, at, started, calls, crash>>

-----------------------------------------------------------------------------
(* The handlers, on the workers *)

\* A callback slot is called.  An empty std::function throws, and the process
\* ends.
Invoke(w, k) ==
  \/ callback[k] = 0 /\ crash' = k /\ UNCHANGED <<at, pending, calls>>
  \/ /\ callback[k] > 0
     /\ calls' = [calls EXCEPT ![k][callback[k]] = @ + 1]
     /\ pending' = [pending EXCEPT ![k] = IF @ = callback[k] THEN 0 ELSE @]
     /\ at' = [at EXCEPT ![w] = In("callback", k)]
     /\ UNCHANGED crash

\* The hazards a handler meets when it starts: the callback is not stored yet,
\* or another handler of the same operation runs.
Met(w, kinds) ==
  {m \in {"early", "twice"} :
     \/ m = "early" /\ \E t \in Threads : call[t] \in kinds
     \/ m = "twice" /\ \E v \in Workers \ {w} : at[v].kind \in kinds}

\* A worker starts a HandleIO task.  Workers take the tasks in the order of the
\* queue but may start them in another.
HandleIO(w, c) ==
  /\ crash = "none" /\ at[w] = Idle
  /\ \/ c \in posted /\ posted' = posted \ {c} /\ UNCHANGED loose
     \/ loose[c] > 0 /\ loose' = [loose EXCEPT ![c] = @ - 1] /\ UNCHANGED posted
  /\ at' = [at EXCEPT ![w] = In("start", c)]
  /\ mishap' = mishap \cup Met(w, IF c = "read" THEN Reads ELSE {c})
  /\ UNCHANGED <<clientVars, timer, watching, armed, call, kernelVars, opVars, crash>>

\* A handler that finds the client destroyed.
UseAfterFree(w) ==
  /\ crash = "none" /\ at[w] # Idle /\ freed /\ crash' = "freed"
  /\ UNCHANGED <<clientVars, timer, watchVars, call, at, kernelVars, opVars, mishap>>

At(w, pc) == crash = "none" /\ ~freed /\ at[w].pc = pc

\* Mutant: OnReadDone stops the wrong controller.
StopReadingWrong == StopWatching({"write"})

\* Mutant: OnReadDone goes on watching.
StopReadingNot == UNCHANGED watchVars

\* The watch OnReadDone stops.
StopReading == StopWatching({"read"})

\* OnFileReadable and OnReadDone up to the call of read_if_ready_callback_.
OnFileReadable(w) ==
  /\ At(w, "start") /\ at[w].kind = "read"
  /\ \/ /\ callback["ready"] = 0
        /\ crash' = "ready" /\ UNCHANGED <<watchVars, at, pending, calls, mishap>>
     \/ /\ callback["ready"] # 0
        /\ StopReading /\ mishap' = mishap \cup Stale({"read"})
        /\ \/ /\ callback["ready"] = Retry
              /\ at' = [at EXCEPT ![w] = In("retry", "read")]
              /\ UNCHANGED <<pending, calls, crash>>
           \/ callback["ready"] > 0 /\ Invoke(w, "ready")
  /\ UNCHANGED <<clientVars, timer, call, kernelVars, started>>

(***************************************************************************)
(* RetryRead, called from OnReadDone: ReadIfReady again, with its DCHECK.  *)
(* The callback gets what was read, or the error of a watch that failed.   *)
(***************************************************************************)
RetryRead(w) ==
  /\ At(w, "retry")
  /\ \/ /\ DcheckFails("ready", "no read pending")
        /\ UNCHANGED <<watchVars, at, inbox, pending, calls>>
     \/ \* pending again
        /\ DcheckHolds("ready") /\ NothingToRead
        /\ Watch("read")
        /\ at' = [at EXCEPT ![w] = In("clear", "read")]
        /\ UNCHANGED <<inbox, pending, calls>>
     \/ /\ "release" \in Builds \/ callback["ready"] = 0
        /\ IF NothingToRead THEN UNCHANGED inbox ELSE TakeData
        /\ Invoke(w, "read")
        /\ UNCHANGED watchVars
  /\ UNCHANGED <<clientVars, timer, call, link, sent, eof, room, started, mishap>>

\* OnConnectDone(OK): the error of the socket goes to a variable that hides
\* the parameter, so the client is connected and the callback is told OK
\* whatever happened.  The timer is not cancelled.
OnConnectDone(w) ==
  /\ StopWatching({"connect"}) /\ mishap' = mishap \cup Stale({"connect"})
  /\ connect_state_' = "kConnected"
  /\ Invoke(w, "connect")
  /\ UNCHANGED room

\* Mutant: a write that took only a part of the data counts as TryAgain.
OnWriteDoneShort(w) ==
  /\ UNCHANGED connect_state_
  /\ \/ /\ at' = [at EXCEPT ![w] = Idle]
        /\ UNCHANGED <<watchVars, pending, calls, room, mishap, crash>>
     \/ /\ ~NoRoom
        /\ room' \in BOOLEAN
        /\ StopWatching({"write"}) /\ mishap' = mishap \cup Stale({"write"})
        /\ Invoke(w, "write")

\* OnWriteDone.
OnWriteDone(w) ==
  /\ UNCHANGED connect_state_
  /\ \/ /\ NoRoom
        /\ at' = [at EXCEPT ![w] = Idle]
        /\ UNCHANGED <<watchVars, pending, calls, room, mishap, crash>>
     \/ /\ ~NoRoom
        /\ room' \in BOOLEAN
        /\ StopWatching({"write"}) /\ mishap' = mishap \cup Stale({"write"})
        /\ Invoke(w, "write")

\* Which of the two OnFileWritable stands for.
Connecting == connect_state_ = "kConnecting"

OnFileWritable(w) ==
  /\ At(w, "start") /\ at[w].kind \in {"connect", "write"}
  /\ \/ Connecting /\ OnConnectDone(w)
     \/ /\ ~Connecting /\ ("release" \in Builds \/ connect_state_ = "kConnected")
        /\ OnWriteDone(w)
     \/ \* DCHECK_NE(kNone, connect_state_)
        /\ "debug" \in Builds /\ connect_state_ = "kNone"
        /\ crash' = "connect"
        /\ UNCHANGED <<connect_state_, watchVars, at, pending, calls, room, mishap>>
  /\ UNCHANGED <<socket_fd_, callback, freed, timer, call, link, inbox, sent, eof,
                 started>>

\* OnConnectTimeout: neither the state nor the callback says that the
\* connection is not wanted any more.
OnConnectTimeout(w) ==
  /\ crash = "none" /\ at[w] = Idle /\ timer = "posted"
  /\ timer' = "off"
  /\ mishap' = mishap \cup {"timeout"} \cup Met(w, {"connect"})
  /\ \/ freed /\ crash' = "freed" /\ UNCHANGED <<connect_state_, at, pending, calls>>
     \/ ~freed /\ connect_state_' = "kNone" /\ Invoke(w, "connect")
  /\ UNCHANGED <<socket_fd_, callback, freed, watchVars, call, kernelVars, started>>

\* Mutant: the callback stays.
ClearedNot(k) == callback

\* The slot a handler clears when the callback has returned.
Cleared(k) == [callback EXCEPT ![k] = 0]

\* The callback returns: RetryRead clears read_callback_ and leaves the rest to
\* OnReadDone, the other handlers are through.
CallbackReturns(w) ==
  /\ At(w, "callback") /\ call[w] = "none"
  /\ callback' = Cleared(at[w].kind)
  /\ at' = [at EXCEPT ![w] = IF at[w].kind = "read" THEN In("clear", "read")
                             ELSE Idle]
  /\ UNCHANGED <<socket_fd_, connect_state_, freed, timer, watchVars, call,
                 kernelVars, opVars, mishap, crash>>

\* OnReadDone clears read_if_ready_callback_.
OnReadDone(w) ==
  /\ At(w, "clear")
  /\ callback' = Cleared("ready")
  /\ at' = [at EXCEPT ![w] = Idle]
  /\ UNCHANGED <<socket_fd_, connect_state_, freed, timer, watchVars, call,
                 kernelVars, opVars, mishap, crash>>

-----------------------------------------------------------------------------
(* The kernel, the poll thread, the timer manager and the peer *)

\* The poll thread posts a HandleIO task and overwrites the handle of the last.
Event(c) ==
  /\ Unharmed /\ c \in armed /\ Ready(c)
  /\ armed' = armed \ {c} /\ posted' = posted \cup {c}
  /\ loose' = [loose EXCEPT ![c] = IF c \in posted THEN @ + 1 ELSE @]
  /\ UNCHANGED <<clientVars, timer, watching, call, at, kernelVars, opVars, mishap,
                 crash>>

\* The timer manager posts the closure of the timer.
TimerFires ==
  /\ Unharmed /\ timer = "pending" /\ timer' = "posted"
  /\ UNCHANGED <<clientVars, watchVars, call, at, kernelVars, opVars, mishap, crash>>

\* An edge: connected or refused, data or the end of it, room to write.  If it
\* is one that is watched, epoll reports whatever is ready.
Edge ==
  /\ Unharmed /\ socket_fd_ = "open"
  /\ \/ /\ link = "inprogress" /\ link' \in {"established", "failed"}
        /\ armed' = watching /\ UNCHANGED <<inbox, sent, eof, room>>
     \/ /\ link = "established" /\ ~eof
        /\ \/ sent < MaxChunks /\ inbox' = inbox + 1 /\ sent' = sent + 1 /\ eof' = eof
           \/ eof' = TRUE /\ UNCHANGED <<inbox, sent>>
        /\ armed' = IF "read" \in watching THEN watching ELSE armed
        /\ UNCHANGED <<link, room>>
     \/ /\ ~room /\ room' = TRUE
        /\ armed' = IF "write" \in watching THEN watching ELSE armed
        /\ UNCHANGED <<link, inbox, sent, eof>>
  /\ UNCHANGED <<clientVars, timer, watching, posted, loose, call, at, opVars, mishap,
                 crash>>

-----------------------------------------------------------------------------
AppStep(t) ==
  \/ Connect(t) \/ AdoptConnectedSocket(t)
  \/ ReadIfReady(t, "read") \/ ReadIfReady(t, "ready")
  \/ Write(t)
  \/ CancelReadIfReady(t) \/ Disconnect(t, FALSE) \/ Disconnect(t, TRUE)

Handle(w) ==
  \/ \E c \in Watches : HandleIO(w, c)
  \/ OnFileReadable(w) \/ RetryRead(w) \/ OnReadDone(w) \/ OnFileWritable(w)
  \/ OnConnectTimeout(w) \/ CallbackReturns(w) \/ UseAfterFree(w)

Next ==
  \/ \E t \in Threads : AppStep(t) \/ Store(t)
  \/ \E w \in Workers : Handle(w)
  \/ \E c \in Watches : Event(c)
  \/ TimerFires \/ Edge

Spec == Init /\ [][Next]_vars

-----------------------------------------------------------------------------
(* Properties *)

WatchOf(k) == IF k = "ready" THEN "read" ELSE k

(***************************************************************************)
(* The process ends in a call of an empty std::function, or in a client    *)
(* that is destroyed, only after one of the mishaps: an event before the   *)
(* callback was stored, two handlers of one operation at a time, an        *)
(* operation started before the handler of the last one cleared its        *)
(* callback, a connect timeout, a client disconnected under a handler, or  *)
(* a StopWatching that left a task behind whose handle was overwritten.    *)
(* Calls that keep clear of these never find their callback gone, though   *)
(* several tasks of a controller may be posted at a time.  (The DCHECKs    *)
(* that no operation is pending are NoReadPending's subject.)              *)
(***************************************************************************)
CrashExplained == crash \notin {"none"} \cup Dchecks => mishap # {}

(***************************************************************************)
(* The callback of an operation is called at most once, unless two         *)
(* handlers of the operation ran at the same time or a task outlived the   *)
(* watch it was posted for: a connect timeout after the connection is made *)
(* finds no callback left to call.                                         *)
(***************************************************************************)
CalledAtMostOnce ==
  mishap \cap {"twice", "stale"} = {} =>
    \A k \in Kinds : \A i \in 1..Limit : calls[k][i] <= 1

(***************************************************************************)
(* After Disconnect no callback is called, unless a handler, an operation  *)
(* or the posted closure of the timer was on its way when it ran, or a     *)
(* task that had lost its handle was still to start: Disconnect waits for  *)
(* none of them and cannot cancel the last.                                *)
(***************************************************************************)
SilentAfterDisconnect ==
  [][socket_fd_ = "closed" /\ mishap' \cap {"stopped", "stale"} = {} =>
       calls' = calls]_vars

(***************************************************************************)
(* An operation the application waits for has its callback in place, and   *)
(* its watch is registered or a worker is about to serve it.  Without      *)
(* this, TryAgain was a promise that nobody keeps.                         *)
(***************************************************************************)
PendingIsWatched ==
  mishap = {} /\ crash = "none" =>
    \A k \in Kinds : pending[k] # 0 =>
      /\ callback[k] = pending[k]
      /\ k = "read" => callback["ready"] = Retry
      /\ \/ WatchOf(k) \in watching
         \/ k = "read" /\ \E w \in Workers : at[w].pc = "retry"

(***************************************************************************)
(* An operation the application waits for does not miss that the socket is *)
(* ready: epoll has the event, a task is posted for it, or a handler is    *)
(* about to read, write or look at the connection.  epoll reports an edge  *)
(* once, so one that is used up without a callback leaves the operation    *)
(* pending until the peer acts again, which it may never do.               *)
(***************************************************************************)
ReadyIsServed ==
  mishap = {} /\ crash = "none" =>
    \A k \in Kinds : pending[k] # 0 /\ Ready(WatchOf(k)) =>
      \/ WatchOf(k) \in armed \cup posted \/ loose[WatchOf(k)] > 0
      \/ \E w \in Workers : at[w].pc \in {"start", "retry"} /\ at[w].kind = WatchOf(k)

(***************************************************************************)
(* DCHECK(!read_if_ready_callback_), "no read pending", of ReadIfReady     *)
(* holds for every read started when none is pending, the next read that a *)
(* read callback starts and the second one of RetryRead included.          *)
(***************************************************************************)
NoReadPending == crash # "no read pending"

=============================================================================
