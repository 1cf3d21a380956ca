-------------------------- MODULE TCPClientProofs --------------------------
(***************************************************************************)
(* Theorems about TCPClient: types, that no operation is called back       *)
(* twice, that nothing is called after Disconnect, that only the recorded  *)
(* mishaps end in an empty or freed callback, and that what is pending is  *)
(* watched and does not miss that the socket is ready.                     *)
(*                                                                         *)
(* The invariant has three layers.  Base holds always: it says what is     *)
(* there before the socket is opened and after it is closed, that one      *)
(* thread at most is inside Read, Write or Connect, and that every         *)
(* HandleIO task that has not started belongs to a watch until a           *)
(* StopWatching leaves one behind.  Calm is about behaviours without a     *)
(* mishap: what the slots, the watch, the tasks and the handlers of each   *)
(* family of operations (reads, connect, write) can be together, and, in   *)
(* Served, where the event of a socket that is ready can be.  Single is    *)
(* about behaviours in which no two handlers of one operation overlapped   *)
(* and no task outlived its watch.                                         *)
(***************************************************************************)
EXTENDS TCPClient, TLAPS

\* The places of a handler.
Place == [pc : {"idle", "start", "retry", "callback", "clear"},
          kind : Kinds \cup {"none"}]

\* The kinds of the handlers of a read.
ReadKinds == {"read", "ready"}

-----------------------------------------------------------------------------
(* What always holds *)

\* Where a handler can be, by what it handles.
Shape ==
  \A w \in Workers :
    \/ at[w].pc = "idle" /\ at[w].kind = "none"
    \/ at[w].pc = "start" /\ at[w].kind \in Watches
    \/ at[w].pc \in {"retry", "clear"} /\ at[w].kind = "read"
    \/ at[w].pc = "callback" /\ at[w].kind \in Kinds

\* One thread at most is inside a read, inside Write and inside Connect.
OneCall ==
  \A t, u \in Threads :
    /\ call[t] \in Reads /\ call[u] \in Reads => t = u
    /\ call[t] = "write" /\ call[u] = "write" => t = u
    /\ call[t] = "connect" /\ call[u] = "connect" => t = u

\* A call that is going to store its callback has a number for it.
CallRoom ==
  \A t \in Threads :
    /\ call[t] \in {"read", "read2"} => started["read"] < Limit
    /\ call[t] \in {"ready", "write", "connect"} => started[call[t]] < Limit

\* Numbers are given out in order.
Numbered ==
  \A k \in Kinds :
    /\ callback[k] <= started[k]
    /\ \A i \in 1..Limit : calls[k][i] > 0 => i <= started[k]

\* The controllers with a HandleIO task that has not started.
Due == posted \cup {c \in Watches : loose[c] > 0}

\* Nothing is registered, posted or under way.
Still ==
  /\ watching = {} /\ Due = {} /\ timer = "off"
  /\ \A w \in Workers : at[w].pc = "idle"
  /\ \A t \in Threads : call[t] = "none"

\* Before the socket is opened nothing has happened.
UnsetInv ==
  socket_fd_ = "unset" =>
    /\ Still /\ ~freed
    /\ \A k \in Kinds : started[k] = 0 /\ callback[k] = 0 /\ pending[k] = 0

\* After it is closed nothing does, if it was closed in peace.
ClosedInv == socket_fd_ = "closed" /\ mishap \cap {"stopped", "stale"} = {} => Still

\* A task whose handle is kept belongs to a watch, and so does every other one
\* as long as no StopWatching left one behind.
DueInv == /\ posted \subseteq watching
          /\ "stale" \notin mishap => Due \subseteq watching

Base ==
  /\ TypeOK /\ Shape /\ OneCall /\ CallRoom /\ Numbered
  /\ UnsetInv /\ ClosedInv
  /\ DueInv
  /\ inbox <= sent
  /\ freed => socket_fd_ = "closed"

-----------------------------------------------------------------------------
(* What holds without a mishap *)

\* Two handlers do not handle the same operation.
OneHandler ==
  \A v, w \in Workers :
    /\ at[v].kind \in ReadKinds /\ at[w].kind \in ReadKinds => v = w
    /\ at[v].kind = "write" /\ at[w].kind = "write" => v = w
    /\ at[v].kind = "connect" /\ at[w].kind = "connect" => v = w

\* A read, up to the store of its callbacks.
ReadCalled ==
  \A t \in Threads : call[t] \in Reads =>
    /\ pending["read"] = 0 /\ pending["ready"] = 0
    /\ "read" \in watching
    /\ call[t] = "read2" => callback["ready"] = Retry
    /\ \A w \in Workers : at[w].kind \notin ReadKinds

\* ReadIfReady waits.
ReadyPending ==
  pending["ready"] # 0 =>
    /\ callback["ready"] = pending["ready"] /\ pending["read"] = 0
    /\ "read" \in watching
    /\ \A w \in Workers : at[w].kind \in ReadKinds => at[w].pc = "start"

\* Read waits.
ReadPending ==
  pending["read"] # 0 =>
    /\ callback["read"] = pending["read"] /\ callback["ready"] = Retry
    /\ \A w \in Workers : at[w].kind \in ReadKinds => at[w].pc \in {"start", "retry"}
    /\ "read" \in watching \/ \E w \in Workers : at[w].pc = "retry"

\* The handler of a read has an operation and data for it, and the watch is
\* registered for the sake of an operation.
ReadServed ==
  /\ "read" \in watching =>
       \/ \E t \in Threads : call[t] \in Reads
       \/ pending["read"] # 0 \/ pending["ready"] # 0
  /\ "read" \in Due => Ready("read")
  /\ \A w \in Workers :
       /\ at[w].pc = "start" /\ at[w].kind = "read" =>
            (pending["read"] # 0 \/ pending["ready"] # 0) /\ Ready("read")
       /\ at[w].pc = "retry" =>
            pending["read"] # 0 /\ Ready("read") /\ "read" \notin watching

\* The connect and the write family, which are alike but for the state in
\* which they are used.
OpCalled(k) ==
  \A t \in Threads : call[t] = k =>
    /\ pending[k] = 0 /\ k \in watching
    /\ \A w \in Workers : at[w].kind # k

OpPending(k) ==
  pending[k] # 0 =>
    /\ callback[k] = pending[k] /\ k \in watching
    /\ \A w \in Workers : at[w].kind = k => at[w].pc = "start"

OpServed(k) ==
  /\ k \in watching => pending[k] # 0 \/ \E t \in Threads : call[t] = k
  /\ \A w \in Workers : at[w].pc = "start" /\ at[w].kind = k => pending[k] # 0

StateInv ==
  /\ "connect" \in watching => connect_state_ = "kConnecting"
  /\ "write" \in watching => connect_state_ = "kConnected"

ReadInv == ReadCalled /\ ReadyPending /\ ReadPending /\ ReadServed
OpInv(k) == OpCalled(k) /\ OpPending(k) /\ OpServed(k)

CalmInv ==
  OneHandler /\ ReadInv /\ OpInv("connect") /\ OpInv("write") /\ StateInv

\* The process ends in a DCHECK, or the families are in order.
Calm ==
  mishap = {} => /\ crash \in {"none"} \cup Dchecks
                 /\ crash = "none" => CalmInv

\* A controller that is registered and whose condition holds has an event that
\* epoll has not reported, a task, or a handler that has not begun.
ServedInv ==
  \A c \in watching : Ready(c) =>
    \/ c \in armed \cup Due
    \/ \E w \in Workers : at[w].pc = "start" /\ at[w].kind = c

Served == mishap = {} /\ crash = "none" => ServedInv

-----------------------------------------------------------------------------
(* What holds as long as no two handlers of an operation overlapped *)

\* An operation whose callback was called and is still in its slot has the
\* handler that called it inside that callback.
CalledInv ==
  \A k \in Kinds : \A i \in 1..Limit :
    calls[k][i] > 0 =>
      /\ calls[k][i] <= 1
      /\ callback[k] = i =>
           \E w \in Workers : at[w].pc = "callback" /\ at[w].kind = k

\* While the client connects nothing is written.
NoWriteYet ==
  /\ callback["write"] = 0 /\ "write" \notin watching
  /\ \A w \in Workers : at[w].kind # "write"
  /\ \A t \in Threads : call[t] # "write"

Connects ==
  \/ "connect" \in watching \/ connect_state_ = "kConnecting"
  \/ \E w \in Workers : at[w].pc = "start" /\ at[w].kind = "connect"

Apart == Connects => NoWriteYet

Single == mishap \cap {"twice", "stale"} = {} => OneHandler /\ CalledInv /\ Apart

-----------------------------------------------------------------------------
(* Base is an invariant *)

LEMMA BaseInit == Init => Base
<1> SUFFICES ASSUME Init PROVE Base
  OBVIOUS
<1>1. Limit \in Nat \ {0} /\ MaxChunks \in Nat
  BY TCPAssumption
<1>2. at \in [Workers -> Place]
  BY DEF Init, Idle, Place
<1>3. TypeOK
  <2>1. calls \in [Kinds -> [1..Limit -> Nat]]
    BY DEF Init
  <2>2. 0 \in OpIds
    BY <1>1 DEF OpIds
  <2>3. callback \in [Kinds -> OpIds \cup {Retry}] /\ pending \in [Kinds -> OpIds]
    BY <2>2 DEF Init
  <2>4. started \in [Kinds -> Nat] /\ call \in [Threads -> {"none", "read2"} \cup Kinds]
    BY DEF Init
  <2>5. freed \in BOOLEAN /\ eof \in BOOLEAN /\ room \in BOOLEAN
    BY Zenon DEF Init
  <2>6. inbox \in 0..MaxChunks /\ sent \in 0..MaxChunks
    BY <1>1 DEF Init
  <2> QED
    BY <1>2, <2>1, <2>3, <2>4, <2>5, <2>6 DEF Init, TypeOK, Place
<1>4. Shape /\ OneCall /\ CallRoom /\ Numbered /\ UnsetInv /\ ClosedInv /\ DueInv
  <2>1. Due = {}
    BY DEF Init, Due
  <2> QED
    BY <1>1, <2>1 DEF Init, Shape, OneCall, CallRoom, Numbered, UnsetInv,
       ClosedInv, DueInv, Still, Idle, Kinds, Reads
<1> QED
  BY <1>1, <1>3, <1>4 DEF Base, Init

\* A step that posts no task keeps DueInv, if every watch it stops had no task
\* left behind or the step records it.
LEMMA DueSame ==
  ASSUME Base, UNCHANGED loose, posted' \subseteq posted, mishap \subseteq mishap',
         posted' \subseteq watching',
         \A c \in watching \ watching' : "stale" \in mishap' \/ ~(loose[c] > 0)
  PROVE  DueInv'
BY DEF Base, TypeOK, DueInv, Due

LEMMA BaseConnect ==
  ASSUME Base, NEW t \in Threads, Connect(t) PROVE Base'
<1>1. Limit \in Nat \ {0} /\ MaxChunks \in Nat
  BY TCPAssumption
<1>2. TypeOK'
  BY <1>1 DEF Base, TypeOK, Connect, OpenFails, StartConnect, Watch, Watches,
     MayCall, watchVars, opVars, Kinds
<1>3. Shape' /\ OneCall' /\ CallRoom' /\ Numbered' 
  BY <1>1 DEF Base, TypeOK, Connect, OpenFails, StartConnect, Watch, Watches,
     MayCall, watchVars, opVars, Kinds, Shape, OneCall, CallRoom, Numbered,
     UnsetInv, Still, Reads
<1>4. UnsetInv' /\ ClosedInv'
  BY <1>1 DEF Base, TypeOK, Connect, OpenFails, StartConnect, Watch, Watches,
     MayCall, watchVars, opVars, Kinds, UnsetInv, ClosedInv, Still, Reads, Due
<1>5. DueInv'
  <2>1. UNCHANGED <<loose, mishap>> /\ watching \subseteq watching' /\ posted' \subseteq posted
    BY DEF Connect, OpenFails, StartConnect, Watch, watchVars
  <2> QED
    BY <2>1, DueSame DEF Base, DueInv
<1> QED
  BY <1>1, <1>2, <1>3, <1>4, <1>5 DEF Base, Connect, OpenFails, StartConnect,
     UnsetInv


\* The slot a call stores its number in.
Slot(c) == IF c = "read2" THEN "read" ELSE c

LEMMA StoreCases ==
  ASSUME Base, NEW t \in Threads, Store(t)
  PROVE  \/ freed /\ crash' = "freed" /\ UNCHANGED <<callback, call, opVars>>
         \/ /\ ~freed /\ UNCHANGED <<crash, opVars>>
            /\ call[t] = "read" /\ call' = [call EXCEPT ![t] = "read2"]
            /\ callback' = [callback EXCEPT !["ready"] = Retry]
         \/ /\ ~freed /\ UNCHANGED <<crash, calls>>
            /\ call[t] \in {"connect", "read2", "ready", "write"}
            /\ call' = [call EXCEPT ![t] = "none"]
            /\ callback' = [callback EXCEPT ![Slot(call[t])] = started[Slot(call[t])] + 1]
            /\ started' = [started EXCEPT ![Slot(call[t])] = started[Slot(call[t])] + 1]
            /\ pending' = [pending EXCEPT ![Slot(call[t])] = started[Slot(call[t])] + 1]
<1>1. call[t] \in {"none", "read2"} \cup Kinds
  BY DEF Base, TypeOK
<1>2. CASE freed
  BY <1>2 DEF Store
<1>3. CASE ~freed /\ call[t] = "read"
  BY <1>3 DEF Store, Stored, opVars
<1>4. CASE ~freed /\ call[t] # "read"
  <2>1. call[t] \in {"connect", "read2", "ready", "write"}
    BY <1>1, <1>4 DEF Store, Kinds
  <2> QED
    BY <1>4, <2>1 DEF Store, Stored, Slot
<1> QED
  BY <1>2, <1>3, <1>4

LEMMA BaseStore ==
  ASSUME Base, NEW t \in Threads, Store(t) PROVE Base'
<1>1. Limit \in Nat \ {0} /\ MaxChunks \in Nat
  BY TCPAssumption
<1>2. UNCHANGED <<socket_fd_, connect_state_, freed, timer, watching, armed,
                  posted, loose, at, link, inbox, sent, eof, room, mishap>>
  BY DEF Store, watchVars, kernelVars
<1>3. UnsetInv' /\ ClosedInv'
  BY <1>1, <1>2 DEF Base, TypeOK, Store, opVars, UnsetInv, ClosedInv, Still, Due
<1>4. (Shape /\ DueInv /\ inbox <= sent /\ (freed => socket_fd_ = "closed"))'
  BY <1>2 DEF Base, Shape, DueInv, Due
<1>5. CASE freed /\ crash' = "freed" /\ UNCHANGED <<callback, call, opVars>>
  <2>1. TypeOK'
    BY <1>2, <1>5 DEF Base, TypeOK, opVars
  <2>2. OneCall' /\ CallRoom' /\ Numbered'
    BY <1>5 DEF Base, OneCall, CallRoom, Numbered, opVars
  <2> QED
    BY <1>3, <1>4, <2>1, <2>2 DEF Base
<1>6. CASE /\ ~freed /\ UNCHANGED <<crash, opVars>>
           /\ call[t] = "read" /\ call' = [call EXCEPT ![t] = "read2"]
           /\ callback' = [callback EXCEPT !["ready"] = Retry]
  <2>1. TypeOK'
    BY <1>2, <1>6 DEF Base, TypeOK, opVars, Kinds
  <2>2. OneCall' /\ CallRoom'
    BY <1>6 DEF Base, TypeOK, OneCall, CallRoom, opVars, Reads
  <2>3. Numbered'
    BY <1>6 DEF Base, TypeOK, Numbered, opVars, Retry
  <2> QED
    BY <1>3, <1>4, <2>1, <2>2, <2>3 DEF Base
<1>7. ASSUME ~freed, UNCHANGED <<crash, calls>>,
             call[t] \in {"connect", "read2", "ready", "write"},
             call' = [call EXCEPT ![t] = "none"],
             callback' = [callback EXCEPT ![Slot(call[t])] = started[Slot(call[t])] + 1],
             started' = [started EXCEPT ![Slot(call[t])] = started[Slot(call[t])] + 1],
             pending' = [pending EXCEPT ![Slot(call[t])] = started[Slot(call[t])] + 1]
      PROVE  Base'
  <2> DEFINE k == Slot(call[t])
  <2>1. k \in Kinds /\ started[k] \in Nat /\ started[k] < Limit
    BY <1>7 DEF Slot, Kinds, Base, TypeOK, CallRoom
  <2>2. \A u \in Threads \ {t} : Slot(call[u]) = k => call[u] = "read" /\ k = "read"
    BY <1>7 DEF Base, TypeOK, OneCall, Slot, Reads
  <2>3. \A u \in Threads \ {t} : call[u] # "read" \/ k # "read"
    BY <1>7 DEF Base, TypeOK, OneCall, Slot, Reads
  <2>4. call'[t] = "none" /\ \A u \in Threads \ {t} : call'[u] = call[u]
    BY <1>7 DEF Base, TypeOK
  <2> HIDE DEF k
  <2>5. TypeOK'
    <3>1. started[k] + 1 \in OpIds
      BY <1>1, <2>1 DEF OpIds
    <3>2. callback' \in [Kinds -> OpIds \cup {Retry}] /\ pending' \in [Kinds -> OpIds]
      BY <1>7, <3>1, <2>1 DEF Base, TypeOK, k
    <3>3. started' \in [Kinds -> Nat]
      BY <1>7, <2>1 DEF Base, TypeOK, k
    <3> QED
      BY <1>2, <1>7, <3>2, <3>3 DEF Base, TypeOK
  <2>6. OneCall'
    BY <2>4 DEF Base, OneCall, Reads
  <2>7. CallRoom'
    BY <1>7, <2>1, <2>2, <2>3, <2>4 DEF Base, TypeOK, CallRoom, Slot, Kinds, k
  <2>8. Numbered'
    BY <1>1, <1>7, <2>1 DEF Base, TypeOK, Numbered, k
  <2> QED
    BY <1>3, <1>4, <2>5, <2>6, <2>7, <2>8 DEF Base
<1> QED
  BY <1>5, <1>6, <1>7, StoreCases

LEMMA BaseAdopt ==
  ASSUME Base, NEW t \in Threads, AdoptConnectedSocket(t) PROVE Base'
<1>1. TypeOK'
  BY DEF Base, TypeOK, AdoptConnectedSocket, watchVars, opVars
<1>2. Shape' /\ OneCall' /\ CallRoom' /\ Numbered' /\ UnsetInv' /\ ClosedInv'
  BY DEF Base, AdoptConnectedSocket, watchVars, opVars, Shape, OneCall,
     CallRoom,
         Numbered, UnsetInv, ClosedInv, Still
<1>3. DueInv'
  BY DueSame DEF Base, DueInv, AdoptConnectedSocket, watchVars
<1> QED
  BY <1>1, <1>2, <1>3 DEF Base, AdoptConnectedSocket, UnsetInv

LEMMA BaseReadIfReady ==
  ASSUME Base, NEW t \in Threads, NEW kind \in {"read", "ready"}, ReadIfReady(t, kind)
  PROVE  Base'
<1>1. MaxChunks \in Nat
  BY TCPAssumption
<1>2. UNCHANGED <<socket_fd_, connect_state_, callback, freed, timer, at, link,
                  sent, eof, room, started, pending, calls>>
  BY DEF ReadIfReady, clientVars, opVars
<1>3. /\ watching' \subseteq Watches /\ armed' \subseteq watching'
      /\ posted' \subseteq watching' /\ loose' \in [Watches -> Nat] /\ DueInv'
  <2>1. /\ watching' \subseteq Watches /\ armed' \subseteq watching'
        /\ watching \subseteq watching' /\ posted' \subseteq posted /\ UNCHANGED loose
    BY DEF Base, TypeOK, ReadIfReady, Watch, watchVars, Watches
  <2>2. mishap \subseteq mishap'
    BY DEF ReadIfReady
  <2> QED
    BY <2>1, <2>2, DueSame DEF Base, DueInv, TypeOK
<1>4. inbox' \in 0..MaxChunks /\ inbox' <= sent'
  <2>1. inbox' = inbox \/ TakeData
    BY DEF ReadIfReady
  <2>2. inbox \in 0..MaxChunks /\ sent \in 0..MaxChunks /\ inbox <= sent
    BY DEF Base, TypeOK
  <2> QED
    BY <1>1, <1>2, <2>1, <2>2 DEF TakeData
<1>5. call' \in [Threads -> {"none", "read2"} \cup Kinds]
  BY DEF Base, TypeOK, ReadIfReady, Kinds
<1>6. mishap' \subseteq Mishaps /\ crash' \in {"none", "freed"} \cup Dchecks \cup Kinds
  BY DEF Base, TypeOK, ReadIfReady, DcheckFails, DcheckHolds, Mishaps, Dchecks
<1>7. TypeOK'
  BY <1>2, <1>3, <1>4, <1>5, <1>6 DEF Base, TypeOK
<1>8. OneCall' /\ CallRoom'
  BY <1>2 DEF Base, TypeOK, ReadIfReady, MayStart, watchVars, OneCall,
     CallRoom, Reads
<1>9. Shape' /\ Numbered' /\ UnsetInv' /\ ClosedInv'
  BY <1>2 DEF Base, ReadIfReady, MayStart, Shape, Numbered, UnsetInv, ClosedInv
<1> QED
  BY <1>2, <1>3, <1>4, <1>7, <1>8, <1>9 DEF Base

LEMMA BaseWrite ==
  ASSUME Base, NEW t \in Threads, Write(t) PROVE Base'
<1>1. MaxChunks \in Nat
  BY TCPAssumption
<1>2. UNCHANGED <<socket_fd_, connect_state_, callback, freed, timer, at, link,
                  inbox, sent, eof, started, pending, calls>>
  BY DEF Write, clientVars, opVars
<1>3. /\ watching' \subseteq Watches /\ armed' \subseteq watching'
      /\ posted' \subseteq watching' /\ loose' \in [Watches -> Nat] /\ DueInv'
  <2>1. /\ watching' \subseteq Watches /\ armed' \subseteq watching'
        /\ watching \subseteq watching' /\ posted' \subseteq posted /\ UNCHANGED loose
    BY DEF Base, TypeOK, Write, Watch, watchVars, Watches
  <2>2. mishap \subseteq mishap'
    BY DEF Write
  <2> QED
    BY <2>1, <2>2, DueSame DEF Base, DueInv, TypeOK
<1>4. room' \in BOOLEAN
  BY DEF Base, TypeOK, Write
<1>5. call' \in [Threads -> {"none", "read2"} \cup Kinds]
  BY DEF Base, TypeOK, Write, Kinds
<1>6. mishap' \subseteq Mishaps /\ crash' \in {"none", "freed"} \cup Dchecks \cup Kinds
  BY DEF Base, TypeOK, Write, DcheckFails, DcheckHolds, Mishaps, Dchecks
<1>7. TypeOK'
  BY <1>2, <1>3, <1>4, <1>5, <1>6 DEF Base, TypeOK
<1>8. OneCall'
  BY DEF Base, TypeOK, Write, MayStart, watchVars, OneCall, Reads
<1>9. CallRoom'
  BY <1>2 DEF Base, TypeOK, Write, MayStart, watchVars, CallRoom
<1>10. Shape' /\ Numbered' /\ UnsetInv' /\ ClosedInv'
  BY <1>2 DEF Base, Write, MayStart, Shape, Numbered, UnsetInv, ClosedInv
<1> QED
  BY <1>2, <1>3, <1>7, <1>8, <1>9, <1>10 DEF Base

LEMMA StopFacts ==
  ASSUME Base, NEW cs, StopWatching(cs)
  PROVE  /\ watching' = watching \ cs /\ posted' = posted \ cs
         /\ watching' \subseteq Watches /\ armed' \subseteq watching'
         /\ posted' \subseteq watching' /\ UNCHANGED loose
BY DEF Base, TypeOK, DueInv, StopWatching

\* A StopWatching that records what it leaves behind keeps DueInv.
LEMMA StopDue ==
  ASSUME Base, NEW cs, StopWatching(cs), mishap \cup Stale(cs) \subseteq mishap'
  PROVE  DueInv' /\ Due' \subseteq Due
<1>1. /\ watching' = watching \ cs /\ posted' = posted \ cs
      /\ posted' \subseteq watching' /\ UNCHANGED loose
  BY StopFacts
<1>2. \A c \in cs : loose[c] > 0 => "stale" \in mishap'
  BY DEF Stale
<1>3. DueInv'
  BY <1>1, <1>2, DueSame
<1> QED
  BY <1>1, <1>3 DEF Due

LEMMA BaseCancel ==
  ASSUME Base, NEW t \in Threads, CancelReadIfReady(t) PROVE Base'
<1>1. Limit \in Nat \ {0}
  BY TCPAssumption
<1>2. UNCHANGED <<socket_fd_, connect_state_, freed, timer, call, at, link,
                  inbox, sent, eof, room, started, calls, crash>>
  BY DEF CancelReadIfReady, kernelVars
<1>3. TypeOK'
  <2>1. mishap' \subseteq Mishaps
    BY DEF Base, TypeOK, CancelReadIfReady, Mishaps, Stale
  <2>2. /\ watching' \subseteq Watches /\ armed' \subseteq watching'
        /\ posted' \subseteq watching' /\ UNCHANGED loose
    BY StopFacts DEF CancelReadIfReady
  <2>3. callback' \in [Kinds -> OpIds \cup {Retry}] /\ pending' \in [Kinds -> OpIds]
    <3>1. 0 \in OpIds
      BY <1>1 DEF OpIds
    <3> QED
      BY <3>1 DEF Base, TypeOK, CancelReadIfReady
  <2> QED
    BY <1>2, <2>1, <2>2, <2>3 DEF Base, TypeOK
<1>4. OneCall' /\ CallRoom' /\ Shape'
  BY <1>2 DEF Base, OneCall, CallRoom, Shape
<1>5. Numbered'
  BY <1>2 DEF Base, TypeOK, CancelReadIfReady, Numbered
<1>6. UnsetInv' /\ ClosedInv'
  BY <1>2 DEF Base, TypeOK, CancelReadIfReady, StopWatching, UnsetInv,
     ClosedInv, Still, Kinds, Due
<1>7. DueInv'
  BY StopDue DEF CancelReadIfReady
<1> QED
  BY <1>2, <1>3, <1>4, <1>5, <1>6, <1>7 DEF Base

LEMMA BaseDisconnect ==
  ASSUME Base, NEW t \in Threads, NEW destroy \in BOOLEAN, Disconnect(t, destroy)
  PROVE  Base'
<1>1. Limit \in Nat \ {0} /\ MaxChunks \in Nat
  BY TCPAssumption
<1>2. UNCHANGED <<call, at, started, calls, crash>>
  BY DEF Disconnect
<1>3. /\ watching' = {} /\ armed' \subseteq {} /\ posted' = {}
      /\ socket_fd_' = "closed" /\ connect_state_' = "kNone" /\ freed' = destroy
      /\ link' = "down" /\ inbox' = 0 /\ sent' = 0 /\ eof' = FALSE /\ room' = FALSE
  BY DEF Disconnect, StopWatching, CloseLink, Base, TypeOK, DueInv
<1>4. /\ callback' \in [Kinds -> OpIds \cup {Retry}]
      /\ callback'["write"] = callback["write"]
      /\ callback'["connect"] = 0 /\ callback'["read"] = 0 /\ callback'["ready"] = 0
  <2>1. 0 \in OpIds
    BY <1>1 DEF OpIds
  <2>2. callback' = [callback EXCEPT !["connect"] = 0, !["read"] = 0, !["ready"] = 0]
    BY DEF Disconnect
  <2>3. callback \in [Kinds -> OpIds \cup {Retry}]
    BY DEF Base, TypeOK
  <2> QED
    BY <2>1, <2>2, <2>3 DEF Kinds
<1>5. TypeOK'
  <2>1. pending' \in [Kinds -> OpIds]
    BY <1>1 DEF Disconnect, OpIds
  <2>2. timer' \in {"off", "pending", "posted"} /\ mishap' \subseteq Mishaps
    BY DEF Base, TypeOK, Disconnect, Cancelled, Mishaps, Stale
  <2>3. freed' \in BOOLEAN /\ eof' \in BOOLEAN /\ room' \in BOOLEAN
    BY <1>3, Zenon
  <2>4. inbox' \in 0..MaxChunks /\ sent' \in 0..MaxChunks
    BY <1>1, <1>3
  <2>5. UNCHANGED loose
    BY StopFacts DEF Disconnect
  <2> QED
    BY <1>2, <1>3, <1>4, <2>1, <2>2, <2>3, <2>4, <2>5 DEF Base, TypeOK
<1>6. OneCall' /\ CallRoom' /\ Shape'
  BY <1>2 DEF Base, OneCall, CallRoom, Shape
<1>7. Numbered'
  <2>1. \A k \in Kinds : callback'[k] = 0 \/ callback'[k] = callback[k]
    BY <1>4 DEF Kinds
  <2> SUFFICES ASSUME NEW k \in Kinds
               PROVE  /\ callback'[k] <= started[k]
                      /\ \A i \in 1..Limit : calls[k][i] > 0 => i <= started[k]
    BY <1>2 DEF Numbered
  <2>2. started[k] \in Nat /\ callback[k] <= started[k]
    BY DEF Base, TypeOK, Numbered
  <2>3. callback'[k] <= started[k]
    BY <2>1, <2>2
  <2> QED
    BY <2>3 DEF Base, Numbered
<1>8. UNCHANGED loose /\ DueInv'
  BY StopFacts, StopDue DEF Disconnect
<1>9. ClosedInv'
  <2> SUFFICES ASSUME mishap' \cap {"stopped", "stale"} = {} PROVE Still'
    BY DEF ClosedInv
  <2>1. Due' = {}
    <3>1. "stale" \notin mishap'
      OBVIOUS
    <3> QED
      BY <1>3, <1>8, <3>1 DEF DueInv
  <2>2. ~Busy
    <3>1. mishap' = mishap \cup Stale(Watches) \cup IF Busy THEN {"stopped"} ELSE {}
      BY DEF Disconnect
    <3> QED
      BY <3>1
  <2>3. /\ \A w \in Workers : at[w] = Idle
        /\ \A u \in Threads : call[u] = "none"
        /\ timer # "posted"
    BY <2>2 DEF Busy
  <2> QED
    BY <1>2, <1>3, <2>1, <2>3 DEF Base, TypeOK, Disconnect, Cancelled, Still, Idle
<1> QED
  BY <1>3, <1>5, <1>6, <1>7, <1>8, <1>9 DEF Base, UnsetInv

\* What the call of a slot does, whatever is in it.
LEMMA InvokeFacts ==
  ASSUME Base, NEW w \in Workers, NEW k \in Kinds, Invoke(w, k)
  PROVE  /\ calls' \in [Kinds -> [1..Limit -> Nat]]
         /\ pending' \in [Kinds -> OpIds]
         /\ crash' \in {k, crash}
         /\ at' = at \/ at' = [at EXCEPT ![w] = In("callback", k)]
         /\ \A j \in Kinds : \A i \in 1..Limit :
              calls'[j][i] = calls[j][i] \/ (j = k /\ i = callback[k])
         /\ \A j \in Kinds : pending'[j] = pending[j] \/ (j = k /\ pending'[k] = 0)
<1>1. Limit \in Nat \ {0}
  BY TCPAssumption
<1>2. /\ calls \in [Kinds -> [1..Limit -> Nat]] /\ pending \in [Kinds -> OpIds]
      /\ callback[k] \in OpIds \cup {Retry}
  BY DEF Base, TypeOK
<1>3. CASE callback[k] = 0
  BY <1>2, <1>3 DEF Invoke
<1>4. CASE callback[k] > 0
  <2>1. callback[k] \in 1..Limit
    BY <1>1, <1>2, <1>4 DEF OpIds, Retry
  <2>2. /\ calls' = [calls EXCEPT ![k][callback[k]] = @ + 1]
        /\ pending' = [pending EXCEPT ![k] = IF @ = callback[k] THEN 0 ELSE @]
        /\ at' = [at EXCEPT ![w] = In("callback", k)] /\ crash' = crash
    BY <1>4 DEF Invoke
  <2>3. 0 \in OpIds
    BY <1>1 DEF OpIds
  <2> DEFINE row == [calls[k] EXCEPT ![callback[k]] = calls[k][callback[k]] + 1]
  <2>4. calls' = [calls EXCEPT ![k] = row]
    BY <2>2
  <2>5. row \in [1..Limit -> Nat] /\ \A i \in 1..Limit : i # callback[k] => row[i] = calls[k][i]
    <3>1. calls[k] \in [1..Limit -> Nat]
      BY <1>2
    <3>2. calls[k][callback[k]] \in Nat
      BY <2>1, <3>1
    <3>3. calls[k][callback[k]] + 1 \in Nat
      BY <3>2
    <3> QED
      BY <2>1, <3>1, <3>3
  <2> HIDE DEF row
  <2>6. calls' \in [Kinds -> [1..Limit -> Nat]]
    BY <1>2, <2>4, <2>5
  <2>7. \A j \in Kinds : \A i \in 1..Limit :
          calls'[j][i] = calls[j][i] \/ (j = k /\ i = callback[k])
    BY <1>2, <2>4, <2>5
  <2>8. pending' \in [Kinds -> OpIds]
        /\ \A j \in Kinds : pending'[j] = pending[j] \/ (j = k /\ pending'[k] = 0)
    BY <1>2, <2>2, <2>3
  <2> QED
    BY <2>2, <2>6, <2>7, <2>8
<1> QED
  BY <1>2, <1>3, <1>4 DEF Invoke, OpIds, Retry

\* A handler goes on to another place.
LEMMA AtFacts ==
  ASSUME Base, NEW w \in Workers, NEW pc, NEW kind,
         \/ pc = "idle" /\ kind = "none"
         \/ pc = "start" /\ kind \in Watches
         \/ pc \in {"retry", "clear"} /\ kind = "read"
         \/ pc = "callback" /\ kind \in Kinds,
         at' = [at EXCEPT ![w] = In(pc, kind)]
  PROVE  /\ at' \in [Workers -> Place]
         /\ at'[w].pc = pc /\ at'[w].kind = kind
         /\ \A v \in Workers \ {w} : at'[v] = at[v]
         /\ Shape'
<1>1. at \in [Workers -> Place]
  BY DEF Base, TypeOK, Place
<1>2. In(pc, kind) \in Place
  BY DEF In, Place, Watches, Kinds
<1>3. In(pc, kind).pc = pc /\ In(pc, kind).kind = kind
  BY DEF In
<1>4. at'[w] = In(pc, kind) /\ \A v \in Workers \ {w} : at'[v] = at[v]
  BY <1>1
<1>5. at' \in [Workers -> Place]
  BY <1>1, <1>2
<1>6. Shape'
  BY <1>3, <1>4 DEF Base, Shape
<1> QED
  BY <1>3, <1>4, <1>5, <1>6

\* Only a socket that was opened has handlers.
LEMMA Awake ==
  ASSUME Base, NEW w \in Workers, at[w].pc # "idle"
  PROVE  /\ socket_fd_ # "unset"
         /\ socket_fd_ = "closed" => mishap \cap {"stopped", "stale"} # {}
BY DEF Base, UnsetInv, ClosedInv, Still

\* A worker takes a task that was due.
LEMMA DueTaken ==
  ASSUME Base, NEW w \in Workers, NEW c \in Watches, HandleIO(w, c)
  PROVE  /\ posted' \subseteq posted /\ loose' \in [Watches -> Nat]
         /\ c \in Due /\ Due' \subseteq Due
<1>1. loose \in [Watches -> Nat]
  BY DEF Base, TypeOK
<1>2. CASE c \in posted /\ posted' = posted \ {c} /\ UNCHANGED loose
  BY <1>1, <1>2 DEF Due
<1>3. CASE loose[c] > 0 /\ loose' = [loose EXCEPT ![c] = @ - 1] /\ UNCHANGED posted
  <2>1. loose[c] \in Nat /\ loose[c] - 1 \in Nat
    BY <1>1, <1>3
  <2>2. loose' \in [Watches -> Nat] /\ \A d \in Watches : loose'[d] > 0 => loose[d] > 0
    BY <1>1, <1>3, <2>1
  <2> QED
    BY <1>3, <2>2 DEF Due
<1> QED
  BY <1>2, <1>3 DEF HandleIO

LEMMA BaseHandleIO ==
  ASSUME Base, NEW w \in Workers, NEW c \in Watches, HandleIO(w, c) PROVE Base'
<1>1. UNCHANGED <<socket_fd_, connect_state_, callback, freed, timer, watching,
                  armed, call, link, inbox, sent, eof, room, started, pending,
                  calls, crash>>
  BY DEF HandleIO, clientVars, kernelVars, opVars
<1>2. /\ at' \in [Workers -> Place]
      /\ Shape'
  BY AtFacts DEF HandleIO
<1>3. mishap' \subseteq Mishaps /\ mishap \subseteq mishap'
  BY DEF Base, TypeOK, HandleIO, Met, Mishaps
<1>4. /\ posted' \subseteq posted /\ loose' \in [Watches -> Nat]
      /\ c \in Due /\ Due' \subseteq Due
  BY DueTaken
<1>5. TypeOK'
  BY <1>1, <1>2, <1>3, <1>4 DEF Base, TypeOK, Place
<1>6. OneCall' /\ CallRoom' /\ Numbered'
  BY <1>1 DEF Base, OneCall, CallRoom, Numbered
<1>7. UnsetInv' /\ ClosedInv' /\ DueInv'
  BY <1>1, <1>3, <1>4 DEF Base, UnsetInv, ClosedInv, Still, DueInv
<1> QED
  BY <1>1, <1>2, <1>4, <1>5, <1>6, <1>7 DEF Base

LEMMA BaseUseAfterFree ==
  ASSUME Base, NEW w \in Workers, UseAfterFree(w) PROVE Base'
<1>1. TypeOK'
  BY DEF Base, TypeOK, UseAfterFree, clientVars, watchVars, kernelVars, opVars
<1>2. Shape' /\ OneCall' /\ CallRoom' /\ Numbered' /\ UnsetInv' /\ ClosedInv'
  BY DEF Base, UseAfterFree, clientVars, watchVars, kernelVars, opVars,
         Shape, OneCall, CallRoom, Numbered, UnsetInv, ClosedInv, Still, Due
<1>3. DueInv'
  BY DueSame DEF Base, DueInv, UseAfterFree, watchVars
<1> QED
  BY <1>1, <1>2, <1>3 DEF Base, UseAfterFree, clientVars, watchVars, kernelVars

\* What a handler does to its own place, the operations and the process.
Moves(w) ==
  \/ \E k \in Kinds : Invoke(w, k)
  \/ UNCHANGED <<at, pending,
                 calls>> /\ crash' \in Kinds \cup Dchecks \cup {"freed"}
  \/ /\ UNCHANGED <<pending, calls, crash>>
     /\ \/ at' = [at EXCEPT ![w] = In("idle", "none")]
        \/ at' = [at EXCEPT ![w] = In("retry", "read")]
        \/ at' = [at EXCEPT ![w] = In("clear", "read")]

\* What the handlers have in common keeps Base.
LEMMA BaseHandler ==
  ASSUME Base, NEW w \in Workers, Moves(w),
         at[w].pc # "idle" \/ timer # "off",
         UNCHANGED <<socket_fd_, freed, call, link, sent, eof, started>>,
         mishap \subseteq mishap', mishap' \subseteq Mishaps,
         connect_state_' \in {"kNone", "kConnecting", "kConnected"},
         timer' \in {"off", "pending", "posted"},
         room' \in BOOLEAN,
         inbox' = inbox \/ TakeData,
         callback' \in [Kinds -> OpIds \cup {Retry}],
         \A k \in Kinds : callback'[k] \in {callback[k], 0},
         watching' \subseteq Watches, armed' \subseteq watching', posted' \subseteq watching',
         UNCHANGED loose, DueInv'
  PROVE  Base'
<1>1. MaxChunks \in Nat
  BY TCPAssumption
<1>2. /\ socket_fd_ # "unset"
      /\ socket_fd_ = "closed" => mishap \cap {"stopped", "stale"} # {}
  BY DEF Base, UnsetInv, ClosedInv, Still
<1>3. at' \in [Workers -> Place] /\ Shape'
  <2>1. CASE at' = at
    BY <2>1 DEF Base, TypeOK, Shape, Place
  <2>2. ASSUME NEW k \in Kinds, at' = [at EXCEPT ![w] = In("callback", k)]
        PROVE  at' \in [Workers -> Place] /\ Shape'
    BY <2>2, AtFacts
  <2>3. CASE at' = [at EXCEPT ![w] = In("idle", "none")]
    BY <2>3, AtFacts
  <2>4. CASE at' = [at EXCEPT ![w] = In("retry", "read")]
    BY <2>4, AtFacts
  <2>5. CASE at' = [at EXCEPT ![w] = In("clear", "read")]
    BY <2>5, AtFacts
  <2> QED
    BY <2>1, <2>2, <2>3, <2>4, <2>5, InvokeFacts DEF Moves
<1>4. /\ calls' \in [Kinds -> [1..Limit -> Nat]] /\ pending' \in [Kinds -> OpIds]
      /\ crash' \in {"none", "freed"} \cup Dchecks \cup Kinds
      /\ \A j \in Kinds : \A i \in 1..Limit :
           calls'[j][i] = calls[j][i] \/ i = callback[j]
  BY InvokeFacts DEF Base, TypeOK, Moves
<1>5. inbox' \in 0..MaxChunks /\ inbox' <= sent'
  BY <1>1 DEF Base, TypeOK, TakeData
<1>6. posted' \subseteq Watches
  OBVIOUS
<1>7. TypeOK'
  BY <1>3, <1>4, <1>5, <1>6 DEF Base, TypeOK, Place
<1>8. Numbered'
  <2> SUFFICES ASSUME NEW k \in Kinds
               PROVE  /\ callback'[k] <= started[k]
                      /\ \A i \in 1..Limit : calls'[k][i] > 0 => i <= started[k]
    BY DEF Numbered
  <2>1. started[k] \in Nat /\ callback[k] <= started[k]
    BY DEF Base, TypeOK, Numbered
  <2>2. callback'[k] <= started[k]
    BY <2>1
  <2>3. \A i \in 1..Limit : calls[k][i] > 0 => i <= started[k]
    BY DEF Base, Numbered
  <2> QED
    BY <1>4, <2>1, <2>2, <2>3
<1>9. OneCall' /\ CallRoom' /\ UnsetInv' /\ ClosedInv'
  BY <1>2 DEF Base, OneCall, CallRoom, UnsetInv, ClosedInv
<1> QED
  BY <1>3, <1>5, <1>7, <1>8, <1>9 DEF Base

\* A handler leaves the watches alone or stops its own.
LEMMA WatchStep ==
  ASSUME Base, NEW cs,
         \/ UNCHANGED <<watchVars, mishap>>
         \/ StopWatching(cs) /\ mishap' = mishap \cup Stale(cs)
  PROVE  /\ watching' \subseteq Watches /\ armed' \subseteq watching'
         /\ posted' \subseteq watching' /\ UNCHANGED loose /\ DueInv'
         /\ mishap \subseteq mishap' /\ mishap' \subseteq Mishaps
<1>1. CASE UNCHANGED <<watchVars, mishap>>
  BY <1>1 DEF Base, TypeOK, DueInv, Due, watchVars
<1>2. CASE StopWatching(cs) /\ mishap' = mishap \cup Stale(cs)
  <2>1. mishap' \subseteq Mishaps
    BY <1>2 DEF Base, TypeOK, Stale, Mishaps
  <2> QED
    BY <1>2, <2>1, StopFacts, StopDue
<1> QED
  BY <1>1, <1>2

LEMMA BaseOnFileReadable ==
  ASSUME Base, NEW w \in Workers, OnFileReadable(w) PROVE Base'
<1>1. UNCHANGED <<socket_fd_, connect_state_, callback, freed, timer, call,
                  link, inbox, sent, eof, room, started>>
  BY DEF OnFileReadable, clientVars, kernelVars
<1>2. /\ watching' \subseteq Watches /\ armed' \subseteq watching'
      /\ posted' \subseteq watching' /\ UNCHANGED loose /\ DueInv'
      /\ mishap \subseteq mishap' /\ mishap' \subseteq Mishaps
  <2>1. \/ UNCHANGED <<watchVars, mishap>>
        \/ StopWatching({"read"}) /\ mishap' = mishap \cup Stale({"read"})
    BY DEF OnFileReadable, StopReading
  <2> QED
    BY <2>1, WatchStep
<1>3. Moves(w) /\ at[w].pc # "idle"
  BY DEF OnFileReadable, Moves, At, Kinds
<1> QED
  BY <1>1, <1>2, <1>3, BaseHandler DEF Base, TypeOK

LEMMA BaseRetryRead ==
  ASSUME Base, NEW w \in Workers, RetryRead(w) PROVE Base'
<1>1. UNCHANGED <<socket_fd_, connect_state_, callback, freed, timer, call,
                  link, sent, eof, room, started, mishap>>
  BY DEF RetryRead, clientVars
<1>2. /\ watching' \subseteq Watches /\ armed' \subseteq watching'
      /\ posted' \subseteq watching' /\ UNCHANGED loose /\ DueInv'
      /\ mishap \subseteq mishap' /\ mishap' \subseteq Mishaps
  <2>1. /\ watching' \subseteq Watches /\ armed' \subseteq watching'
        /\ watching \subseteq watching' /\ posted' \subseteq posted /\ UNCHANGED loose
    BY DEF Base, TypeOK, RetryRead, Watch, watchVars, Watches
  <2> QED
    BY <1>1, <2>1, DueSame DEF Base, DueInv, TypeOK
<1>3. Moves(w) /\ at[w].pc # "idle"
  BY DEF RetryRead, DcheckFails, DcheckHolds, Moves, At, Kinds, Dchecks
<1>4. inbox' = inbox \/ TakeData
  BY DEF RetryRead
<1> QED
  BY <1>1, <1>2, <1>3, <1>4, BaseHandler DEF Base, TypeOK

LEMMA BaseOnFileWritable ==
  ASSUME Base, NEW w \in Workers, OnFileWritable(w) PROVE Base'
<1>1. UNCHANGED <<socket_fd_, callback, freed, timer, call, link, inbox, sent,
                  eof, started>>
  BY DEF OnFileWritable
<1>2. /\ watching' \subseteq Watches /\ armed' \subseteq watching'
      /\ posted' \subseteq watching' /\ UNCHANGED loose /\ DueInv'
      /\ mishap \subseteq mishap' /\ mishap' \subseteq Mishaps
  <2>1. \/ UNCHANGED <<watchVars, mishap>>
        \/ StopWatching({"connect"}) /\ mishap' = mishap \cup Stale({"connect"})
        \/ StopWatching({"write"}) /\ mishap' = mishap \cup Stale({"write"})
    BY DEF OnFileWritable, OnConnectDone, OnWriteDone
  <2> QED
    BY <2>1, WatchStep
<1>3. Moves(w) /\ at[w].pc # "idle"
  BY DEF OnFileWritable, OnConnectDone, OnWriteDone, Moves, At, Kinds, Idle, In
<1>4. connect_state_' \in {"kNone", "kConnecting", "kConnected"} /\ room' \in BOOLEAN
  BY DEF Base, TypeOK, OnFileWritable, OnConnectDone, OnWriteDone
<1> QED
  BY <1>1, <1>2, <1>3, <1>4, BaseHandler DEF Base, TypeOK

LEMMA BaseOnConnectTimeout ==
  ASSUME Base, NEW w \in Workers, OnConnectTimeout(w) PROVE Base'
<1>1. UNCHANGED <<socket_fd_, callback, freed, watching, armed, posted, loose,
                  call, link, inbox, sent, eof, room, started>>
  BY DEF OnConnectTimeout, watchVars, kernelVars
<1>2. Moves(w) /\ timer # "off"
  BY DEF OnConnectTimeout, Moves, Kinds
<1>3. /\ connect_state_' \in {"kNone", "kConnecting", "kConnected"}
      /\ timer' \in {"off", "pending", "posted"}
  BY DEF Base, TypeOK, OnConnectTimeout
<1>4. mishap' \subseteq Mishaps /\ mishap \subseteq mishap'
  BY DEF Base, TypeOK, OnConnectTimeout, Met, Mishaps
<1>5. DueInv'
  BY <1>1, <1>4, DueSame DEF Base, DueInv
<1> QED
  BY <1>1, <1>2, <1>3, <1>4, <1>5, BaseHandler DEF Base, TypeOK, DueInv

LEMMA ClearedFacts ==
  ASSUME Base, NEW k
  PROVE  /\ Cleared(k) \in [Kinds -> OpIds \cup {Retry}]
         /\ \A j \in Kinds : Cleared(k)[j] = IF j = k THEN 0 ELSE callback[j]
<1>1. 0 \in OpIds
  BY TCPAssumption DEF OpIds
<1> QED
  BY <1>1 DEF Base, TypeOK, Cleared

LEMMA BaseCallbackReturns ==
  ASSUME Base, NEW w \in Workers, CallbackReturns(w) PROVE Base'
<1>1. UNCHANGED <<socket_fd_, connect_state_, freed, timer, watching, armed,
                  posted, loose, call, link, inbox, sent, eof, room, started,
                  mishap>>
  BY DEF CallbackReturns, watchVars, kernelVars, opVars
<1>2. Moves(w) /\ at[w].pc # "idle"
  BY DEF CallbackReturns, Moves, At, opVars, Idle, In
<1>3. callback' \in [Kinds -> OpIds \cup {Retry}] /\ \A j \in Kinds : callback'[j] \in {callback[j], 0}
  BY ClearedFacts DEF CallbackReturns
<1>4. DueInv'
  BY <1>1, DueSame DEF Base, DueInv
<1> QED
  BY <1>1, <1>2, <1>3, <1>4, BaseHandler DEF Base, TypeOK, DueInv

LEMMA BaseOnReadDone ==
  ASSUME Base, NEW w \in Workers, OnReadDone(w) PROVE Base'
<1>1. UNCHANGED <<socket_fd_, connect_state_, freed, timer, watching, armed,
                  posted, loose, call, link, inbox, sent, eof, room, started,
                  mishap>>
  BY DEF OnReadDone, watchVars, kernelVars, opVars
<1>2. Moves(w) /\ at[w].pc # "idle"
  BY DEF OnReadDone, Moves, At, opVars, Idle, In
<1>3. callback' \in [Kinds -> OpIds \cup {Retry}] /\ \A j \in Kinds : callback'[j] \in {callback[j], 0}
  BY ClearedFacts DEF OnReadDone
<1>4. DueInv'
  BY <1>1, DueSame DEF Base, DueInv
<1> QED
  BY <1>1, <1>2, <1>3, <1>4, BaseHandler DEF Base, TypeOK, DueInv

LEMMA BaseEvent ==
  ASSUME Base, NEW c \in Watches, Event(c) PROVE Base'
<1>1. UNCHANGED <<socket_fd_, connect_state_, callback, freed, timer, watching,
                  call, at, link, inbox, sent, eof, room, started, pending,
                  calls, mishap, crash>>
  BY DEF Event, clientVars, kernelVars, opVars
<1>2. /\ armed' \subseteq watching /\ posted' \subseteq watching /\ watching # {}
      /\ loose' \in [Watches -> Nat] /\ Due' \subseteq Due \cup {c} /\ c \in watching
  BY DEF Base, TypeOK, DueInv, Event, Due
<1>3. TypeOK'
  BY <1>1, <1>2 DEF Base, TypeOK
<1>4. Shape' /\ OneCall' /\ CallRoom' /\ Numbered'
  BY <1>1 DEF Base, Shape, OneCall, CallRoom, Numbered
<1>5. UnsetInv' /\ ClosedInv' /\ DueInv'
  BY <1>1, <1>2 DEF Base, UnsetInv, ClosedInv, Still, DueInv
<1> QED
  BY <1>1, <1>2, <1>3, <1>4, <1>5 DEF Base

LEMMA BaseTimerFires ==
  ASSUME Base, TimerFires PROVE Base'
<1>1. UNCHANGED <<socket_fd_, connect_state_, callback, freed, watching, armed,
                  posted, loose, call, at, link, inbox, sent, eof, room, started,
                  pending, calls, mishap, crash>>
  BY DEF TimerFires, clientVars, watchVars, kernelVars, opVars
<1>2. timer = "pending" /\ timer' = "posted"
  BY DEF TimerFires
<1>3. TypeOK'
  BY <1>1, <1>2 DEF Base, TypeOK
<1>4. Shape' /\ OneCall' /\ CallRoom' /\ Numbered'
  BY <1>1 DEF Base, Shape, OneCall, CallRoom, Numbered
<1>5. UnsetInv' /\ ClosedInv' /\ DueInv'
  BY <1>1, <1>2 DEF Base, UnsetInv, ClosedInv, Still, DueInv, Due
<1> QED
  BY <1>1, <1>3, <1>4, <1>5 DEF Base

LEMMA BaseEdge ==
  ASSUME Base, Edge PROVE Base'
<1>1. UNCHANGED <<socket_fd_, connect_state_, callback, freed, timer, watching,
                  posted, loose, call, at, started, pending, calls, mishap, crash>>
  BY DEF Edge, clientVars, opVars
<1>2. armed' \subseteq watching /\ socket_fd_ = "open"
  BY DEF Base, TypeOK, Edge
<1>3. /\ link' \in {"down", "inprogress", "established", "failed"}
      /\ eof' \in BOOLEAN /\ room' \in BOOLEAN
  BY DEF Base, TypeOK, Edge
<1>4. inbox' \in 0..MaxChunks /\ sent' \in 0..MaxChunks /\ inbox' <= sent'
  <2>1. \/ UNCHANGED <<inbox, sent>>
        \/ sent < MaxChunks /\ inbox' = inbox + 1 /\ sent' = sent + 1
    BY DEF Edge
  <2> QED
    BY <2>1, TCPAssumption DEF Base, TypeOK
<1>5. TypeOK'
  BY <1>1, <1>2, <1>3, <1>4 DEF Base, TypeOK
<1>6. Shape' /\ OneCall' /\ CallRoom' /\ Numbered'
  BY <1>1 DEF Base, Shape, OneCall, CallRoom, Numbered
<1>7. UnsetInv' /\ ClosedInv'
  BY <1>1, <1>2 DEF UnsetInv, ClosedInv
<1>8. DueInv'
  BY <1>1, DueSame DEF Base, DueInv
<1> QED
  BY <1>1, <1>4, <1>5, <1>6, <1>7, <1>8 DEF Base

LEMMA BaseStep ==
  ASSUME Base, [Next]_vars PROVE Base'
<1>1. ASSUME NEW t \in Threads, AppStep(t) PROVE Base'
  BY <1>1, BaseConnect, BaseAdopt, BaseReadIfReady, BaseWrite, BaseCancel,
     BaseDisconnect DEF AppStep
<1>2. ASSUME NEW t \in Threads, Store(t) PROVE Base'
  BY <1>2, BaseStore
<1>3. ASSUME NEW w \in Workers, Handle(w) PROVE Base'
  BY <1>3, BaseHandleIO, BaseOnFileReadable, BaseRetryRead, BaseOnReadDone,
     BaseOnFileWritable,
     BaseOnConnectTimeout, BaseCallbackReturns, BaseUseAfterFree DEF Handle
<1>4. CASE UNCHANGED vars
  <2>1. TypeOK'
    BY <1>4 DEF Base, TypeOK, vars, clientVars, watchVars, kernelVars, opVars
  <2>2. Shape' /\ OneCall' /\ CallRoom' /\ Numbered' /\ UnsetInv' /\ ClosedInv'
    BY <1>4 DEF Base, Shape, OneCall, CallRoom, Numbered, UnsetInv, ClosedInv,
       Still, Due,
                vars, clientVars, watchVars, kernelVars, opVars
  <2>3. DueInv'
    BY <1>4, DueSame DEF Base, DueInv, vars, watchVars
  <2> QED
    BY <1>4, <2>1, <2>2, <2>3 DEF Base, vars, clientVars, watchVars, kernelVars
<1> QED
  BY <1>1, <1>2, <1>3, <1>4, BaseEvent, BaseTimerFires, BaseEdge DEF Next

(***************************************************************************)
(* Every variable of the client keeps its type, for any number of workers, *)
(* of operations and of pieces of data.                                    *)
(***************************************************************************)
THEOREM TypeCorrect == Spec => []TypeOK
<1>1. Base => TypeOK
  BY DEF Base
<1> QED
  BY BaseInit, BaseStep, <1>1, PTL DEF Spec

\* What a behaviour met is not forgotten.
LEMMA MishapGrows ==
  ASSUME Next PROVE mishap \subseteq mishap'
<1>1. ASSUME NEW t \in Threads, AppStep(t) \/ Store(t) PROVE mishap \subseteq mishap'
  BY <1>1 DEF AppStep, Connect, AdoptConnectedSocket, ReadIfReady, Write,
     CancelReadIfReady, Disconnect, Store
<1>2. ASSUME NEW w \in Workers, Handle(w) PROVE mishap \subseteq mishap'
  <2>1. ASSUME OnFileReadable(w) \/ RetryRead(w) \/ OnReadDone(w) PROVE mishap \subseteq mishap'
    BY <2>1 DEF OnFileReadable, RetryRead, OnReadDone
  <2>2. ASSUME OnFileWritable(w) PROVE mishap \subseteq mishap'
    BY <2>2 DEF OnFileWritable, OnConnectDone, OnWriteDone
  <2> QED
    BY <1>2, <2>1, <2>2 DEF Handle, HandleIO, OnConnectTimeout, CallbackReturns,
       UseAfterFree
<1> QED
  BY <1>1, <1>2 DEF Next, Event, TimerFires, Edge

\* A process that has ended takes no step.
LEMMA CrashLasts ==
  ASSUME Next PROVE crash = "none"
BY DEF Next, AppStep, Handle, Connect, AdoptConnectedSocket, ReadIfReady, Write,
   CancelReadIfReady, Disconnect, Store, HandleIO, OnFileReadable, RetryRead,
   OnReadDone, OnFileWritable, OnConnectTimeout, CallbackReturns, UseAfterFree,
   Event, TimerFires, Edge, MayStart, MayCall, At, Unharmed

\* In a client that is closed in peace no thread can call back.
LEMMA SilentStep ==
  ASSUME Base, Base', Next, socket_fd_ = "closed",
         mishap' \cap {"stopped", "stale"} = {}
  PROVE  calls' = calls
<1>1. mishap \subseteq mishap'
  BY MishapGrows
<1>2. Still
  BY <1>1 DEF Base, ClosedInv
<1>3. ASSUME NEW t \in Threads, AppStep(t) \/ Store(t) PROVE calls' = calls
  BY <1>3 DEF AppStep, Connect, AdoptConnectedSocket, ReadIfReady, Write,
     CancelReadIfReady,
              Disconnect, Store, opVars
<1>4. ASSUME NEW w \in Workers, Handle(w) PROVE calls' = calls
  BY <1>2, <1>4 DEF Handle, HandleIO, OnFileReadable, RetryRead, OnReadDone,
     OnFileWritable, OnConnectTimeout, CallbackReturns, UseAfterFree, At, Still, opVars
<1>5. ASSUME NEW c \in Watches, Event(c) PROVE calls' = calls
  BY <1>5 DEF Event, opVars
<1> QED
  BY <1>3, <1>4, <1>5 DEF Next, TimerFires, Edge, opVars

(***************************************************************************)
(* After a Disconnect that found no handler, no operation and no posted    *)
(* timer on its way, and no task whose handle was overwritten by that of a *)
(* later one, no callback is called, however many tasks were posted.       *)
(***************************************************************************)
THEOREM SilentOnceClosed == Spec => SilentAfterDisconnect
<1>1. Base /\ Base' /\ [Next]_vars
      => [socket_fd_ = "closed" /\ mishap' \cap {"stopped", "stale"} = {}
          => calls' = calls]_vars
  BY SilentStep
<1> QED
  BY BaseInit, BaseStep, <1>1, PTL DEF Spec, SilentAfterDisconnect

-----------------------------------------------------------------------------
(* Calm is an invariant *)

\* A step that leaves a family alone.
LEMMA ReadSame ==
  ASSUME ReadInv, Shape, Shape',
         \A k \in ReadKinds : pending'[k] = pending[k] /\ callback'[k] = callback[k],
         \A t \in Threads : call'[t] = call[t] \/ (call[t] \notin Reads /\ call'[t] \notin Reads),
         \A w \in Workers :
           at'[w] = at[w] \/ (at[w].kind \notin ReadKinds /\ at'[w].kind \notin ReadKinds),
         "read" \in watching' <=> "read" \in watching,
         "read" \in Due' => "read" \in Due \/ Ready("read"),
         Ready("read") => Ready("read")'
  PROVE  ReadInv'
<1>1. /\ pending'["read"] = pending["read"] /\ pending'["ready"] = pending["ready"]
      /\ callback'["read"] = callback["read"] /\ callback'["ready"] = callback["ready"]
  BY DEF ReadKinds
<1>2. \A w \in Workers : at[w].pc = "retry" => at[w].kind \in ReadKinds
  BY DEF Shape, ReadKinds
<1>3. \A w \in Workers : at'[w].pc = "retry" => at'[w].kind \in ReadKinds
  BY DEF Shape, ReadKinds
<1>4. ReadCalled'
  BY <1>1 DEF ReadInv, ReadCalled, Reads
<1>5. ReadyPending'
  BY <1>1 DEF ReadInv, ReadyPending
<1>6. ReadPending'
  BY <1>1, <1>2, <1>3 DEF ReadInv, ReadPending
<1>7. ReadServed'
  <2>1. ("read" \in watching => \/ \E t \in Threads : call[t] \in Reads
                                \/ pending["read"] # 0 \/ pending["ready"] # 0)'
    BY <1>1 DEF ReadInv, ReadServed
  <2>2. "read" \in Due' => Ready("read")'
    BY DEF ReadInv, ReadServed
  <2>3. ASSUME NEW w \in Workers, at'[w].pc = "start", at'[w].kind = "read"
        PROVE  (pending'["read"] # 0 \/ pending'["ready"] # 0) /\ Ready("read")'
    BY <1>1, <2>3 DEF ReadInv, ReadServed, ReadKinds
  <2>4. ASSUME NEW w \in Workers, at'[w].pc = "retry"
        PROVE  pending'["read"] # 0 /\ Ready("read")' /\ "read" \notin watching'
    BY <1>1, <1>2, <1>3, <2>4 DEF ReadInv, ReadServed
  <2> QED
    BY <2>1, <2>2, <2>3, <2>4 DEF ReadServed
<1> QED
  BY <1>4, <1>5, <1>6, <1>7 DEF ReadInv

LEMMA OpSame ==
  ASSUME NEW k \in {"connect", "write"}, OpInv(k),
         pending'[k] = pending[k], callback'[k] = callback[k],
         \A t \in Threads : call'[t] = call[t] \/ (call[t] # k /\ call'[t] # k),
         \A w \in Workers : at'[w] = at[w] \/ (at[w].kind # k /\ at'[w].kind # k),
         k \in watching' <=> k \in watching
  PROVE  OpInv(k)'
BY DEF OpInv, OpCalled, OpPending, OpServed

LEMMA CalmInit == Init => Calm
<1> SUFFICES ASSUME Init PROVE Calm
  OBVIOUS
<1>1. /\ \A w \in Workers : at[w].pc = "idle" /\ at[w].kind = "none"
      /\ \A t \in Threads : call[t] = "none"
      /\ \A k \in Kinds : pending[k] = 0
      /\ watching = {} /\ Due = {} /\ crash = "none"
  BY DEF Init, Idle, Due
<1>2. OneHandler
  BY <1>1 DEF OneHandler, ReadKinds
<1>3. ReadInv
  BY <1>1 DEF ReadInv, ReadCalled, ReadyPending, ReadPending, ReadServed,
     Reads, Kinds
<1>4. OpInv("connect") /\ OpInv("write")
  BY <1>1 DEF OpInv, OpCalled, OpPending, OpServed, Kinds
<1> QED
  BY <1>1, <1>2, <1>3, <1>4 DEF Calm, CalmInv, StateInv

LEMMA CalmConnect ==
  ASSUME Base, Base', NEW t \in Threads, Connect(t) PROVE CalmInv'
<1>1. Still /\ \A k \in Kinds : pending[k] = 0
  BY DEF Base, UnsetInv, Connect
<1>2. UNCHANGED <<at, pending>>
  BY DEF Connect, opVars
<1>3. /\ \A w \in Workers : at'[w].kind = "none" /\ at'[w].pc = "idle"
      /\ \A k \in Kinds : pending'[k] = 0
  BY <1>1, <1>2 DEF Base, Shape, Still
<1>4. \/ UNCHANGED <<watching, Due, call>>
      \/ /\ watching' = watching \cup {"connect"} /\ Due' \subseteq Due
         /\ call' = [call EXCEPT ![t] = "connect"] /\ connect_state_' = "kConnecting"
  BY DEF Connect, OpenFails, StartConnect, Watch, watchVars, Due
<1>5. /\ watching' \subseteq {"connect"} /\ Due' = {}
      /\ \A u \in Threads : call'[u] \in {"none", "connect"}
      /\ "connect" \in watching' => connect_state_' = "kConnecting" /\ call'[t] = "connect"
      /\ \A u \in Threads : call'[u] = "connect" => "connect" \in watching'
  BY <1>1, <1>4 DEF Still, Base, TypeOK
<1>6. OneHandler'
  BY <1>3 DEF OneHandler, ReadKinds
<1>7. ReadInv'
  BY <1>3, <1>5 DEF ReadInv, ReadCalled, ReadyPending, ReadPending, ReadServed,
     Reads, Kinds
<1>8. OpInv("connect")' /\ OpInv("write")'
  BY <1>3, <1>5 DEF OpInv, OpCalled, OpPending, OpServed, Kinds
<1>9. StateInv'
  BY <1>5 DEF StateInv
<1> QED
  BY <1>6, <1>7, <1>8, <1>9 DEF CalmInv

LEMMA CalmAdopt ==
  ASSUME Base, Base', CalmInv, NEW t \in Threads, AdoptConnectedSocket(t) PROVE CalmInv'
<1>1. Still
  BY DEF Base, UnsetInv, AdoptConnectedSocket
<1>2. UNCHANGED <<callback, pending, call, at, watching, Due, inbox, eof>>
  BY DEF AdoptConnectedSocket, watchVars, opVars, Due
<1>3. OneHandler' /\ StateInv'
  BY <1>1, <1>2 DEF CalmInv, OneHandler, StateInv, Still
<1>4. OpInv("connect")' /\ OpInv("write")'
  BY <1>2, OpSame DEF CalmInv
<1>5. ReadInv'
  BY <1>1, <1>2 DEF CalmInv, ReadInv, ReadCalled, ReadyPending, ReadPending,
     ReadServed, Still
<1> QED
  BY <1>3, <1>4, <1>5 DEF CalmInv

LEMMA CalmReadIfReady ==
  ASSUME Base, Base', CalmInv, NEW t \in Threads, NEW kind \in {"read", "ready"},
         ReadIfReady(t, kind), mishap' = {}, crash' = "none"
  PROVE  CalmInv'
<1>1. UNCHANGED <<callback, pending, at, connect_state_, link, eof>>
  BY DEF ReadIfReady, clientVars, opVars
<1>2. /\ pending["read"] = 0 /\ pending["ready"] = 0
      /\ \A u \in Threads : call[u] \notin Reads
  BY DEF ReadIfReady, MayStart, Reads, Kinds
<1>3. "read" \notin watching /\ "read" \notin Due
  <2>1. mishap = {}
    BY DEF ReadIfReady, MayStart, MayCall, Unharmed
  <2> QED
    BY <1>2, <2>1 DEF CalmInv, ReadInv, ReadServed, Base, DueInv
<1>4. OneHandler'
  BY <1>1 DEF CalmInv, OneHandler
<1>5. CASE UNCHANGED <<watching, Due, call>>
  <2>1. ReadInv'
    BY <1>1, <1>2, <1>3, <1>5 DEF CalmInv, ReadInv, ReadCalled, ReadyPending,
       ReadPending, ReadServed
  <2>2. OpInv("connect")' /\ OpInv("write")' /\ StateInv'
    BY <1>1, <1>5, OpSame DEF CalmInv, StateInv
  <2> QED
    BY <1>4, <2>1, <2>2 DEF CalmInv
<1>6. CASE /\ watching' = watching \cup {"read"} /\ Due' \subseteq Due
           /\ call' = [call EXCEPT ![t] = kind] /\ ~Clearing(Reads)
  <2>1. call'[t] = kind /\ \A u \in Threads \ {t} : call'[u] = call[u]
    BY <1>6 DEF Base, TypeOK
  <2>2. \A w \in Workers : at[w].kind \notin ReadKinds
    BY <1>6 DEF Clearing, Reads, ReadKinds
  <2>3. \A w \in Workers : at[w].pc # "retry"
    BY <2>2 DEF Base, Shape, ReadKinds
  <2>4. ReadInv'
    BY <1>1, <1>2, <1>3, <1>6, <2>1, <2>2, <2>3
       DEF CalmInv, ReadInv, ReadCalled, ReadyPending, ReadPending, ReadServed,
       Reads, ReadKinds
  <2>5. call[t] = "none"
    BY DEF ReadIfReady, MayStart, MayCall
  <2>6. OpInv("connect")' /\ OpInv("write")'
    BY <1>1, <1>6, <2>1, <2>5, OpSame DEF CalmInv
  <2>7. StateInv'
    BY <1>1, <1>6 DEF CalmInv, StateInv
  <2> QED
    BY <1>4, <2>4, <2>6, <2>7 DEF CalmInv
<1> QED
  <2>1. UNCHANGED <<watching, Due, call>> \/
        (/\ watching' = watching \cup {"read"} /\ Due' \subseteq Due
         /\ call' = [call EXCEPT ![t] = kind] /\ ~Clearing(Reads))
    BY DEF ReadIfReady, DcheckFails, Dchecks, Watch, watchVars, Due
  <2> QED
    BY <1>5, <1>6, <2>1

LEMMA CalmWrite ==
  ASSUME Base, Base', CalmInv, NEW t \in Threads, Write(t), mishap' = {}, crash' = "none"
  PROVE  CalmInv'
<1>1. UNCHANGED <<callback, pending, at, connect_state_, link, eof, inbox>>
  BY DEF Write, clientVars, opVars
<1>2. pending["write"] = 0 /\ connect_state_ = "kConnected"
  BY DEF Write, MayStart, Kinds
<1>3. OneHandler'
  BY <1>1 DEF CalmInv, OneHandler
<1>4. Shape /\ Shape' /\ (Ready("read") => Ready("read")')
  BY <1>1 DEF Base, Ready
<1>5. CASE UNCHANGED <<watching, Due, call>>
  <2>1. ReadInv'
    BY <1>1, <1>4, <1>5, ReadSame DEF CalmInv
  <2>2. OpInv("connect")' /\ OpInv("write")' /\ StateInv'
    BY <1>1, <1>5, OpSame DEF CalmInv, StateInv
  <2> QED
    BY <1>3, <2>1, <2>2 DEF CalmInv
<1>6. CASE /\ watching' = watching \cup {"write"} /\ Due' \subseteq Due
           /\ call' = [call EXCEPT ![t] = "write"] /\ ~Clearing({"write"})
  <2>1. call'[t] = "write" /\ \A u \in Threads \ {t} : call'[u] = call[u]
    BY <1>6 DEF Base, TypeOK
  <2>2. \A w \in Workers : at[w].kind # "write"
    BY <1>6 DEF Clearing
  <2>3. call[t] = "none"
    BY DEF Write, MayStart, MayCall
  <2>4. ReadInv'
    BY <1>1, <1>4, <1>6, <2>1, <2>3, ReadSame DEF CalmInv, Reads
  <2>5. OpInv("write")'
    BY <1>1, <1>2, <1>6, <2>1, <2>2 DEF OpInv, OpCalled, OpPending, OpServed
  <2>6. OpInv("connect")'
    BY <1>1, <1>6, <2>1, <2>3, OpSame DEF CalmInv
  <2>7. StateInv'
    BY <1>1, <1>2, <1>6 DEF CalmInv, StateInv
  <2> QED
    BY <1>3, <2>4, <2>5, <2>6, <2>7 DEF CalmInv
<1> QED
  <2>1. UNCHANGED <<watching, Due, call>> \/
        (/\ watching' = watching \cup {"write"} /\ Due' \subseteq Due
         /\ call' = [call EXCEPT ![t] = "write"] /\ ~Clearing({"write"}))
    BY DEF Write, DcheckFails, Dchecks, Watch, watchVars, Due
  <2> QED
    BY <1>5, <1>6, <2>1

LEMMA CalmCancel ==
  ASSUME Base, Base', CalmInv, NEW t \in Threads, CancelReadIfReady(t), mishap' = {}
  PROVE  CalmInv'
<1>1. UNCHANGED <<call, at, connect_state_, link, eof, inbox>>
  BY DEF CancelReadIfReady, kernelVars
<1>2. /\ watching' = watching \ {"read"} /\ Due' \subseteq Due /\ "read" \notin Due'
  <2>1. DueInv'
    BY DEF Base
  <2> QED
    BY <2>1, StopFacts DEF CancelReadIfReady, DueInv, Due
<1>3. \A w \in Workers : at[w].kind \notin ReadKinds
  BY DEF CancelReadIfReady, Reads, ReadKinds
<1>4. \A u \in Threads : call[u] \notin Reads
  BY DEF CancelReadIfReady, CalmInv, ReadInv, ReadCalled
<1>5. /\ pending'["ready"] = 0 /\ pending'["read"] = 0
      /\ \A k \in {"connect", "write"} : pending'[k] = pending[k] /\ callback'[k] = callback[k]
  BY DEF CancelReadIfReady, CalmInv, ReadInv, ReadyPending, Base, TypeOK, Kinds
<1>6. ReadInv'
  <2>1. \A w \in Workers : at[w].pc # "retry"
    BY <1>3 DEF Base, Shape, ReadKinds
  <2> QED
    BY <1>1, <1>2, <1>3, <1>4, <1>5, <2>1
       DEF ReadInv, ReadCalled, ReadyPending, ReadPending, ReadServed,
       ReadKinds
<1>7. OpInv("connect")' /\ OpInv("write")'
  BY <1>1, <1>2, <1>5, OpSame DEF CalmInv
<1>8. OneHandler' /\ StateInv'
  BY <1>1, <1>2 DEF CalmInv, OneHandler, StateInv
<1> QED
  BY <1>6, <1>7, <1>8 DEF CalmInv

LEMMA CalmDisconnect ==
  ASSUME Base, Base', NEW t \in Threads, NEW destroy \in BOOLEAN, Disconnect(t, destroy),
         mishap' = {}
  PROVE  CalmInv'
<1>1. Still' /\ Shape' /\ \A k \in Kinds : pending'[k] = 0
  BY DEF Base, ClosedInv, Disconnect
<1>2. \A w \in Workers : at'[w].kind = "none"
  BY <1>1 DEF Shape, Still
<1>3. OneHandler'
  BY <1>2 DEF OneHandler, ReadKinds
<1>4. ReadInv'
  BY <1>1, <1>2 DEF Still, ReadInv, ReadCalled, ReadyPending, ReadPending,
     ReadServed, Reads, Kinds
<1>5. OpInv("connect")' /\ OpInv("write")'
  BY <1>1, <1>2 DEF Still, OpInv, OpCalled, OpPending, OpServed, Kinds
<1> QED
  BY <1>1, <1>3, <1>4, <1>5 DEF CalmInv, StateInv, Still

LEMMA CalmStore ==
  ASSUME Base, Base', CalmInv, NEW t \in Threads, Store(t), crash' = "none"
  PROVE  CalmInv'
<1>1. UNCHANGED <<connect_state_, watching, Due, at, link, inbox, eof>>
  BY DEF Store, watchVars, kernelVars, Due
<1>2. OneHandler' /\ StateInv'
  BY <1>1 DEF CalmInv, OneHandler, StateInv
<1>3. Shape /\ Shape' /\ (Ready("read") => Ready("read")')
  BY <1>1 DEF Base, Ready
<1>4. CASE /\ UNCHANGED opVars
           /\ call[t] = "read" /\ call' = [call EXCEPT ![t] = "read2"]
           /\ callback' = [callback EXCEPT !["ready"] = Retry]
  <2>1. call'[t] = "read2" /\ \A u \in Threads \ {t} : call'[u] = call[u]
    BY <1>4 DEF Base, TypeOK
  <2>2. /\ callback'["ready"] = Retry /\ pending' = pending
        /\ \A k \in {"connect", "write"} : callback'[k] = callback[k]
    BY <1>4 DEF Base, TypeOK, Kinds, opVars
  <2>3. OpInv("connect")' /\ OpInv("write")'
    BY <1>1, <1>4, <2>1, <2>2, OpSame DEF CalmInv
  <2>4. ReadInv'
    <3>1. /\ pending["read"] = 0 /\ pending["ready"] = 0 /\ "read" \in watching
          /\ \A w \in Workers : at[w].kind \notin ReadKinds
      BY <1>4 DEF CalmInv, ReadInv, ReadCalled, Reads
    <3>2. ReadServed'
      BY <1>1, <1>3, <2>1, <2>2, <3>1 DEF CalmInv, ReadInv, ReadServed, Reads,
         ReadKinds
    <3> QED
      BY <1>1, <2>1, <2>2, <3>1, <3>2 DEF ReadInv, ReadCalled, ReadyPending,
         ReadPending
  <2> QED
    BY <1>2, <2>3, <2>4 DEF CalmInv
<1>5. ASSUME call[t] \in {"connect", "read2", "ready", "write"},
             call' = [call EXCEPT ![t] = "none"],
             callback' = [callback EXCEPT ![Slot(call[t])] = started[Slot(call[t])] + 1],
             pending' = [pending EXCEPT ![Slot(call[t])] = started[Slot(call[t])] + 1]
      PROVE  CalmInv'
  <2>1. PICK k \in Kinds, n \in Nat : k = Slot(call[t]) /\ n = started[k] + 1 /\ n # 0
    BY <1>5 DEF Slot, Kinds, Base, TypeOK
  <2>2. call'[t] = "none" /\ \A u \in Threads \ {t} : call'[u] = call[u]
    BY <1>5 DEF Base, TypeOK
  <2>3. /\ callback'[k] = n /\ pending'[k] = n
        /\ \A j \in Kinds \ {k} : callback'[j] = callback[j] /\ pending'[j] = pending[j]
    BY <1>5, <2>1 DEF Base, TypeOK
  <2>4. ASSUME NEW j \in {"connect", "write"}, j # call[t] PROVE OpInv(j)'
    <3>1. j \in Kinds \ {k} /\ OpInv(j)
      BY <2>1, <2>4, <1>5 DEF Slot, Kinds, CalmInv
    <3> QED
      BY <1>1, <2>2, <2>3, <2>4, <3>1, OpSame
  <2>5. ASSUME NEW j \in {"connect", "write"}, j = call[t] PROVE OpInv(j)'
    <3>1. k = j
      BY <2>1, <2>5 DEF Slot
    <3>2. /\ pending[j] = 0 /\ j \in watching
          /\ \A w \in Workers : at[w].kind # j
          /\ \A u \in Threads \ {t} : call[u] # j
      BY <2>5 DEF CalmInv, OpInv, OpCalled, Base, OneCall
    <3> QED
      BY <1>1, <2>1, <2>2, <2>3, <3>1, <3>2 DEF OpInv, OpCalled, OpPending,
         OpServed
  <2>6. ReadInv'
    <3>1. CASE call[t] \in {"connect", "write"}
      <4>1. k \notin ReadKinds /\ call[t] \notin Reads
        BY <2>1, <3>1 DEF Slot, ReadKinds, Reads
      <4> QED
        BY <1>1, <1>3, <2>2, <2>3, <4>1, ReadSame DEF CalmInv, ReadKinds,
           Kinds, Reads
    <3>2. CASE call[t] \in {"read2", "ready"}
      <4>1. /\ pending["read"] = 0 /\ pending["ready"] = 0 /\ "read" \in watching
            /\ \A w \in Workers : at[w].kind \notin ReadKinds
            /\ call[t] = "read2" => callback["ready"] = Retry
        BY <3>2 DEF CalmInv, ReadInv, ReadCalled, Reads
      <4>2. \A u \in Threads \ {t} : call[u] \notin Reads
        BY <3>2 DEF Base, OneCall, Reads
      <4>3. \A u \in Threads : call'[u] \notin Reads
        BY <2>2, <4>2 DEF Reads
      <4>4. \/ k = "read" /\ callback["ready"] = Retry
            \/ k = "ready"
        BY <2>1, <3>2, <4>1 DEF Slot
      <4>5. ReadServed'
        BY <1>1, <1>3, <2>1, <2>3, <4>1, <4>4, <4>3 DEF CalmInv, ReadInv,
           ReadServed, ReadKinds, Shape
      <4>6. ReadCalled' /\ ReadyPending' /\ ReadPending'
        BY <1>1, <2>1, <2>3, <4>1, <4>3, <4>4 DEF ReadCalled, ReadyPending,
           ReadPending, Kinds
      <4> QED
        BY <4>5, <4>6 DEF ReadInv
    <3> QED
      BY <1>5, <3>1, <3>2
  <2> QED
    BY <1>2, <2>4, <2>5, <2>6 DEF CalmInv
<1> QED
  BY <1>4, <1>5, StoreCases

LEMMA CalmHandleIO ==
  ASSUME Base, Base', CalmInv, NEW w \in Workers, NEW c \in Watches, HandleIO(w, c),
         mishap' = {}
  PROVE  CalmInv'
<1>1. UNCHANGED <<callback, pending, call, watching, connect_state_, link,
                  inbox, eof>>
  BY DEF HandleIO, clientVars, kernelVars, opVars
<1>2. at[w].pc = "idle" /\ at[w].kind = "none" /\ c \in Due /\ Due' \subseteq Due
  <2>1. c \in Due /\ Due' \subseteq Due
    BY DueTaken
  <2> QED
    BY <2>1 DEF HandleIO, Idle
<1>3. /\ at'[w].pc = "start" /\ at'[w].kind = c
      /\ \A v \in Workers \ {w} : at'[v] = at[v]
  BY AtFacts DEF HandleIO
<1>4. c \in watching /\ Shape /\ Shape' /\ (Ready("read") => Ready("read")')
  <2>1. mishap = {}
    BY DEF HandleIO
  <2> QED
    BY <1>1, <1>2, <2>1 DEF Base, Ready, DueInv
<1>5. Met(w, IF c = "read" THEN Reads ELSE {c}) = {}
  BY DEF HandleIO
<1>6. StateInv'
  BY <1>1 DEF CalmInv, StateInv
<1>7. CASE c = "read"
  <2>1. /\ \A t \in Threads : call[t] \notin Reads
        /\ \A v \in Workers \ {w} : at[v].kind \notin ReadKinds
    BY <1>5, <1>7 DEF Met, Reads, ReadKinds
  <2>2. (pending["read"] # 0 \/ pending["ready"] # 0) /\ Ready("read")
    BY <1>2, <1>4, <1>7, <2>1 DEF CalmInv, ReadInv, ReadServed
  <2>3. OpInv("connect")' /\ OpInv("write")'
    BY <1>1, <1>2, <1>3, <1>7, OpSame DEF CalmInv
  <2>4. OneHandler'
    BY <1>3, <1>7, <2>1 DEF CalmInv, OneHandler, ReadKinds
  <2>5. \A v \in Workers : at'[v].kind \in ReadKinds => v = w
    BY <1>3, <2>1
  <2>6. "read" \in watching /\ \A v \in Workers : at'[v].pc # "retry"
    BY <1>3, <1>4, <1>7, <2>5 DEF Shape, ReadKinds
  <2>7. ReadInv'
    BY <1>1, <1>2, <1>3, <1>4, <1>7, <2>1, <2>2, <2>5, <2>6
       DEF CalmInv, ReadInv, ReadCalled, ReadyPending, ReadPending, ReadServed
  <2> QED
    BY <1>6, <2>3, <2>4, <2>7 DEF CalmInv
<1>8. CASE c \in {"connect", "write"}
  <2>1. /\ \A t \in Threads : call[t] # c
        /\ \A v \in Workers \ {w} : at[v].kind # c
    BY <1>5, <1>8 DEF Met
  <2>2. OpInv(c) /\ pending[c] # 0
    BY <1>4, <1>8, <2>1 DEF CalmInv, OpInv, OpServed
  <2>3. OpInv(c)'
    BY <1>1, <1>3, <2>1, <2>2 DEF OpInv, OpCalled, OpPending, OpServed
  <2>4. ASSUME NEW j \in {"connect", "write"} \ {c} PROVE OpInv(j)'
    BY <1>1, <1>2, <1>3, <1>8, <2>4, OpSame DEF CalmInv
  <2>5. ReadInv'
    BY <1>1, <1>2, <1>3, <1>4, <1>8, ReadSame DEF CalmInv, ReadKinds
  <2>6. OneHandler'
    BY <1>3, <1>8, <2>1 DEF CalmInv, OneHandler, ReadKinds
  <2> QED
    BY <1>6, <1>8, <2>3, <2>4, <2>5, <2>6 DEF CalmInv
<1> QED
  BY <1>7, <1>8 DEF Watches

\* A slot that is called and does not end the process.
LEMMA InvokeCalls ==
  ASSUME Base, NEW w \in Workers, NEW k \in Kinds, Invoke(w, k), crash' = "none"
  PROVE  /\ callback[k] > 0
         /\ at'[w].pc = "callback" /\ at'[w].kind = k
         /\ \A v \in Workers \ {w} : at'[v] = at[v]
         /\ pending'[k] = IF pending[k] = callback[k] THEN 0 ELSE pending[k]
         /\ \A j \in Kinds \ {k} : pending'[j] = pending[j]
<1>1. callback[k] # 0
  BY DEF Invoke, Kinds
<1>2. /\ callback[k] > 0
      /\ pending' = [pending EXCEPT ![k] = IF @ = callback[k] THEN 0 ELSE @]
      /\ at' = [at EXCEPT ![w] = In("callback", k)]
  BY <1>1 DEF Invoke
<1>3. /\ at'[w].pc = "callback" /\ at'[w].kind = k
      /\ \A v \in Workers \ {w} : at'[v] = at[v]
  BY <1>2, AtFacts
<1> QED
  BY <1>2, <1>3 DEF Base, TypeOK

LEMMA CalmOnFileReadable ==
  ASSUME Base, Base', CalmInv, NEW w \in Workers, OnFileReadable(w), crash' = "none"
  PROVE  CalmInv'
<1>1. UNCHANGED <<callback, call, connect_state_, link, inbox, eof>>
  BY DEF OnFileReadable, clientVars, kernelVars
<1>2. at[w].pc = "start" /\ at[w].kind = "read"
  BY DEF OnFileReadable, At
<1>3. /\ pending["read"] # 0 \/ pending["ready"] # 0
      /\ Ready("read") /\ Ready("read")'
  BY <1>1, <1>2 DEF CalmInv, ReadInv, ReadServed, Ready
<1>4. watching' = watching \ {"read"} /\ Due' \subseteq Due
  <2>1. StopWatching({"read"})
    BY DEF OnFileReadable, StopReading
  <2> QED
    BY <2>1, StopFacts DEF Due
<1>5. \A v \in Workers \ {w} : at[v].kind \notin ReadKinds
  BY <1>2 DEF CalmInv, OneHandler, ReadKinds
<1>6. \A t \in Threads : call[t] \notin Reads
  BY <1>2 DEF CalmInv, ReadInv, ReadCalled, ReadKinds
<1>7. Shape /\ Shape' /\ "ready" \in Kinds /\ "read" \in Kinds
  BY DEF Base, Kinds
<1>8. CASE /\ callback["ready"] = Retry
           /\ at' = [at EXCEPT ![w] = In("retry", "read")] /\ UNCHANGED pending
  <2>1. /\ at'[w].pc = "retry" /\ at'[w].kind = "read"
        /\ \A v \in Workers \ {w} : at'[v] = at[v]
    BY <1>8, AtFacts
  <2>2. pending["ready"] = 0 /\ pending["read"] # 0
    BY <1>3, <1>7, <1>8 DEF CalmInv, ReadInv, ReadyPending, Base, TypeOK,
       OpIds, Retry
  <2>3. ReadInv'
    BY <1>1, <1>3, <1>4, <1>5, <1>6, <1>8, <2>1, <2>2
       DEF CalmInv, ReadInv, ReadCalled, ReadyPending, ReadPending, ReadServed,
       ReadKinds, Shape, Base
  <2>4. OneHandler'
    BY <1>5, <2>1 DEF CalmInv, OneHandler, ReadKinds
  <2>5. OpInv("connect")' /\ OpInv("write")' /\ StateInv'
    BY <1>1, <1>2, <1>4, <1>8, <2>1, OpSame DEF CalmInv, StateInv
  <2> QED
    BY <2>3, <2>4, <2>5 DEF CalmInv
<1>9. CASE callback["ready"] > 0 /\ Invoke(w, "ready")
  <2>1. /\ at'[w].pc = "callback" /\ at'[w].kind = "ready"
        /\ \A v \in Workers \ {w} : at'[v] = at[v]
        /\ pending'["ready"] = IF pending["ready"] = callback["ready"] THEN 0 ELSE pending["ready"]
        /\ \A j \in Kinds \ {"ready"} : pending'[j] = pending[j]
    BY <1>7, <1>9, InvokeCalls
  <2>2. pending["read"] = 0 /\ pending["ready"] = callback["ready"]
    BY <1>3, <1>7, <1>9 DEF CalmInv, ReadInv, ReadyPending, ReadPending, Retry
  <2>3. pending'["read"] = 0 /\ pending'["ready"] = 0
        /\ pending'["connect"] = pending["connect"] /\ pending'["write"] = pending["write"]
    BY <2>1, <2>2 DEF Kinds
  <2>4. \A v \in Workers : at'[v].pc = "callback" \/ at'[v].kind \notin ReadKinds
    BY <1>5, <2>1
  <2>5. ReadInv'
    BY <1>1, <1>3, <1>4, <1>6, <1>7, <2>3, <2>4
       DEF ReadInv, ReadCalled, ReadyPending, ReadPending, ReadServed,
       ReadKinds, Shape
  <2>6. OneHandler'
    BY <1>5, <2>1 DEF CalmInv, OneHandler, ReadKinds
  <2>7. OpInv("connect")' /\ OpInv("write")' /\ StateInv'
    BY <1>1, <1>2, <1>4, <2>1, <2>3, OpSame DEF CalmInv, StateInv
  <2> QED
    BY <2>5, <2>6, <2>7 DEF CalmInv
<1> QED
  BY <1>8, <1>9 DEF OnFileReadable

LEMMA CalmRetryRead ==
  ASSUME Base, Base', CalmInv, NEW w \in Workers, RetryRead(w), crash' = "none",
         mishap' = {}
  PROVE  CalmInv'
<1>1. UNCHANGED <<callback, call, connect_state_, link, eof>>
  BY DEF RetryRead, clientVars
<1>2. at[w].pc = "retry" /\ at[w].kind = "read"
  BY DEF RetryRead, At, Base, Shape
<1>3. pending["read"] # 0 /\ Ready("read") /\ "read" \notin watching
  BY <1>2 DEF CalmInv, ReadInv, ReadServed
<1>4. /\ callback["read"] = pending["read"] /\ callback["ready"] = Retry
      /\ pending["ready"] = 0 /\ "read" \notin Due
  <2>1. mishap = {}
    BY DEF RetryRead
  <2> QED
    BY <1>3, <2>1 DEF CalmInv, ReadInv, ReadPending, ReadyPending, Base, DueInv
<1>5. ~NothingToRead
  BY <1>3 DEF Ready, NothingToRead, Base, TypeOK
<1>6. Invoke(w, "read") /\ UNCHANGED watchVars
  BY <1>5 DEF RetryRead, DcheckFails, Dchecks
<1>7. \A v \in Workers \ {w} : at[v].kind \notin ReadKinds
  BY <1>2 DEF CalmInv, OneHandler, ReadKinds
<1>8. \A t \in Threads : call[t] \notin Reads
  BY <1>2 DEF CalmInv, ReadInv, ReadCalled, ReadKinds
<1>9. "read" \in Kinds /\ Shape'
  BY DEF Base, Kinds
<1>10. /\ at'[w].pc = "callback" /\ at'[w].kind = "read"
       /\ \A v \in Workers \ {w} : at'[v] = at[v]
       /\ pending'["read"] = 0 /\ pending'["ready"] = 0
       /\ \A j \in Kinds \ {"read"} : pending'[j] = pending[j]
  BY <1>4, <1>6, <1>9, InvokeCalls DEF Kinds
<1>11. \A v \in Workers : at'[v].pc = "callback" \/ at'[v].kind \notin ReadKinds
  BY <1>7, <1>10
<1>12. UNCHANGED <<watching, Due>>
  BY <1>6 DEF watchVars, Due
<1>13. ReadInv'
  BY <1>1, <1>3, <1>4, <1>8, <1>9, <1>10, <1>11, <1>12
     DEF ReadInv, ReadCalled, ReadyPending, ReadPending, ReadServed, ReadKinds,
     Shape
<1>14. OneHandler'
  BY <1>7, <1>10 DEF CalmInv, OneHandler, ReadKinds
<1>15. OpInv("connect")' /\ OpInv("write")' /\ StateInv'
  BY <1>1, <1>2, <1>10, <1>12, OpSame DEF CalmInv, StateInv, Kinds
<1> QED
  BY <1>13, <1>14, <1>15 DEF CalmInv

\* The handler that clears a slot has no operation waiting for it.
LEMMA CalmCallbackReturns ==
  ASSUME Base, Base', CalmInv, NEW w \in Workers, CallbackReturns(w)
  PROVE  CalmInv'
<1>1. UNCHANGED <<pending, call, watching, Due, connect_state_, link, inbox,
                  eof>>
  BY DEF CallbackReturns, watchVars, kernelVars, opVars, Due
<1>2. PICK k \in Kinds : k = at[w].kind
  BY DEF CallbackReturns, At, Base, Shape
<1>3. at[w].pc = "callback" /\ pending[k] = 0
  BY <1>2 DEF CallbackReturns, At, CalmInv, OpInv, OpPending, ReadInv,
     ReadPending, ReadyPending, ReadKinds, Kinds
<1>4. k \in ReadKinds => /\ pending["read"] = 0 /\ pending["ready"] = 0
                         /\ \A t \in Threads : call[t] \notin Reads
  BY <1>2, <1>3 DEF CalmInv, ReadInv, ReadPending, ReadyPending, ReadCalled,
     ReadKinds
<1>5. \A j \in Kinds : j # k => callback'[j] = callback[j]
  BY <1>2, ClearedFacts DEF CallbackReturns
<1>6. /\ at'[w].pc # "start" /\ at'[w].pc # "retry"
      /\ at'[w].kind = IF k = "read" THEN "read" ELSE "none"
      /\ \A v \in Workers \ {w} : at'[v] = at[v]
  <2>1. CASE k = "read"
    <3>1. at' = [at EXCEPT ![w] = In("clear", "read")]
      BY <1>2, <2>1 DEF CallbackReturns
    <3>2. /\ at'[w].pc = "clear" /\ at'[w].kind = "read"
          /\ \A v \in Workers \ {w} : at'[v] = at[v]
      BY <3>1, AtFacts
    <3> QED
      BY <2>1, <3>2
  <2>2. CASE k # "read"
    <3>1. at' = [at EXCEPT ![w] = In("idle", "none")]
      BY <1>2, <2>2 DEF CallbackReturns, Idle, In
    <3>2. /\ at'[w].pc = "idle" /\ at'[w].kind = "none"
          /\ \A v \in Workers \ {w} : at'[v] = at[v]
      BY <3>1, AtFacts
    <3> QED
      BY <2>2, <3>2
  <2> QED
    BY <2>1, <2>2
<1>7. OneHandler' /\ StateInv'
  BY <1>1, <1>2, <1>6 DEF CalmInv, OneHandler, StateInv, ReadKinds
<1>8. Shape /\ Shape' /\ (Ready("read") <=> Ready("read")')
  BY <1>1 DEF Base, Ready
<1>9. ASSUME NEW j \in {"connect", "write"} PROVE OpInv(j)'
  <2>1. OpInv(j) /\ j \in Kinds
    BY <1>9 DEF CalmInv, Kinds
  <2>2. CASE j # k
    BY <1>1, <1>2, <1>5, <1>6, <2>1, <2>2, OpSame
  <2>3. CASE j = k
    BY <1>1, <1>2, <1>3, <1>6, <2>1, <2>3 DEF OpInv, OpCalled, OpPending,
       OpServed
  <2> QED
    BY <2>2, <2>3
<1>10. ReadInv'
  <2>1. CASE k \notin ReadKinds
    BY <1>1, <1>2, <1>5, <1>6, <1>8, <2>1, ReadSame DEF CalmInv, ReadKinds,
       Kinds
  <2>2. CASE k \in ReadKinds
    BY <1>1, <1>4, <1>6, <1>8, <2>2
       DEF CalmInv, ReadInv, ReadCalled, ReadyPending, ReadPending, ReadServed
  <2> QED
    BY <2>1, <2>2
<1> QED
  BY <1>7, <1>9, <1>10 DEF CalmInv

LEMMA CalmOnReadDone ==
  ASSUME Base, Base', CalmInv, NEW w \in Workers, OnReadDone(w)
  PROVE  CalmInv'
<1>1. UNCHANGED <<pending, call, watching, Due, connect_state_, link, inbox,
                  eof>>
  BY DEF OnReadDone, watchVars, kernelVars, opVars, Due
<1>2. at[w].pc = "clear" /\ at[w].kind = "read"
  BY DEF OnReadDone, At, Base, Shape
<1>3. /\ pending["read"] = 0 /\ pending["ready"] = 0
      /\ \A t \in Threads : call[t] \notin Reads
  BY <1>2 DEF CalmInv, ReadInv, ReadPending, ReadyPending, ReadCalled,
     ReadKinds
<1>4. \A j \in Kinds : j # "ready" => callback'[j] = callback[j]
  BY ClearedFacts DEF OnReadDone
<1>5. /\ at'[w].pc = "idle" /\ at'[w].kind = "none"
      /\ \A v \in Workers \ {w} : at'[v] = at[v]
  <2>1. at' = [at EXCEPT ![w] = In("idle", "none")]
    BY DEF OnReadDone, Idle, In
  <2> QED
    BY <2>1, AtFacts
<1>6. OneHandler' /\ StateInv'
  BY <1>1, <1>2, <1>5 DEF CalmInv, OneHandler, StateInv, ReadKinds
<1>7. Ready("read") <=> Ready("read")'
  BY <1>1 DEF Ready
<1>8. OpInv("connect")' /\ OpInv("write")'
  BY <1>1, <1>2, <1>4, <1>5, OpSame DEF CalmInv, Kinds
<1>9. ReadInv'
  BY <1>1, <1>3, <1>5, <1>7
     DEF CalmInv, ReadInv, ReadCalled, ReadyPending, ReadPending, ReadServed
<1> QED
  BY <1>6, <1>8, <1>9 DEF CalmInv

LEMMA CalmOnFileWritable ==
  ASSUME Base, Base', CalmInv, NEW w \in Workers, OnFileWritable(w), crash' = "none"
  PROVE  CalmInv'
<1>1. UNCHANGED <<callback, call, link, inbox, eof>>
  BY DEF OnFileWritable
<1>2. PICK k \in {"connect", "write"} : k = at[w].kind
  BY DEF OnFileWritable
<1>3. at[w].pc = "start" /\ pending[k] # 0 /\ k \in Kinds
  BY <1>2 DEF OnFileWritable, At, CalmInv, OpInv, OpServed, Kinds
<1>4. callback[k] = pending[k] /\ k \in watching
  BY <1>2, <1>3 DEF CalmInv, OpInv, OpPending
<1>5. /\ k = "connect" => connect_state_ = "kConnecting"
      /\ k = "write" => connect_state_ = "kConnected"
  BY <1>4 DEF CalmInv, StateInv
<1>6. /\ \A v \in Workers \ {w} : at[v].kind # k
      /\ \A t \in Threads : call[t] # k
  BY <1>2 DEF CalmInv, OneHandler, OpInv, OpCalled
<1>7. Shape /\ Shape' /\ (Ready("read") => Ready("read")')
  BY <1>1 DEF Base, Ready
<1>8. \/ /\ k = "write" /\ UNCHANGED <<connect_state_, watching, Due,
                                       pending>>
         /\ at' = [at EXCEPT ![w] = In("idle", "none")]
      \/ /\ k = "write" /\ UNCHANGED connect_state_
         /\ StopWatching({k}) /\ Invoke(w, k)
      \/ /\ k = "connect" /\ connect_state_' = "kConnected"
         /\ StopWatching({k}) /\ Invoke(w, k)
  BY <1>2, <1>5 DEF OnFileWritable, Connecting, OnConnectDone, OnWriteDone,
     watchVars, Idle, In, Due
<1>9. CASE /\ k = "write" /\ UNCHANGED <<connect_state_, watching, Due,
                                         pending>>
           /\ at' = [at EXCEPT ![w] = In("idle", "none")]
  <2>1. /\ at'[w].pc = "idle" /\ at'[w].kind = "none"
        /\ \A v \in Workers \ {w} : at'[v] = at[v]
    BY <1>9, AtFacts
  <2>2. OneHandler' /\ StateInv'
    BY <1>9, <2>1 DEF CalmInv, OneHandler, StateInv, ReadKinds
  <2>3. ReadInv'
    BY <1>1, <1>2, <1>7, <1>9, <2>1, ReadSame DEF CalmInv, ReadKinds
  <2>4. OpInv("connect")'
    BY <1>1, <1>2, <1>9, <2>1, OpSame DEF CalmInv
  <2>5. OpInv("write")'
    BY <1>1, <1>9, <2>1 DEF CalmInv, OpInv, OpCalled, OpPending, OpServed
  <2> QED
    BY <2>2, <2>3, <2>4, <2>5 DEF CalmInv
<1>10. CASE /\ StopWatching({k}) /\ Invoke(w, k)
            /\ connect_state_' = "kConnected"
  <2>1. watching' = watching \ {k} /\ Due' \subseteq Due
    BY <1>10, StopFacts DEF Due
  <2>2. /\ at'[w].pc = "callback" /\ at'[w].kind = k
        /\ \A v \in Workers \ {w} : at'[v] = at[v]
        /\ pending'[k] = 0 /\ \A j \in Kinds \ {k} : pending'[j] = pending[j]
    BY <1>3, <1>4, <1>10, InvokeCalls
  <2>3. OneHandler'
    BY <1>2, <1>6, <2>2 DEF CalmInv, OneHandler, ReadKinds
  <2>4. StateInv'
    BY <1>5, <1>10, <2>1 DEF CalmInv, StateInv
  <2>5. ReadInv'
    BY <1>1, <1>2, <1>7, <2>1, <2>2, ReadSame DEF CalmInv, ReadKinds, Kinds
  <2>6. OpInv(k)'
    BY <1>1, <1>2, <1>6, <2>1, <2>2 DEF OpInv, OpCalled, OpPending, OpServed
  <2>7. ASSUME NEW j \in {"connect", "write"} \ {k} PROVE OpInv(j)'
    <3>1. j \in Kinds /\ OpInv(j)
      BY <2>7 DEF CalmInv, Kinds
    <3> QED
      BY <1>1, <1>2, <2>1, <2>2, <2>7, <3>1, OpSame
  <2> QED
    BY <2>3, <2>4, <2>5, <2>6, <2>7 DEF CalmInv
<1> QED
  BY <1>5, <1>8, <1>9, <1>10

LEMMA CalmEvent ==
  ASSUME Base, Base', CalmInv, NEW c \in Watches, Event(c)
  PROVE  CalmInv'
<1>1. UNCHANGED <<callback, pending, call, at, watching, connect_state_, link,
                  inbox, eof>>
  BY DEF Event, clientVars, kernelVars, opVars
<1>2. Shape /\ Shape' /\ (Ready("read") => Ready("read")')
  BY <1>1 DEF Base, Ready
<1>3. "read" \in Due' => "read" \in Due \/ Ready("read")
  BY DEF Event, Due, Base, TypeOK
<1>4. ReadInv'
  BY <1>1, <1>2, <1>3, ReadSame DEF CalmInv
<1>5. OpInv("connect")' /\ OpInv("write")' /\ OneHandler' /\ StateInv'
  BY <1>1, OpSame DEF CalmInv, OneHandler, StateInv
<1> QED
  BY <1>4, <1>5 DEF CalmInv

LEMMA CalmTimerFires ==
  ASSUME Base, Base', CalmInv, TimerFires
  PROVE  CalmInv'
<1>1. UNCHANGED <<callback, pending, call, at, watching, Due,
                  connect_state_, link, inbox, eof>>
  BY DEF TimerFires, clientVars, watchVars, kernelVars, opVars, Due
<1>2. Shape /\ Shape' /\ (Ready("read") => Ready("read")')
  BY <1>1 DEF Base, Ready
<1>3. ReadInv'
  BY <1>1, <1>2, ReadSame DEF CalmInv
<1>4. OpInv("connect")' /\ OpInv("write")' /\ OneHandler' /\ StateInv'
  BY <1>1, OpSame DEF CalmInv, OneHandler, StateInv
<1> QED
  BY <1>3, <1>4 DEF CalmInv

\* Data that came stay until they are read.
LEMMA CalmEdge ==
  ASSUME Base, Base', CalmInv, Edge
  PROVE  CalmInv'
<1>1. UNCHANGED <<callback, pending, call, at, watching, Due,
                  connect_state_>>
  BY DEF Edge, clientVars, opVars, Due
<1>2. Ready("read") => Ready("read")'
  <2>1. /\ inbox' \in {inbox, inbox + 1} /\ (eof => eof')
        /\ link = "failed" => link' = "failed"
    BY DEF Edge
  <2> QED
    BY <2>1 DEF Ready, Base, TypeOK
<1>3. ReadInv'
  BY <1>1, <1>2, ReadSame DEF CalmInv, Base
<1>4. OpInv("connect")' /\ OpInv("write")' /\ OneHandler' /\ StateInv'
  BY <1>1, OpSame DEF CalmInv, OneHandler, StateInv
<1> QED
  BY <1>3, <1>4 DEF CalmInv

\* A client in order ends the process in a DCHECK at most.
LEMMA NoCrash ==
  ASSUME Base, CalmInv, crash = "none", mishap' = {}, Next
  PROVE  crash' \in {"none"} \cup Dchecks
<1>1. mishap = {}
  BY MishapGrows
<1>2. freed => Still
  BY <1>1 DEF Base, ClosedInv
<1>3. ASSUME NEW t \in Threads, AppStep(t) \/ Store(t) PROVE crash' \in {"none"} \cup Dchecks
  BY <1>2, <1>3 DEF AppStep, Connect, AdoptConnectedSocket, ReadIfReady, Write,
     CancelReadIfReady,
              Disconnect, Store, Still, DcheckFails, DcheckHolds, Dchecks
<1>4. ASSUME NEW w \in Workers, OnFileReadable(w) PROVE crash' = "none"
  <2>1. callback["ready"] # 0
    BY <1>4 DEF OnFileReadable, At, CalmInv, ReadInv, ReadServed, ReadPending,
       ReadyPending, Retry
  <2> QED
    BY <1>4, <2>1 DEF OnFileReadable, Invoke
<1>5. ASSUME NEW w \in Workers, RetryRead(w) PROVE crash' \in {"none"} \cup Dchecks
  <2>1. callback["read"] # 0
    BY <1>5 DEF RetryRead, At, CalmInv, ReadInv, ReadServed, ReadPending
  <2> QED
    BY <1>5, <2>1 DEF RetryRead, Invoke, DcheckFails, DcheckHolds, Dchecks
<1>6. ASSUME NEW w \in Workers, OnFileWritable(w) PROVE crash' = "none"
  <2>1. PICK k \in {"connect", "write"} : k = at[w].kind
    BY <1>6 DEF OnFileWritable
  <2>2. callback[k] # 0 /\ k \in watching
    BY <1>6, <2>1 DEF OnFileWritable, At, CalmInv, OpInv, OpServed, OpPending
  <2>3. /\ k = "connect" => connect_state_ = "kConnecting"
        /\ k = "write" => connect_state_ = "kConnected"
    BY <2>2 DEF CalmInv, StateInv
  <2> QED
    BY <1>6, <2>1, <2>2, <2>3 DEF OnFileWritable, Connecting, OnConnectDone,
       OnWriteDone, Invoke
<1>7. ASSUME NEW w \in Workers, Handle(w) PROVE crash' \in {"none"} \cup Dchecks
  <2>1. ~OnConnectTimeout(w)
    BY DEF OnConnectTimeout
  <2>2. ~UseAfterFree(w)
    BY <1>2 DEF UseAfterFree, Still, Base, TypeOK, Shape, Idle
  <2> QED
    BY <1>4, <1>5, <1>6, <1>7, <2>1, <2>2 DEF Handle, HandleIO, OnReadDone,
       CallbackReturns
<1> QED
  BY <1>3, <1>7 DEF Next, Event, TimerFires, Edge

LEMMA CalmStep ==
  ASSUME Base, Base', Calm, [Next]_vars PROVE Calm'
<1>1. CASE UNCHANGED vars
  <2>1. UNCHANGED <<callback, pending, call, at, watching, Due,
                    connect_state_, link, inbox, eof, mishap, crash>>
    BY <1>1 DEF vars, clientVars, watchVars, kernelVars, opVars, Due
  <2>2. ASSUME CalmInv PROVE CalmInv'
    <3>1. ReadInv'
      BY <2>1, <2>2, ReadSame DEF CalmInv, Base, Ready
    <3>2. OpInv("connect")' /\ OpInv("write")' /\ OneHandler' /\ StateInv'
      BY <2>1, <2>2, OpSame DEF CalmInv, OneHandler, StateInv
    <3> QED
      BY <3>1, <3>2 DEF CalmInv
  <2> QED
    BY <2>1, <2>2 DEF Calm
<1>2. CASE Next
  <2> SUFFICES ASSUME mishap' = {}
               PROVE  /\ crash' \in {"none"} \cup Dchecks
                      /\ crash' = "none" => CalmInv'
    BY DEF Calm
  <2>1. mishap = {} /\ crash = "none"
    BY <1>2, MishapGrows, CrashLasts
  <2>2. CalmInv
    BY <2>1 DEF Calm
  <2>3. crash' \in {"none"} \cup Dchecks
    BY <1>2, <2>1, <2>2, NoCrash
  <2>4. ASSUME crash' = "none" PROVE CalmInv'
    <3>1. ASSUME NEW t \in Threads, AppStep(t) \/ Store(t) PROVE CalmInv'
      BY <2>2, <2>4, <3>1, CalmConnect, CalmAdopt, CalmReadIfReady, CalmWrite,
         CalmCancel,
         CalmDisconnect, CalmStore DEF AppStep
    <3>2. ASSUME NEW w \in Workers, Handle(w) PROVE CalmInv'
      <4>1. ~OnConnectTimeout(w)
        BY DEF OnConnectTimeout
      <4>2. ~UseAfterFree(w)
        BY <2>4 DEF UseAfterFree
      <4> QED
        BY <2>2, <2>4, <3>2, <4>1, <4>2, CalmHandleIO, CalmOnFileReadable,
           CalmRetryRead,
           CalmOnReadDone, CalmOnFileWritable, CalmCallbackReturns DEF Handle
    <3> QED
      BY <1>2, <2>2, <3>1, <3>2, CalmEvent, CalmTimerFires, CalmEdge DEF Next
  <2> QED
    BY <2>3, <2>4
<1> QED
  BY <1>1, <1>2

(***************************************************************************)
(* The process ends in an empty callback or a destroyed client only after  *)
(* one of the recorded mishaps.                                            *)
(***************************************************************************)
THEOREM CrashesExplained == Spec => []CrashExplained
<1>1. Calm => CrashExplained
  BY DEF Calm, CrashExplained
<1> QED
  BY BaseInit, BaseStep, CalmInit, CalmStep, <1>1, PTL DEF Spec

(***************************************************************************)
(* Without a mishap, an operation that returned TryAgain has its callback  *)
(* in place, and its watch or a worker that serves it.                     *)
(***************************************************************************)
THEOREM PendingStaysWatched == Spec => []PendingIsWatched
<1>1. Calm => PendingIsWatched
  <2> SUFFICES ASSUME CalmInv, NEW k \in Kinds, pending[k] # 0
               PROVE  /\ callback[k] = pending[k]
                      /\ k = "read" => callback["ready"] = Retry
                      /\ \/ WatchOf(k) \in watching
                         \/ k = "read" /\ \E w \in Workers : at[w].pc = "retry"
    BY DEF Calm, PendingIsWatched
  <2>1. CASE k \in {"connect", "write"}
    BY <2>1 DEF CalmInv, OpInv, OpPending, WatchOf
  <2>2. CASE k = "read"
    BY <2>2 DEF CalmInv, ReadInv, ReadPending, WatchOf
  <2>3. CASE k = "ready"
    BY <2>3 DEF CalmInv, ReadInv, ReadyPending, WatchOf
  <2> QED
    BY <2>1, <2>2, <2>3 DEF Kinds
<1> QED
  BY BaseInit, BaseStep, CalmInit, CalmStep, <1>1, PTL DEF Spec

-----------------------------------------------------------------------------
(* Served is an invariant *)

LEMMA Rearmed ==
  ASSUME armed' = watching' PROVE ServedInv'
BY DEF ServedInv

\* A step that makes nothing ready that is watched, and takes away no event, no
\* task and no handler of what is watched.
LEMMA ServedSame ==
  ASSUME ServedInv, watching' \subseteq watching, armed \cap watching' \subseteq armed',
         Due \cap watching' \subseteq Due',
         \A c \in watching' : Ready(c)' => Ready(c),
         \A w \in Workers :
           at[w].pc = "start" /\ at[w].kind \in watching' => at'[w] = at[w]
  PROVE  ServedInv'
BY DEF ServedInv

\* Where a handler that calls a slot is afterwards.
LEMMA InvokePlace ==
  ASSUME Base, NEW w \in Workers, NEW k \in Kinds, Invoke(w, k)
  PROVE  /\ \A v \in Workers \ {w} : at'[v] = at[v]
         /\ \/ at'[w] = at[w]
            \/ at'[w].pc = "callback" /\ at'[w].kind = k /\ callback[k] > 0
<1>1. CASE callback[k] = 0
  BY <1>1 DEF Invoke
<1>2. CASE callback[k] > 0
  <2>1. at' = [at EXCEPT ![w] = In("callback", k)]
    BY <1>2 DEF Invoke
  <2> QED
    BY <1>2, <2>1, AtFacts
<1> QED
  BY <1>1, <1>2 DEF Invoke

\* A StopWatching gives the controllers that are left a new event, or takes
\* nothing away.
LEMMA ServedStop ==
  ASSUME Base, ServedInv, NEW cs, StopWatching(cs),
         \A c \in watching \ cs : Ready(c)' => Ready(c),
         \A w \in Workers :
           at[w].pc = "start" /\ at[w].kind \in watching \ cs => at'[w] = at[w]
  PROVE  ServedInv'
<1>1. watching' = watching \ cs /\ posted' = posted \ cs /\ UNCHANGED loose
  BY StopFacts
<1>2. CASE cs \cap watching = {}
  <2>1. armed' = armed /\ Due \cap watching' \subseteq Due'
    BY <1>1, <1>2 DEF StopWatching, Due
  <2> QED
    BY <1>1, <2>1, ServedSame
<1>3. CASE cs \cap watching # {}
  BY <1>1, <1>3, Rearmed DEF StopWatching
<1> QED
  BY <1>2, <1>3

LEMMA ServedApp ==
  ASSUME Base, CalmInv, ServedInv, NEW t \in Threads, AppStep(t) \/ Store(t), crash' = "none"
  PROVE  ServedInv'
<1>1. CASE Connect(t)
  <2>1. watching = {} /\ armed = {}
    BY <1>1 DEF Connect, Base, TypeOK, UnsetInv, Still
  <2>2. armed' = watching'
    BY <1>1, <2>1 DEF Connect, OpenFails, StartConnect, Watch, watchVars
  <2> QED
    BY <2>2, Rearmed
<1>2. CASE AdoptConnectedSocket(t)
  BY <1>2, Rearmed DEF AdoptConnectedSocket, watchVars, Base, TypeOK, UnsetInv, Still
<1>3. ASSUME NEW kind \in {"read", "ready"}, ReadIfReady(t, kind) PROVE ServedInv'
  <2>1. CASE Watch("read")
    BY <2>1, Rearmed DEF Watch
  <2>2. CASE UNCHANGED watchVars /\ TakeData
    <3>1. UNCHANGED <<watching, armed, Due, at, link, eof, room>>
      BY <1>3, <2>2 DEF ReadIfReady, watchVars, Due
    <3>2. ASSUME NEW c \in watching, Ready(c)' PROVE Ready(c)
      <4>1. inbox' > 0 => inbox > 0
        BY <2>2 DEF TakeData, Base, TypeOK
      <4> QED
        BY <3>1, <3>2, <4>1 DEF Ready, Base, TypeOK, Watches
    <3> QED
      BY <3>1, <3>2, ServedSame
  <2>3. ~DcheckFails("ready", "no read pending")
    BY DEF DcheckFails
  <2> QED
    BY <1>3, <2>1, <2>2, <2>3 DEF ReadIfReady
<1>4. CASE Write(t)
  <2>1. CASE Watch("write")
    BY <2>1, Rearmed DEF Watch
  <2>2. CASE UNCHANGED watchVars
    <3>1. UNCHANGED <<watching, armed, Due, at, link, inbox, eof>>
      BY <1>4, <2>2 DEF Write, watchVars, Due
    <3>2. "write" \notin watching
      BY <1>4 DEF Write, MayStart, CalmInv, OpInv, OpServed, Kinds
    <3>3. \A c \in watching : Ready(c)' => Ready(c)
      BY <3>1, <3>2 DEF Ready, Base, TypeOK, Watches
    <3> QED
      BY <3>1, <3>3, ServedSame
  <2> QED
    BY <1>4, <2>1, <2>2 DEF Write
<1>5. CASE CancelReadIfReady(t)
  <2>1. StopWatching({"read"}) /\ UNCHANGED <<at, link, inbox, eof, room>>
    BY <1>5 DEF CancelReadIfReady, kernelVars
  <2>2. \A c \in watching : Ready(c)' => Ready(c)
    BY <2>1 DEF Ready
  <2> QED
    BY <2>1, <2>2, ServedStop
<1>6. ASSUME NEW destroy \in BOOLEAN, Disconnect(t, destroy) PROVE ServedInv'
  <2>1. watching' = {}
    BY <1>6 DEF Disconnect, StopWatching, Base, TypeOK
  <2> QED
    BY <2>1 DEF ServedInv
<1>7. CASE Store(t)
  <2>1. UNCHANGED <<watching, armed, Due, at, link, inbox, eof, room>>
    BY <1>7 DEF Store, watchVars, kernelVars, Due
  <2>2. \A c \in watching : Ready(c)' => Ready(c)
    BY <2>1 DEF Ready
  <2> QED
    BY <2>1, <2>2, ServedSame
<1> QED
  BY <1>1, <1>2, <1>3, <1>4, <1>5, <1>6, <1>7 DEF AppStep

\* The task that a worker starts becomes its handler.
LEMMA ServedHandleIO ==
  ASSUME Base, ServedInv, NEW w \in Workers, NEW c \in Watches, HandleIO(w, c)
  PROVE  ServedInv'
<1>1. UNCHANGED <<watching, armed, link, inbox, eof, room>> /\ at[w].pc = "idle"
  BY DEF HandleIO, kernelVars, Idle
<1>2. /\ at'[w].pc = "start" /\ at'[w].kind = c
      /\ \A v \in Workers \ {w} : at'[v] = at[v]
  BY AtFacts DEF HandleIO
<1>3. Due \subseteq Due' \cup {c}
  <2>1. loose \in [Watches -> Nat]
    BY DEF Base, TypeOK
  <2>2. \A d \in Watches \ {c} : loose'[d] = loose[d]
    BY <2>1 DEF HandleIO
  <2>3. posted \subseteq posted' \cup {c} /\ posted \subseteq Watches
    BY DEF HandleIO, Base, TypeOK
  <2> QED
    BY <2>2, <2>3 DEF Due
<1>4. \A d \in watching : Ready(d)' => Ready(d)
  BY <1>1 DEF Ready
<1> QED
  BY <1>1, <1>2, <1>3, <1>4 DEF ServedInv

LEMMA ServedRead ==
  ASSUME Base, ServedInv, NEW w \in Workers, OnFileReadable(w) \/ RetryRead(w), crash' = "none"
  PROVE  ServedInv'
<1>1. CASE OnFileReadable(w)
  <2>1. /\ StopWatching({"read"}) /\ UNCHANGED <<link, inbox, eof, room>>
        /\ at[w].kind = "read"
    BY <1>1 DEF OnFileReadable, StopReading, kernelVars
  <2>2. \A c \in watching : Ready(c)' => Ready(c)
    BY <2>1 DEF Ready
  <2>3. \A v \in Workers \ {w} : at'[v] = at[v]
    BY <1>1, AtFacts, InvokePlace DEF OnFileReadable, Kinds
  <2> QED
    BY <2>1, <2>2, <2>3, ServedStop
<1>2. CASE RetryRead(w)
  <2>1. CASE Watch("read")
    BY <2>1, Rearmed DEF Watch
  <2>2. CASE UNCHANGED watchVars /\ (UNCHANGED inbox \/ TakeData) /\ Invoke(w, "read")
    <3>1. UNCHANGED <<watching, armed, Due, link, eof, room>> /\ at[w].pc = "retry"
      BY <1>2, <2>2 DEF RetryRead, watchVars, Due, At
    <3>2. inbox' > 0 => inbox > 0
      BY <2>2 DEF TakeData, Base, TypeOK
    <3>3. \A c \in watching : Ready(c)' => Ready(c)
      BY <3>1, <3>2 DEF Ready, Base, TypeOK, Watches
    <3>4. \A v \in Workers \ {w} : at'[v] = at[v]
      BY <2>2, InvokePlace DEF Kinds
    <3> QED
      BY <3>1, <3>3, <3>4, ServedSame
  <2>3. ~DcheckFails("ready", "no read pending")
    BY DEF DcheckFails
  <2> QED
    BY <1>2, <2>1, <2>2, <2>3 DEF RetryRead
<1> QED
  BY <1>1, <1>2

\* OnWriteDone gives the edge up only when the send buffer is full again.
LEMMA ServedOnFileWritable ==
  ASSUME Base, CalmInv, ServedInv, NEW w \in Workers, OnFileWritable(w), crash' = "none"
  PROVE  ServedInv'
<1>1. UNCHANGED <<link, inbox, eof>>
  BY DEF OnFileWritable
<1>2. PICK k \in {"connect", "write"} : k = at[w].kind
  BY DEF OnFileWritable
<1>3. at[w].pc = "start" /\ k \in Kinds /\ k \in watching
  BY <1>2 DEF OnFileWritable, At, CalmInv, OpInv, OpServed, OpPending, Kinds
<1>4. /\ k = "connect" => connect_state_ = "kConnecting"
      /\ k = "write" => connect_state_ = "kConnected"
  BY <1>3 DEF CalmInv, StateInv
<1>5. \/ /\ k = "write" /\ NoRoom /\ UNCHANGED <<watching, armed, Due, room>>
         /\ at' = [at EXCEPT ![w] = In("idle", "none")]
      \/ /\ StopWatching({k}) /\ Invoke(w, k) /\ (k = "connect" => UNCHANGED room)
  BY <1>2, <1>4 DEF OnFileWritable, Connecting, OnConnectDone, OnWriteDone,
     watchVars, Idle, In, Due
<1>6. CASE /\ k = "write" /\ NoRoom /\ UNCHANGED <<watching, armed, Due, room>>
           /\ at' = [at EXCEPT ![w] = In("idle", "none")]
  <2>1. \A v \in Workers \ {w} : at'[v] = at[v]
    BY <1>6, AtFacts
  <2>2. ~Ready("write")'
    BY <1>1, <1>6 DEF NoRoom, Ready
  <2>3. \A c \in watching : Ready(c)' => Ready(c)
    BY <1>1, <1>6 DEF Ready
  <2>4. ASSUME NEW c \in watching', Ready(c)'
        PROVE  \/ c \in armed' \cup Due'
               \/ \E v \in Workers : at'[v].pc = "start" /\ at'[v].kind = c
    <3>1. c # "write" /\ c \in watching /\ Ready(c)
      BY <1>6, <2>2, <2>3, <2>4
    <3>2. CASE c \in armed \cup Due
      BY <1>6, <3>2
    <3>3. CASE \E v \in Workers : at[v].pc = "start" /\ at[v].kind = c
      BY <1>2, <1>6, <2>1, <3>1, <3>3
    <3> QED
      BY <3>1, <3>2, <3>3 DEF ServedInv
  <2> QED
    BY <2>4 DEF ServedInv
<1>7. CASE StopWatching({k}) /\ Invoke(w, k) /\ (k = "connect" => UNCHANGED room)
  <2>1. \A v \in Workers \ {w} : at'[v] = at[v]
    BY <1>3, <1>7, InvokePlace
  <2>2. \A c \in watching \ {k} : Ready(c)' => Ready(c)
    BY <1>1, <1>2, <1>7 DEF Ready, Base, TypeOK, Watches
  <2> QED
    BY <1>2, <1>7, <2>1, <2>2, ServedStop
<1> QED
  BY <1>5, <1>6, <1>7

LEMMA ServedClear ==
  ASSUME Base, ServedInv, NEW w \in Workers, CallbackReturns(w) \/ OnReadDone(w)
  PROVE  ServedInv'
<1>1. /\ UNCHANGED <<watching, armed, Due, link, inbox, eof, room>>
      /\ at[w].pc \in {"callback", "clear"}
  BY DEF CallbackReturns, OnReadDone, At, watchVars, kernelVars, Due
<1>2. \A v \in Workers \ {w} : at'[v] = at[v]
  BY DEF CallbackReturns, OnReadDone, Base, TypeOK
<1>3. \A c \in watching : Ready(c)' => Ready(c)
  BY <1>1 DEF Ready
<1> QED
  BY <1>1, <1>2, <1>3, ServedSame

\* The event that the poll thread takes becomes a task.
LEMMA ServedEvent ==
  ASSUME Base, ServedInv, NEW c \in Watches, Event(c)
  PROVE  ServedInv'
<1>1. UNCHANGED <<watching, at, link, inbox, eof, room>> /\ armed' = armed \ {c}
  BY DEF Event, kernelVars
<1>2. c \in Due' /\ Due \subseteq Due'
  <2>1. posted' = posted \cup {c} /\ \A d \in Watches : loose[d] > 0 => loose'[d] > 0
    BY DEF Event, Base, TypeOK
  <2> QED
    BY <2>1 DEF Due
<1>3. \A d \in watching : Ready(d)' => Ready(d)
  BY <1>1 DEF Ready
<1> QED
  BY <1>1, <1>2, <1>3 DEF ServedInv

\* What becomes ready and is watched is an edge.
LEMMA ServedEdge ==
  ASSUME Base, ServedInv, Edge PROVE ServedInv'
<1>1. UNCHANGED <<watching, Due, at>>
  BY DEF Edge, Due
<1>2. CASE armed' = watching
  BY <1>1, <1>2, Rearmed
<1>3. ASSUME NEW k \in {"read", "write"}, k \notin watching, armed' = armed,
             UNCHANGED link, k = "read" => UNCHANGED room,
             k = "write" => UNCHANGED <<inbox, eof>>
      PROVE  ServedInv'
  <2>1. \A c \in watching : Ready(c)' => Ready(c)
    BY <1>3 DEF Ready, Base, TypeOK, Watches
  <2> QED
    BY <1>1, <1>3, <2>1, ServedSame
<1> QED
  BY <1>2, <1>3 DEF Edge

LEMMA ServedStep ==
  ASSUME Base, Calm, Served, [Next]_vars PROVE Served'
<1> SUFFICES ASSUME mishap' = {}, crash' = "none" PROVE ServedInv'
  BY DEF Served
<1>1. CASE UNCHANGED vars \/ TimerFires
  <2>1. UNCHANGED <<watching, armed, Due, at, link, inbox, eof, room, mishap, crash>>
    BY <1>1 DEF vars, TimerFires, watchVars, kernelVars, Due
  <2>2. \A c \in watching : Ready(c)' => Ready(c)
    BY <2>1 DEF Ready
  <2> QED
    BY <2>1, <2>2, ServedSame DEF Served
<1>2. CASE Next
  <2>1. mishap = {} /\ crash = "none"
    BY <1>2, MishapGrows, CrashLasts
  <2>2. CalmInv /\ ServedInv
    BY <2>1 DEF Calm, Served
  <2>3. ASSUME NEW w \in Workers, Handle(w) PROVE ServedInv'
    <3>1. ~OnConnectTimeout(w) /\ ~UseAfterFree(w)
      BY DEF OnConnectTimeout, UseAfterFree
    <3> QED
      BY <2>2, <2>3, <3>1, ServedHandleIO, ServedRead, ServedOnFileWritable,
         ServedClear DEF Handle
  <2> QED
    BY <1>1, <1>2, <2>2, <2>3, ServedApp, ServedEvent, ServedEdge DEF Next
<1> QED
  BY <1>1, <1>2

(***************************************************************************)
(* Without a mishap, an operation that waits does not miss that the socket *)
(* is ready, whatever the other operations, the events and the tasks of    *)
(* the client do in between: whoever takes an event serves the operation,  *)
(* and a registration that is changed reports the others once more.        *)
(***************************************************************************)
THEOREM ReadyStaysServed == Spec => []ReadyIsServed
<1>1. Init => Served
  BY DEF Init, Served, ServedInv
<1>2. Base /\ Calm /\ Served => ReadyIsServed
  <2> SUFFICES ASSUME Base, CalmInv, ServedInv, NEW k \in Kinds, pending[k] # 0,
                      Ready(WatchOf(k))
               PROVE  \/ WatchOf(k) \in armed \cup posted \/ loose[WatchOf(k)] > 0
                      \/ \E w \in Workers : /\ at[w].pc \in {"start", "retry"}
                                            /\ at[w].kind = WatchOf(k)
    BY DEF Calm, Served, ReadyIsServed
  <2>1. CASE WatchOf(k) \in watching
    BY <2>1 DEF ServedInv, Due
  <2>2. CASE k = "read" /\ \E w \in Workers : at[w].pc = "retry"
    BY <2>2 DEF Base, Shape, WatchOf
  <2>3. k \in {"connect", "write", "ready"} => WatchOf(k) \in watching
    BY DEF CalmInv, OpInv, OpPending, ReadInv, ReadyPending, WatchOf
  <2>4. k = "read" => WatchOf(k) \in watching \/ \E w \in Workers : at[w].pc = "retry"
    BY DEF CalmInv, ReadInv, ReadPending, WatchOf
  <2> QED
    BY <2>1, <2>2, <2>3, <2>4 DEF Kinds
<1> QED
  BY BaseInit, BaseStep, CalmInit, CalmStep, ServedStep, <1>1, <1>2, PTL DEF Spec

-----------------------------------------------------------------------------
(* Single is an invariant *)

LEMMA SingleInit == Init => Single
<1> SUFFICES ASSUME Init PROVE Single
  OBVIOUS
<1>1. /\ \A w \in Workers : at[w].pc = "idle" /\ at[w].kind = "none"
      /\ \A t \in Threads : call[t] = "none"
      /\ \A k \in Kinds : callback[k] = 0 /\ \A i \in 1..Limit : calls[k][i] = 0
      /\ watching = {}
  BY DEF Init, Idle
<1>2. OneHandler
  BY <1>1 DEF OneHandler, ReadKinds
<1>3. CalledInv
  BY <1>1 DEF CalledInv
<1>4. Apart
  BY <1>1 DEF Apart, NoWriteYet, Kinds
<1> QED
  BY <1>2, <1>3, <1>4 DEF Single

\* Single without the condition, and a step after which it is claimed.
SingleInv == OneHandler /\ CalledInv /\ Apart

\* A step that starts or ends no callback.
LEMMA CalledSame ==
  ASSUME CalledInv, UNCHANGED calls,
         \A k \in Kinds : callback'[k] = callback[k] \/ callback'[k] = 0,
         \A w \in Workers : at'[w] = at[w] \/ at[w].pc # "callback" \/ callback'[at[w].kind] = 0
  PROVE  CalledInv'
BY DEF CalledInv

\* The application's own steps.
LEMMA SingleApp ==
  ASSUME Base, Base', SingleInv, Calm, NEW t \in Threads, AppStep(t)
  PROVE  SingleInv'
<1>1. UNCHANGED <<calls, at>> /\ mishap = {} /\ crash = "none"
  BY DEF AppStep, Connect, AdoptConnectedSocket, ReadIfReady, Write,
     CancelReadIfReady,
         Disconnect, MayStart, MayCall, Unharmed, opVars
<1>2. OneHandler'
  BY <1>1 DEF SingleInv, OneHandler
<1>3. \A k \in Kinds : callback'[k] = callback[k] \/ callback'[k] = 0
  BY DEF AppStep, Connect, AdoptConnectedSocket, ReadIfReady, Write,
     CancelReadIfReady,
         Disconnect, clientVars, Base, TypeOK, Kinds
<1>4. CalledInv'
  BY <1>1, <1>3, CalledSame DEF SingleInv
<1>5. CalmInv
  BY <1>1 DEF Calm
<1>6. CASE Connect(t) \/ AdoptConnectedSocket(t)
  <2>1. /\ Still /\ callback["write"] = 0 /\ UNCHANGED callback
    BY <1>6 DEF Base, UnsetInv, Connect, AdoptConnectedSocket, Kinds
  <2>2. /\ "write" \notin watching' /\ \A u \in Threads : call'[u] # "write"
    BY <1>6, <2>1 DEF Connect, OpenFails, StartConnect, AdoptConnectedSocket,
       Watch, watchVars, Still, Base, TypeOK
  <2> QED
    BY <1>1, <1>2, <1>4, <2>1, <2>2 DEF SingleInv, Apart, NoWriteYet, Still,
       Base, Shape
<1>7. CASE Write(t)
  <2>1. ~Connects'
    <3>1. pending["connect"] = 0 /\ connect_state_ = "kConnected" /\ UNCHANGED connect_state_
      BY <1>7 DEF Write, MayStart, clientVars
    <3>2. \A w \in Workers : ~(at[w].pc = "start" /\ at[w].kind = "connect")
      BY <1>5, <3>1 DEF CalmInv, OpInv, OpServed
    <3>3. "connect" \notin watching /\ watching' \subseteq watching \cup {"write"}
      BY <1>5, <1>7, <3>1 DEF CalmInv, StateInv, Write, Watch, watchVars
    <3> QED
      BY <1>1, <3>1, <3>2, <3>3 DEF Connects
  <2> QED
    BY <1>2, <1>4, <2>1 DEF SingleInv, Apart
<1>8. CASE \/ ReadIfReady(t, "read") \/ ReadIfReady(t, "ready") \/ CancelReadIfReady(t)
           \/ Disconnect(t, FALSE) \/ Disconnect(t, TRUE)
  <2>1. /\ watching' \subseteq watching \cup {"read"}
        /\ connect_state_' \in {connect_state_, "kNone"}
        /\ \A u \in Threads : call'[u] = call[u] \/ call'[u] # "write"
    BY <1>8 DEF ReadIfReady, CancelReadIfReady, Disconnect, StopWatching,
       Watch, watchVars, clientVars,
                Base, TypeOK
  <2>2. callback["write"] = 0 => callback'["write"] = 0
    BY <1>3 DEF Kinds
  <2>3. Apart'
    BY <1>1, <2>1, <2>2 DEF SingleInv, Apart, Connects, NoWriteYet
  <2> QED
    BY <1>2, <1>4, <2>3 DEF SingleInv
<1> QED
  BY <1>6, <1>7, <1>8 DEF AppStep

LEMMA SingleStore ==
  ASSUME Base, Base', SingleInv, NEW t \in Threads, Store(t)
  PROVE  SingleInv'
<1>1. UNCHANGED <<calls, at, watching, connect_state_>>
  BY DEF Store, opVars, watchVars
<1>2. OneHandler'
  BY <1>1 DEF SingleInv, OneHandler
<1>3. CASE /\ UNCHANGED <<callback, call>>
  BY <1>1, <1>2, <1>3 DEF SingleInv, CalledInv, Apart, Connects, NoWriteYet
<1>4. CASE /\ call[t] = "read" /\ call' = [call EXCEPT ![t] = "read2"]
           /\ callback' = [callback EXCEPT !["ready"] = Retry]
  <2>1. callback'["ready"] = Retry /\ \A k \in Kinds \ {"ready"} : callback'[k] = callback[k]
    BY <1>4 DEF Base, TypeOK, Kinds
  <2>2. CalledInv'
    BY <1>1, <2>1 DEF SingleInv, CalledInv, Retry
  <2>3. Apart'
    BY <1>1, <1>4, <2>1 DEF SingleInv, Apart, Connects, NoWriteYet, Base,
       TypeOK, Kinds
  <2> QED
    BY <1>2, <2>2, <2>3 DEF SingleInv
<1>5. ASSUME call[t] \in {"connect", "read2", "ready", "write"},
             call' = [call EXCEPT ![t] = "none"],
             callback' = [callback EXCEPT ![Slot(call[t])] = started[Slot(call[t])] + 1]
      PROVE  SingleInv'
  <2>1. PICK k \in Kinds, n \in Nat : k = Slot(call[t]) /\ n = started[k] + 1 /\ started[k] \in Nat
    BY <1>5 DEF Slot, Kinds, Base, TypeOK
  <2>2. call'[t] = "none" /\ \A u \in Threads \ {t} : call'[u] = call[u]
    BY <1>5 DEF Base, TypeOK
  <2>3. callback'[k] = n /\ \A j \in Kinds \ {k} : callback'[j] = callback[j]
    BY <1>5, <2>1 DEF Base, TypeOK
  <2>4. n \in 1..Limit => ~(calls[k][n] > 0)
    BY <2>1 DEF Base, Numbered
  <2>5. CalledInv'
    <3> SUFFICES ASSUME NEW j \in Kinds, NEW i \in 1..Limit, calls[j][i] > 0
                 PROVE  /\ calls[j][i] <= 1
                        /\ callback'[j] = i =>
                             \E w \in Workers : at[w].pc = "callback" /\ at[w].kind = j
      BY <1>1 DEF CalledInv
    <3> QED
      BY <2>3, <2>4 DEF SingleInv, CalledInv
  <2>6. Apart'
    <3>1. CASE call[t] = "write"
      BY <1>1, <3>1 DEF SingleInv, Apart, Connects, NoWriteYet
    <3>2. CASE call[t] # "write"
      <4>1. k # "write"
        BY <1>5, <2>1, <3>2 DEF Slot
      <4> QED
        BY <1>1, <2>2, <2>3, <4>1 DEF SingleInv, Apart, Connects, NoWriteYet,
           Kinds
    <3> QED
      BY <3>1, <3>2
  <2> QED
    BY <1>2, <2>5, <2>6 DEF SingleInv
<1> QED
  BY <1>3, <1>4, <1>5, StoreCases

\* A callback that no handler is inside of is called for the first time.
LEMMA InvokeOnce ==
  ASSUME Base, CalledInv, NEW w \in Workers, NEW k \in Kinds, Invoke(w, k), UNCHANGED callback,
         at[w].pc # "callback",
         \A v \in Workers : ~(at[v].pc = "callback" /\ at[v].kind = k)
  PROVE  CalledInv'
<1>1. CASE callback[k] = 0
  <2>1. UNCHANGED <<at, calls>>
    BY <1>1 DEF Invoke
  <2> QED
    BY <2>1 DEF CalledInv
<1>2. CASE callback[k] > 0
  <2>1. callback[k] \in 1..Limit /\ calls[k] \in [1..Limit -> Nat]
    BY <1>2, TCPAssumption DEF Base, TypeOK, OpIds, Retry
  <2>2. calls[k][callback[k]] = 0
    <3>1. ~(calls[k][callback[k]] > 0)
      BY <2>1 DEF CalledInv
    <3>2. calls[k][callback[k]] \in Nat
      BY <2>1
    <3> QED
      BY <3>1, <3>2
  <2>3. calls' = [calls EXCEPT ![k] = [calls[k] EXCEPT ![callback[k]] = calls[k][callback[k]] + 1]]
    BY <1>2 DEF Invoke
  <2>4. calls'[k] = [calls[k] EXCEPT ![callback[k]] = 1] /\ \A j \in Kinds \ {k} : calls'[j] = calls[j]
    BY <2>2, <2>3 DEF Base, TypeOK
  <2>5. calls'[k][callback[k]] = 1 /\ \A i \in 1..Limit : i # callback[k] => calls'[k][i] = calls[k][i]
    BY <2>1, <2>4
  <2>6. /\ at'[w].pc = "callback" /\ at'[w].kind = k
        /\ \A v \in Workers \ {w} : at'[v] = at[v]
    <3>1. at' = [at EXCEPT ![w] = In("callback", k)]
      BY <1>2 DEF Invoke
    <3> QED
      BY <3>1, AtFacts
  <2>7. ASSUME NEW j \in Kinds, NEW i \in 1..Limit, calls'[j][i] > 0
        PROVE  /\ calls'[j][i] <= 1
               /\ callback'[j] = i =>
                    \E v \in Workers : at'[v].pc = "callback" /\ at'[v].kind = j
    <3>1. CASE j = k /\ i = callback[k]
      BY <2>5, <2>6, <3>1
    <3>2. CASE ~(j = k /\ i = callback[k])
      <4>1. calls'[j][i] = calls[j][i]
        BY <2>4, <2>5, <3>2
      <4>2. calls[j][i] > 0 => calls[j][i] <= 1 /\ (callback[j] = i =>
                    \E v \in Workers : at[v].pc = "callback" /\ at[v].kind = j)
        BY DEF CalledInv
      <4>3. \A v \in Workers : at[v].pc = "callback" => at'[v] = at[v]
        BY <2>6
      <4> QED
        BY <2>7, <4>1, <4>2, <4>3
    <3> QED
      BY <3>1, <3>2
  <2> QED
    BY <2>7 DEF CalledInv
<1> QED
  BY <1>1, <1>2 DEF Invoke

LEMMA SingleHandleIO ==
  ASSUME Base, Base', SingleInv, NEW w \in Workers, NEW c \in Watches, HandleIO(w, c),
         mishap' \cap {"twice", "stale"} = {}
  PROVE  SingleInv'
<1>1. UNCHANGED <<callback, calls, call, watching, connect_state_>>
  BY DEF HandleIO, clientVars, opVars
<1>2. at[w].pc = "idle" /\ at[w].kind = "none" /\ c \in watching
  <2>1. "stale" \notin mishap
    BY DEF HandleIO
  <2>2. c \in Due
    BY DueTaken
  <2>3. c \in watching
    BY <2>1, <2>2 DEF Base, DueInv
  <2> QED
    BY <2>3 DEF HandleIO, Idle
<1>3. /\ at'[w].pc = "start" /\ at'[w].kind = c
      /\ \A v \in Workers \ {w} : at'[v] = at[v]
  BY AtFacts DEF HandleIO
<1>4. \A v \in Workers \ {w} : at[v].kind \notin IF c = "read" THEN Reads ELSE {c}
  BY DEF HandleIO, Met
<1>5. OneHandler'
  BY <1>2, <1>3, <1>4 DEF SingleInv, OneHandler, ReadKinds, Reads, Watches
<1>6. CalledInv'
  BY <1>1, <1>2, <1>3, CalledSame DEF SingleInv
<1>7. Apart'
  BY <1>1, <1>2, <1>3 DEF SingleInv, Apart, Connects, NoWriteYet
<1> QED
  BY <1>5, <1>6, <1>7 DEF SingleInv

LEMMA SingleOnFileReadable ==
  ASSUME Base, Base', SingleInv, NEW w \in Workers, OnFileReadable(w)
  PROVE  SingleInv'
<1>1. UNCHANGED <<callback, call, connect_state_>>
  BY DEF OnFileReadable, clientVars
<1>2. at[w].pc = "start" /\ at[w].kind = "read" /\ "ready" \in Kinds
  BY DEF OnFileReadable, At, Kinds
<1>3. watching' \subseteq watching
  BY DEF OnFileReadable, StopReading, StopWatching, watchVars
<1>4. \A v \in Workers \ {w} : at[v].kind \notin ReadKinds
  BY <1>2 DEF SingleInv, OneHandler, ReadKinds
<1>5. /\ \A v \in Workers \ {w} : at'[v] = at[v]
      /\ \/ at'[w] = at[w]
         \/ at'[w].kind \in ReadKinds /\ at'[w].pc \in {"retry", "callback"}
  <2>1. CASE at' = at
    BY <2>1
  <2>2. CASE at' = [at EXCEPT ![w] = In("retry", "read")]
    BY <2>2, AtFacts DEF ReadKinds
  <2>3. CASE Invoke(w, "ready")
    BY <1>2, <2>3, InvokePlace DEF ReadKinds
  <2> QED
    BY <2>1, <2>2, <2>3 DEF OnFileReadable
<1>6. OneHandler'
  BY <1>4, <1>5 DEF SingleInv, OneHandler, ReadKinds
<1>7. CalledInv'
  <2>1. CASE UNCHANGED calls
    BY <1>1, <1>2, <1>5, <2>1, CalledSame DEF SingleInv
  <2>2. CASE Invoke(w, "ready")
    BY <1>1, <1>2, <1>4, <2>2, InvokeOnce DEF SingleInv, ReadKinds
  <2> QED
    BY <2>1, <2>2 DEF OnFileReadable
<1>8. Apart'
  BY <1>1, <1>2, <1>3, <1>5 DEF SingleInv, Apart, Connects, NoWriteYet,
     ReadKinds
<1> QED
  BY <1>6, <1>7, <1>8 DEF SingleInv

LEMMA SingleRetryRead ==
  ASSUME Base, Base', SingleInv, NEW w \in Workers, RetryRead(w)
  PROVE  SingleInv'
<1>1. UNCHANGED <<callback, call, connect_state_>>
  BY DEF RetryRead, clientVars
<1>2. at[w].pc = "retry" /\ at[w].kind = "read" /\ "read" \in Kinds
  BY DEF RetryRead, At, Kinds, Base, Shape
<1>3. watching' \subseteq watching \cup {"read"}
  BY DEF RetryRead, Watch, watchVars
<1>4. \A v \in Workers \ {w} : at[v].kind \notin ReadKinds
  BY <1>2 DEF SingleInv, OneHandler, ReadKinds
<1>5. /\ \A v \in Workers \ {w} : at'[v] = at[v]
      /\ \/ at'[w] = at[w]
         \/ at'[w].kind = "read" /\ at'[w].pc \in {"clear", "callback"}
  <2>1. CASE at' = at
    BY <2>1
  <2>2. CASE at' = [at EXCEPT ![w] = In("clear", "read")]
    BY <2>2, AtFacts
  <2>3. CASE Invoke(w, "read")
    BY <1>2, <2>3, InvokePlace
  <2> QED
    BY <2>1, <2>2, <2>3 DEF RetryRead
<1>6. OneHandler'
  BY <1>4, <1>5 DEF SingleInv, OneHandler, ReadKinds
<1>7. CalledInv'
  <2>1. CASE UNCHANGED calls
    BY <1>1, <1>2, <1>5, <2>1, CalledSame DEF SingleInv
  <2>2. CASE Invoke(w, "read")
    BY <1>1, <1>2, <1>4, <2>2, InvokeOnce DEF SingleInv, ReadKinds
  <2> QED
    BY <2>1, <2>2 DEF RetryRead
<1>8. Apart'
  BY <1>1, <1>2, <1>3, <1>5 DEF SingleInv, Apart, Connects, NoWriteYet
<1> QED
  BY <1>6, <1>7, <1>8 DEF SingleInv

LEMMA SingleOnFileWritable ==
  ASSUME Base, Base', SingleInv, NEW w \in Workers, OnFileWritable(w)
  PROVE  SingleInv'
<1>1. UNCHANGED <<callback, call>>
  BY DEF OnFileWritable
<1>2. PICK k \in {"connect", "write"} : k = at[w].kind
  BY DEF OnFileWritable
<1>3. at[w].pc = "start" /\ k \in Kinds
  BY <1>2 DEF OnFileWritable, At, Kinds
<1>4. watching' \subseteq watching
  BY DEF OnFileWritable, OnConnectDone, OnWriteDone, StopWatching, watchVars
<1>5. \A v \in Workers \ {w} : at[v].kind # k
  BY <1>2 DEF SingleInv, OneHandler
<1>6. /\ k = "connect" => callback["write"] = 0
      /\ k = "write" => ~Connects
  BY <1>2, <1>3 DEF SingleInv, Apart, Connects, NoWriteYet
<1>7. \/ at' = at /\ UNCHANGED calls
      \/ at' = [at EXCEPT ![w] = In("idle", "none")] /\ UNCHANGED calls
      \/ Invoke(w, k)
  <2>1. CASE Connecting /\ OnConnectDone(w)
    BY <1>2, <1>6, <2>1 DEF OnConnectDone, Connecting, Connects
  <2>2. CASE OnWriteDone(w)
    <3>1. CASE k = "connect"
      BY <1>6, <2>2, <3>1 DEF OnWriteDone, Invoke, Idle, In
    <3>2. CASE k = "write"
      BY <2>2, <3>2 DEF OnWriteDone, Idle, In
    <3> QED
      BY <3>1, <3>2
  <2> QED
    BY <2>1, <2>2 DEF OnFileWritable
<1>8. /\ \A v \in Workers \ {w} : at'[v] = at[v]
      /\ \/ at'[w] = at[w]
         \/ at'[w].pc = "idle" /\ at'[w].kind = "none"
         \/ at'[w].pc = "callback" /\ at'[w].kind = k
  <2>1. CASE at' = at
    BY <2>1
  <2>2. CASE at' = [at EXCEPT ![w] = In("idle", "none")]
    BY <2>2, AtFacts
  <2>3. CASE Invoke(w, k)
    BY <1>3, <2>3, InvokePlace
  <2> QED
    BY <1>7, <2>1, <2>2, <2>3
<1>9. OneHandler'
  BY <1>2, <1>5, <1>8 DEF SingleInv, OneHandler, ReadKinds
<1>10. CalledInv'
  <2>1. CASE UNCHANGED calls
    BY <1>1, <1>3, <1>8, <2>1, CalledSame DEF SingleInv
  <2>2. CASE Invoke(w, k)
    BY <1>1, <1>2, <1>3, <1>5, <2>2, InvokeOnce DEF SingleInv
  <2> QED
    BY <1>7, <2>1, <2>2
<1>11. Apart'
  <2>1. connect_state_' = "kConnecting" => connect_state_ = "kConnecting"
    BY DEF OnFileWritable, OnConnectDone, OnWriteDone
  <2> QED
    BY <1>1, <1>2, <1>4, <1>6, <1>8, <2>1 DEF SingleInv, Apart, Connects,
       NoWriteYet
<1> QED
  BY <1>9, <1>10, <1>11 DEF SingleInv

LEMMA SingleOnConnectTimeout ==
  ASSUME Base, Base', SingleInv, NEW w \in Workers, OnConnectTimeout(w),
         mishap' \cap {"twice", "stale"} = {}
  PROVE  SingleInv'
<1>1. UNCHANGED <<callback, call, watching>> /\ "connect" \in Kinds
  BY DEF OnConnectTimeout, watchVars, Kinds
<1>2. at[w].pc = "idle" /\ at[w].kind = "none"
  BY DEF OnConnectTimeout, Idle
<1>3. \A v \in Workers : at[v].kind # "connect"
  BY <1>2 DEF OnConnectTimeout, Met
<1>4. \/ UNCHANGED <<at, calls>>
      \/ Invoke(w, "connect")
  BY DEF OnConnectTimeout
<1>5. /\ \A v \in Workers \ {w} : at'[v] = at[v]
      /\ \/ at'[w] = at[w]
         \/ at'[w].pc = "callback" /\ at'[w].kind = "connect"
  BY <1>1, <1>4, InvokePlace
<1>6. OneHandler'
  BY <1>3, <1>5 DEF SingleInv, OneHandler, ReadKinds
<1>7. CalledInv'
  <2>1. CASE UNCHANGED <<at, calls>>
    BY <1>1, <2>1, CalledSame DEF SingleInv
  <2>2. CASE Invoke(w, "connect")
    BY <1>1, <1>2, <1>3, <2>2, InvokeOnce DEF SingleInv
  <2> QED
    BY <1>4, <2>1, <2>2
<1>8. Apart'
  <2>1. connect_state_' \in {connect_state_, "kNone"}
    BY DEF OnConnectTimeout
  <2> QED
    BY <1>1, <1>5, <2>1 DEF SingleInv, Apart, Connects, NoWriteYet
<1> QED
  BY <1>6, <1>7, <1>8 DEF SingleInv

\* CallbackReturns and OnReadDone: a handler clears the slot it is about.
LEMMA SingleClear ==
  ASSUME Base, Base', SingleInv, NEW w \in Workers, CallbackReturns(w) \/ OnReadDone(w)
  PROVE  SingleInv'
<1>1. UNCHANGED <<calls, call, watching, connect_state_>>
  BY DEF CallbackReturns, OnReadDone, watchVars, opVars
<1>2. \A k \in Kinds : callback'[k] = callback[k] \/ callback'[k] = 0
  BY ClearedFacts DEF CallbackReturns, OnReadDone
<1>3. at[w].pc = "callback" => callback'[at[w].kind] = 0
  BY ClearedFacts DEF CallbackReturns, OnReadDone, At, Base, Shape
<1>4. /\ \A v \in Workers \ {w} : at'[v] = at[v]
      /\ \/ at'[w].pc = "idle" /\ at'[w].kind = "none"
         \/ at'[w].pc = "clear" /\ at'[w].kind = "read" /\ at[w].kind = "read"
  <2>1. CASE at' = [at EXCEPT ![w] = In("idle", "none")]
    BY <2>1, AtFacts
  <2>2. CASE at' = [at EXCEPT ![w] = In("clear", "read")] /\ at[w].kind = "read"
    BY <2>2, AtFacts
  <2> QED
    BY <2>1, <2>2 DEF CallbackReturns, OnReadDone, Idle, In
<1>5. OneHandler'
  BY <1>4 DEF SingleInv, OneHandler, ReadKinds
<1>6. CalledInv'
  BY <1>1, <1>2, <1>3, <1>4, CalledSame DEF SingleInv
<1>7. Apart'
  BY <1>1, <1>2, <1>4 DEF SingleInv, Apart, Connects, NoWriteYet, Kinds
<1> QED
  BY <1>5, <1>6, <1>7 DEF SingleInv

LEMMA SingleStep ==
  ASSUME Base, Base', Calm, Single, [Next]_vars PROVE Single'
<1> SUFFICES ASSUME mishap' \cap {"twice", "stale"} = {} PROVE SingleInv'
  BY DEF Single, SingleInv
<1>1. mishap \subseteq mishap'
  BY MishapGrows DEF vars
<1>2. SingleInv
  BY <1>1 DEF Single, SingleInv
<1>3. ASSUME UNCHANGED <<callback, calls, call, at, watching,
                         connect_state_>> PROVE SingleInv'
  BY <1>2, <1>3 DEF SingleInv, OneHandler, CalledInv, Apart, Connects,
     NoWriteYet
<1>4. ASSUME NEW w \in Workers, Handle(w) PROVE SingleInv'
  <2>1. CASE UseAfterFree(w)
    BY <1>3, <2>1 DEF UseAfterFree, clientVars, watchVars, opVars
  <2> QED
    BY <1>2, <1>4, <2>1, SingleHandleIO, SingleOnFileReadable, SingleRetryRead,
       SingleOnFileWritable,
       SingleOnConnectTimeout, SingleClear DEF Handle
<1>5. ASSUME NEW c \in Watches, Event(c) PROVE SingleInv'
  BY <1>3, <1>5 DEF Event, clientVars, opVars
<1>6. CASE TimerFires \/ Edge \/ UNCHANGED vars
  BY <1>3, <1>6 DEF TimerFires, Edge, vars, clientVars, watchVars, opVars
<1> QED
  BY <1>2, <1>4, <1>5, <1>6, SingleApp, SingleStore DEF Next

(***************************************************************************)
(* No callback is called twice, unless two handlers of its operation       *)
(* overlapped or a task outlived the watch it was posted for: a connect    *)
(* timeout after the connection is made, a handler after Disconnect and an *)
(* operation started in a callback included.                               *)
(***************************************************************************)
THEOREM CalledOnce == Spec => []CalledAtMostOnce
<1>1. Base /\ Single => CalledAtMostOnce
  <2> SUFFICES ASSUME Base, CalledInv, NEW k \in Kinds, NEW i \in 1..Limit
               PROVE  calls[k][i] <= 1
    BY DEF Single, CalledAtMostOnce
  <2>1. calls[k][i] \in Nat
    BY DEF Base, TypeOK
  <2> QED
    BY <2>1 DEF CalledInv
<1> QED
  BY BaseInit, BaseStep, CalmInit, CalmStep, SingleInit, SingleStep, <1>1,
     PTL DEF Spec

=============================================================================
