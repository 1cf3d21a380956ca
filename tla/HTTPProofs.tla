----------------------------- MODULE HTTPProofs -----------------------------
(***************************************************************************)
(* Proofs about the two ends of HTTP: the accept loop of TCPServer, under  *)
(* any use that HTTP makes of the connections, and the exchange of a       *)
(* request and a response, for bodies of every size and streams that are   *)
(* cut anywhere.  The second part rests on what HTTPParser does with these *)
(* texts byte by byte; Parse is a recursive function, and ParseFollows     *)
(* finds its value by induction on the bytes (SequenceFacts!UpTo).         *)
(***************************************************************************)
EXTENDS HTTP, SequenceFacts, TLAPS

-----------------------------------------------------------------------------
(* The accept loop: the inductive invariant *)

AcceptTypes ==
  /\ pending_accept_ \in BOOLEAN /\ accept_socket_ \in BOOLEAN
  /\ watching \in BOOLEAN /\ armed \in BOOLEAN /\ down \in BOOLEAN
  /\ posted \subseteq {"loop", "read"} /\ loose \in Nat
  /\ at \in [Workers -> {"idle", "loop", "start", "watched", "accepted", "OK", "error"}]
  /\ trouble \subseteq Troubles

\* A worker is about to accept, or the task that will is posted.
Accepting == "loop" \in posted \/ \E w \in Workers : at[w] \in {"loop", "accepted"}

\* Accept has returned TryAgain and the callback is to come.
Waiting == pending_accept_ /\ accept_socket_ /\ watching

(***************************************************************************)
(* As long as there is no trouble the loop is in one place: with its task, *)
(* with one worker, or with the watch.  While a worker is about to accept  *)
(* nothing is pending or watched and every HandleIO task, those whose      *)
(* handle was lost included, has run, so none can come in between; while a *)
(* worker handles an event its accept is still pending.                    *)
(***************************************************************************)
OneLoop ==
  /\ ~down
  /\ \A w, v \in Workers : at[w] # "idle" /\ at[v] # "idle" => w = v
  /\ "loop" \in posted => \A w \in Workers : at[w] = "idle"
  /\ Accepting => ~pending_accept_ /\ ~watching /\ ~armed /\ "read" \notin posted /\ loose = 0
  /\ \A w \in Workers :
       /\ at[w] # "error"
       /\ at[w] = "watched" => pending_accept_ /\ watching
       /\ at[w] \in {"start", "OK"} => Waiting
       /\ at[w] \in {"accepted", "OK"} => accepted_socket_ # {}
  /\ "loop" \notin posted /\ (\A w \in Workers : at[w] = "idle") => Waiting

AcceptInv == AcceptTypes /\ (trouble = {} => OneLoop)

LEMMA AcceptInitInv == AcceptInit => AcceptInv
<1> SUFFICES ASSUME AcceptInit PROVE AcceptInv
  OBVIOUS
<1>1. AcceptTypes
  BY DEF AcceptInit, Listen, AcceptTypes, Troubles
<1>2. ASSUME trouble = {}
      PROVE  OneLoop
  BY <1>2 DEF AcceptInit, Listen, OneLoop, Accepting, Waiting
<1> QED BY <1>1, <1>2 DEF AcceptInv

LEMMA InitAccept == Init => AcceptInv
BY AcceptInitInv DEF Init

\* A connection that comes in gives the watch, if there is one, an event.
LEMMA ArriveAccept ==
  ASSUME AcceptInv, NEW c, Arrive(c),
         UNCHANGED <<pending_accept_, accept_socket_, watching, posted, loose, at,
                     accepted_socket_, accepted, trouble, down>>
  PROVE  AcceptInv'
BY DEF Arrive, AcceptInv, AcceptTypes, OneLoop, Accepting, Waiting

LEMMA StartAccept ==
  ASSUME AcceptInv, NEW w \in Workers, NEW task \in {"loop", "read"}, Start(w, task)
  PROVE  AcceptInv'
<1>1. AcceptTypes'
  <2>1. posted' \subseteq {"loop", "read"}
    BY Zenon DEF Start, AcceptInv, AcceptTypes
  <2>4. loose' \in Nat
    <3>1. loose \in Nat /\ (loose' = loose \/ (loose > 0 /\ loose' = loose - 1))
      BY Zenon DEF Start, AcceptInv, AcceptTypes
    <3> QED BY <3>1
  <2>2. trouble' \subseteq Troubles
    BY DEF Start, AcceptInv, AcceptTypes, Troubles
  <2>3. at' \in [Workers -> {"idle", "loop", "start", "watched", "accepted", "OK", "error"}]
    BY DEF Start, AcceptInv, AcceptTypes
  <2> QED BY <2>1, <2>2, <2>3, <2>4 DEF Start, AcceptInv, AcceptTypes
<1>2. ASSUME trouble' = {} PROVE OneLoop'
  <2>1. trouble = {} /\ OneLoop
    BY <1>2 DEF Start, AcceptInv
  <2>2. CASE task = "loop"
    BY <2>1, <2>2 DEF Start, AcceptInv, AcceptTypes, OneLoop, Accepting, Waiting
  <2>3. CASE task = "read"
    <3>1. \A v \in Workers : at[v] \notin {"watched", "start", "OK", "error"}
      BY <1>2, <2>3 DEF Start
    <3>2. ~Accepting
      BY <2>1, <2>3 DEF Start, OneLoop
    <3>3. \A v \in Workers : at[v] = "idle"
      BY <3>1, <3>2 DEF AcceptInv, AcceptTypes, Accepting
    <3> QED BY <2>1, <2>3, <3>2, <3>3
         DEF Start, AcceptInv, AcceptTypes, OneLoop, Accepting, Waiting
  <2> QED BY <2>2, <2>3
<1> QED BY <1>1, <1>2 DEF AcceptInv

LEMMA AcceptAccept ==
  ASSUME AcceptInv, NEW w \in Workers, Accept(w)
  PROVE  AcceptInv'
<1>1. AcceptTypes'
  BY DEF Accept, Faults, AcceptInv, AcceptTypes, Troubles
<1>2. ASSUME trouble' = {} PROVE OneLoop'
  <2>1. trouble = {} /\ OneLoop
    BY <1>2 DEF Accept, Faults, AcceptInv
  <2>2. at[w] = "loop" /\ ~pending_accept_ /\ "loop" \notin posted
        /\ \A v \in Workers : v # w => at[v] = "idle"
    BY <2>1 DEF Accept, OneLoop, Accepting
  <2>3. PICK status \in {"OK", "TryAgain", "aborted", "error"} :
          /\ DoAccept(status)
          /\ UNCHANGED down
          /\ \/ /\ IsTryAgain(status)
                /\ pending_accept_' = TRUE
                /\ watching' = TRUE /\ armed' = TRUE
                /\ at' = [at EXCEPT ![w] = "watched"]
                /\ trouble' = Faults(status)
             \/ /\ ~IsTryAgain(status)
                /\ at' = [at EXCEPT ![w] = IF status = "OK" THEN "accepted" ELSE "idle"]
                /\ trouble' = Faults(status)
                /\ UNCHANGED <<pending_accept_, watching, armed>>
    BY <1>2, <2>2 DEF Accept
  <2>4. UNCHANGED <<accept_socket_, posted, loose, accepted>>
    BY DEF Accept
  <2>5. status \in {"OK", "TryAgain"}
    BY <1>2, <2>3 DEF Faults, Troubles
  <2>6. CASE status = "OK"
    <3>1. accepted_socket_' # {}
      BY <2>3, <2>6 DEF DoAccept
    <3>2. at' = [at EXCEPT ![w] = "accepted"] /\ UNCHANGED <<pending_accept_, watching, armed>>
      BY <2>3, <2>6 DEF IsTryAgain
    <3> QED BY <2>1, <2>2, <2>3, <2>4, <3>1, <3>2
         DEF OneLoop, Accepting, Waiting, AcceptInv, AcceptTypes
  <2>7. CASE status = "TryAgain"
    <3>1. at' = [at EXCEPT ![w] = "watched"] /\ pending_accept_' = TRUE /\ watching' = TRUE
      BY <2>3, <2>7 DEF IsTryAgain
    <3> QED BY <2>1, <2>2, <2>3, <2>4, <3>1
         DEF OneLoop, Accepting, Waiting, AcceptInv, AcceptTypes
  <2> QED BY <2>5, <2>6, <2>7
<1> QED BY <1>1, <1>2 DEF AcceptInv

LEMMA LoopAccept ==
  ASSUME AcceptInv, NEW w \in Workers, DoAcceptLoop(w) \/ AcceptStored(w)
  PROVE  AcceptInv'
<1>1. CASE DoAcceptLoop(w)
  BY <1>1 DEF DoAcceptLoop, HandleAcceptResult, AcceptInv, AcceptTypes, OneLoop,
              Accepting, Waiting
<1>2. CASE AcceptStored(w)
  <2>1. AcceptTypes'
    BY <1>2 DEF AcceptStored, AcceptInv, AcceptTypes
  <2>2. ASSUME trouble' = {} PROVE OneLoop'
    <3>1. /\ OneLoop /\ at[w] = "watched" /\ at' = [at EXCEPT ![w] = "idle"]
          /\ accept_socket_' = TRUE
          /\ UNCHANGED <<pending_accept_, watching, armed, posted, loose, accepted_socket_,
                         down>>
      BY <1>2, <2>2 DEF AcceptStored, AcceptInv
    <3>2. /\ pending_accept_ /\ watching
          /\ \A v \in Workers : at'[v] = "idle"
      BY <3>1 DEF OneLoop, AcceptInv, AcceptTypes
    <3> QED BY <3>1, <3>2 DEF OneLoop, Accepting, Waiting
  <2> QED BY <2>1, <2>2 DEF AcceptInv
<1> QED BY <1>1, <1>2

LEMMA ReadableAccept ==
  ASSUME AcceptInv, NEW w \in Workers, OnFileReadable(w)
  PROVE  AcceptInv'
<1>1. AcceptTypes'
  BY DEF OnFileReadable, Faults, IsTryAgain, AcceptInv, AcceptTypes, Troubles
<1>2. ASSUME trouble' = {} PROVE OneLoop'
  <2>1. trouble = {} /\ OneLoop
    BY <1>2 DEF OnFileReadable, Faults, AcceptInv
  <2>2. /\ at[w] = "start" /\ Waiting /\ "loop" \notin posted
        /\ \A v \in Workers : v # w => at[v] = "idle"
    BY <2>1 DEF OnFileReadable, OneLoop
  <2>3. PICK status \in {"OK", "TryAgain", "aborted", "error"} :
          /\ DoAccept(status)
          /\ trouble' = Faults(status)
          /\ at' = [at EXCEPT ![w] = IF IsTryAgain(status) THEN "idle" ELSE status]
    BY <2>2 DEF OnFileReadable, Waiting
  <2>4. UNCHANGED <<pending_accept_, accept_socket_, watching, armed, posted, loose, down>>
    BY <2>2 DEF OnFileReadable, Waiting
  <2>5. status \in {"OK", "TryAgain"}
    BY <1>2, <2>3 DEF Faults, Troubles
  <2>6. status = "OK" => accepted_socket_' # {}
    BY <2>3 DEF DoAccept
  <2>7. at' = [at EXCEPT ![w] = IF status = "OK" THEN "OK" ELSE "idle"]
    BY <2>3, <2>5 DEF IsTryAgain
  <2> QED BY <2>1, <2>2, <2>4, <2>6, <2>7
       DEF OneLoop, Accepting, Waiting, AcceptInv, AcceptTypes
<1> QED BY <1>1, <1>2 DEF AcceptInv

LEMMA CompletedAccept ==
  ASSUME AcceptInv, NEW w \in Workers, OnAcceptCompleted(w)
  PROVE  AcceptInv'
<1>1. AcceptTypes'
  BY DEF OnAcceptCompleted, HandleAcceptResult, PendingInCallback, AcceptInv, AcceptTypes,
         Troubles
<1>2. ASSUME trouble' = {} PROVE OneLoop'
  <2>1. trouble = {} /\ OneLoop
    BY <1>2 DEF OnAcceptCompleted, AcceptInv
  <2>4. loose' = 0
    BY <1>2 DEF OnAcceptCompleted, AcceptInv, AcceptTypes
  <2>2. /\ at[w] = "OK" /\ accepted_socket_ # {} /\ "loop" \notin posted
        /\ \A v \in Workers : v # w => at[v] = "idle"
    BY <2>1 DEF OnAcceptCompleted, OneLoop
  <2>3. /\ watching' = FALSE /\ armed' = FALSE /\ pending_accept_' = FALSE
        /\ posted' = posted \ {"read"} /\ down' = FALSE
        /\ at' = [at EXCEPT ![w] = "loop"]
    BY <2>2 DEF OnAcceptCompleted, HandleAcceptResult, PendingInCallback
  <2> QED BY <2>2, <2>3, <2>4 DEF OneLoop, Accepting, Waiting, AcceptInv, AcceptTypes
<1> QED BY <1>1, <1>2 DEF AcceptInv

\* A connection that ends the process is trouble.
LEMMA DiesAccept ==
  ASSUME AcceptInv, NEW r, NEW why, ProcessDies(r, why)
  PROVE  AcceptInv'
BY DEF ProcessDies, loopVars, AcceptInv, AcceptTypes, Troubles

LEMMA EventAccept ==
  ASSUME AcceptInv, AcceptEvent
  PROVE  AcceptInv'
<1>1. AcceptTypes'
  <2>1. loose' \in Nat
    <3>1. loose \in Nat /\ (loose' = loose \/ loose' = loose + 1)
      BY Zenon DEF AcceptEvent, AcceptInv, AcceptTypes
    <3> QED BY <3>1
  <2> QED BY <2>1, Zenon DEF AcceptEvent, AcceptInv, AcceptTypes
<1>2. ASSUME trouble' = {} PROVE OneLoop'
  <2>1. OneLoop /\ armed
    BY <1>2 DEF AcceptEvent, AcceptInv
  <2>2. ~Accepting /\ "loop" \notin posted
    BY <2>1 DEF OneLoop, Accepting
  <2>3. posted' = posted \cup {"read"}
        /\ UNCHANGED <<pending_accept_, accept_socket_, watching, at, accepted_socket_, down>>
    BY DEF AcceptEvent
  <2> QED BY <2>1, <2>2, <2>3 DEF OneLoop, Accepting, Waiting
<1> QED BY <1>1, <1>2 DEF AcceptInv

LEMMA StepAccept == AcceptInv /\ [Next]_vars => AcceptInv'
<1> SUFFICES ASSUME AcceptInv, [Next]_vars PROVE AcceptInv'
  OBVIOUS
<1>1. CASE UNCHANGED acceptVars
  BY <1>1 DEF acceptVars, loopVars, AcceptInv, AcceptTypes, OneLoop, Accepting, Waiting
<1>2. CASE UNCHANGED vars
  BY <1>1, <1>2 DEF vars
<1>3. ASSUME NEW r \in Conns, DoConnect(r) \/ SilentClient(r) \/ Handshake(r)
      PROVE  AcceptInv'
  <2>1. UNCHANGED <<pending_accept_, accept_socket_, watching, posted, loose, at,
                    accepted_socket_, accepted, trouble, down>>
    BY <1>3 DEF DoConnect, SilentClient, Handshake
  <2>2. Arrive(r) \/ UNCHANGED <<backlog, armed>>
    BY <1>3 DEF DoConnect, SilentClient, Handshake
  <2> QED BY <1>1, <2>1, <2>2, ArriveAccept DEF acceptVars, loopVars
<1>4. ASSUME NEW r \in Conns, IssueRequest(r) \/ Request(r) \/ Respond(r) \/ Reset(r)
      PROVE  AcceptInv'
  <2>1. CASE IssueRequest(r) \/ Request(r) \/ Reset(r)
    BY <1>1, <1>3, <2>1 DEF IssueRequest, Request, ConnectReturns, OnConnectCompleted,
       ClientWrite, ClientRead, ClientWaits, ClientDies, Reset
  <2>2. CASE Respond(r)
    <3>1. UNCHANGED acceptVars \/ \E why : ProcessDies(r, why)
      BY <2>2 DEF Respond, ServerRead, ServerWaits, ServerDies, ServerWrite,
         OnWriteCompleted, Returns
    <3> QED BY <1>1, <3>1, DiesAccept
  <2> QED BY <1>4, <2>1, <2>2
<1>5. ASSUME NEW w \in Workers, Acceptor(w)
      PROVE  AcceptInv'
  BY <1>5, StartAccept, AcceptAccept, LoopAccept, ReadableAccept, CompletedAccept
     DEF Acceptor, AcceptStep
<1>6. CASE Poll
  BY <1>6, EventAccept DEF Poll
<1> QED BY <1>2, <1>3, <1>4, <1>5, <1>6 DEF Next

(***************************************************************************)
(* As long as no accept, abort or watch failed, no event overtook Accept,  *)
(* no task of the watch ran beside another or outlived it, and no          *)
(* connection ended the process, the server goes on accepting, with any    *)
(* number of workers, of connections and of tasks posted for them:         *)
(* OnFileReadable clears pending_accept_ before it calls the callback, so  *)
(* the Accept that the callback makes never finds it set.                  *)
(***************************************************************************)
THEOREM AcceptorStaysAlive == Spec => []AcceptorAlive
<1>1. AcceptInv => AcceptorAlive
  BY DEF AcceptInv, OneLoop, Waiting, AcceptorAlive
<1> QED BY InitAccept, StepAccept, <1>1, PTL DEF Spec

-----------------------------------------------------------------------------
(* The exchange: the path of the parser, and the inductive invariant *)

(***************************************************************************)
(* The parser where nothing went wrong and every line ended with cr lf:    *)
(* in a state, with a line begun, a content-length, headers and a body.    *)
(***************************************************************************)
Mid(state, line, length, hs, body) ==
  [parse_state_ |-> state, cur_line_ |-> line, cur_line_end_length_ |-> 2,
   content_length_ |-> length, headers |-> hs, body |-> body, ok |-> TRUE]

\* The lines of a message, and what AddHeader makes of the second.
FirstLine == <<"first", "cr", "lf">>
LengthLine(r) == <<"key", "colon", "sp", IF Claim[r] = 1 THEN "1" ELSE "0", "cr", "lf">>
Stored(r) == <<<<SubSeq(LengthLine(r), 1, 1), SubSeq(LengthLine(r), 4, 4)>>>>

(***************************************************************************)
(* Where the parser is after n bytes of a request and of a response: in    *)
(* the first line, in the headers, in the empty line, in the body.         *)
(***************************************************************************)
RequestAt(r, n) ==
  CASE n \in 0..2  -> Mid("kParseFirstLine", SubSeq(FirstLine, 1, n), -1, <<>>, <<>>)
    [] n \in 3..8  -> Mid("kParseHeaders", SubSeq(LengthLine(r), 1, n - 3), -1, <<>>, <<>>)
    [] n \in 9..10 -> Mid("kParseHeaders", SubSeq(CRLF, 1, n - 9), Claim[r], Stored(r), <<>>)
    [] OTHER       -> Mid("kParseBody", <<>>, Claim[r], Stored(r), Body(n - 11))

ResponseAt(n) ==
  CASE n \in 0..2 -> Mid("kParseFirstLine", SubSeq(FirstLine, 1, n), -1, <<>>, <<>>)
    [] n \in 3..4 -> Mid("kParseHeaders", SubSeq(CRLF, 1, n - 3), -1, <<>>, <<>>)
    [] OTHER      -> Mid("kParseBody", <<>>, -1, <<>>, Body(n - 5))

\* What the server says to request r.
Code(r) == IF served[r] = -1 THEN "bad" ELSE "ok"

\* Where a side has not done with reading: about to call Read, or waiting.
Reading == {"reading", "pending", "again"}

(***************************************************************************)
(* What the server has read of request r is parsed as far as it goes.  It  *)
(* goes on reading only while the headers are incomplete, or with a count  *)
(* of the body that is too small and will stay so.                         *)
(***************************************************************************)
RequestInv(r) ==
  /\ up[r] \in {<<>>, RequestText(r)}
  /\ server[r].read \in 0 .. Len(up[r])
  /\ served[r] \in {-1, Claim[r]}
  /\ server[r].pc \in Reading =>
       /\ server[r].parser = RequestAt(r, server[r].read)
       /\ served[r] = -1 /\ server[r].out = <<>>
       /\ IF server[r].read >= 11 THEN server[r].received \in 0 .. (Claim[r] - 1)
          ELSE server[r].received = -1

(***************************************************************************)
(* What the client has read of the response is parsed as far as it goes.   *)
(* As long as no buffer was full, the server sends what it has to say in   *)
(* the step that deletes it, so a client that has all headers when the     *)
(* connection ends, be it that the process of the server ended, has all.   *)
(***************************************************************************)
ResponseInv(r) ==
  /\ server[r].out \in {<<>>, ResponseText(Code(r))}
  /\ server[r].pc = "full" => "full" \in harm[r]
  /\ client[r].result = "ok" => client[r].pc = "deleted"
  /\ "full" \notin harm[r] =>
       /\ down_[r] = IF server[r].pc = "deleted" THEN server[r].out ELSE <<>>
       /\ client[r].read \in 0 .. Len(down_[r])
       /\ client[r].pc # "deleted" \/ client[r].result = "ok" =>
            client[r].parser = ResponseAt(client[r].read)
       /\ client[r].result = "ok" =>
            /\ server[r].pc = "deleted" /\ client[r].read = Len(down_[r])
            /\ RecievedAllHeaders(client[r].parser)

\* The fields of the two records.
ServerFields == {"pc", "read", "parser", "received", "out", "inside"}
ClientFields == {"pc", "read", "parser", "result", "inside"}

\* One connection.
Exchange(r) ==
  /\ DOMAIN server[r] = ServerFields
  /\ DOMAIN client[r] = ClientFields
  /\ RequestInv(r) /\ ResponseInv(r)

\* The variables are functions on the connections.
OnConns ==
  /\ DOMAIN server = Conns /\ DOMAIN client = Conns /\ DOMAIN up = Conns
  /\ DOMAIN down_ = Conns /\ DOMAIN served = Conns /\ DOMAIN harm = Conns

\* The inductive invariant of the exchange.
ExchangeInv == OnConns /\ \A r \in Conns : Exchange(r)

-----------------------------------------------------------------------------
(* The parser as a record *)

\* The parser is a record; its updates under names, so that the provers take
\* one at a time.
Fields == {"parse_state_", "cur_line_", "cur_line_end_length_", "content_length_",
           "headers", "body", "ok"}

WithState(p, v)      == [p EXCEPT !.parse_state_ = v]
WithLine(p, v)       == [p EXCEPT !.cur_line_ = v]
WithHeader(p, hs, v) == [p EXCEPT !.headers = hs, !.content_length_ = v]
WithBody(p, v)       == [p EXCEPT !.body = v]
Opened(p, v)         == [p EXCEPT !.ok = TRUE, !.parse_state_ = v]
Refused(p)           == [p EXCEPT !.ok = FALSE]

\* A record with these fields and no others.
IsParser(q) == q = [x \in Fields |-> q[x]]

\* The fields of a parser in mid message.
LEMMA MidFields ==
  ASSUME NEW s, NEW l, NEW c, NEW h, NEW b
  PROVE  LET p == Mid(s, l, c, h, b) IN
         /\ p.parse_state_ = s /\ p.cur_line_ = l /\ p.cur_line_end_length_ = 2
         /\ p.content_length_ = c /\ p.headers = h /\ p.body = b /\ p.ok
         /\ ~Refused(p).ok
BY DEF Mid, Refused

\* Two parsers with the same fields are the same.
LEMMA SameParser ==
  ASSUME NEW p, NEW q, IsParser(p), IsParser(q),
         p["parse_state_"] = q["parse_state_"], p["cur_line_"] = q["cur_line_"],
         p["cur_line_end_length_"] = q["cur_line_end_length_"],
         p["content_length_"] = q["content_length_"], p["headers"] = q["headers"],
         p["body"] = q["body"], p["ok"] = q["ok"]
  PROVE  p = q
<1>1. [x \in Fields |-> p[x]] = [x \in Fields |-> q[x]]
  BY DEF Fields
<1> QED BY <1>1, Zenon DEF IsParser

\* What is in mid message is a parser.
LEMMA MidIsParser ==
  ASSUME NEW s, NEW l, NEW c, NEW h, NEW b
  PROVE  IsParser(Mid(s, l, c, h, b))
BY DEF Mid, Fields, IsParser

\* Each update of a parser in mid message leaves one in mid message.
LEMMA WithStateMid ==
  ASSUME NEW s, NEW l, NEW c, NEW h, NEW b, NEW v
  PROVE  WithState(Mid(s, l, c, h, b), v) = Mid(v, l, c, h, b)
<1> DEFINE p == Mid(s, l, c, h, b)
           q == [p EXCEPT !.parse_state_ = v]
           o == Mid(v, l, c, h, b)
<1>1. IsParser(q)
  BY DEF Mid, Fields, IsParser
<1>2. /\ q["parse_state_"] = o["parse_state_"] /\ q["cur_line_"] = o["cur_line_"]
      /\ q["cur_line_end_length_"] = o["cur_line_end_length_"]
      /\ q["content_length_"] = o["content_length_"] /\ q["headers"] = o["headers"]
      /\ q["body"] = o["body"] /\ q["ok"] = o["ok"]
  BY DEF Mid
<1>3. IsParser(o)
  BY MidIsParser
<1> HIDE DEF q, o
<1>4. q = o
  BY <1>1, <1>2, <1>3, SameParser
<1> QED BY <1>4 DEF q, o, WithState

LEMMA OpenedMid ==
  ASSUME NEW s, NEW l, NEW c, NEW h, NEW b, NEW v
  PROVE  Opened(Mid(s, l, c, h, b), v) = Mid(v, l, c, h, b)
<1> DEFINE p == Mid(s, l, c, h, b)
           q == [p EXCEPT !.ok = TRUE, !.parse_state_ = v]
           o == Mid(v, l, c, h, b)
<1>1. IsParser(q)
  BY DEF Mid, Fields, IsParser
<1>2. /\ q["parse_state_"] = o["parse_state_"] /\ q["cur_line_"] = o["cur_line_"]
      /\ q["cur_line_end_length_"] = o["cur_line_end_length_"]
      /\ q["content_length_"] = o["content_length_"] /\ q["headers"] = o["headers"]
      /\ q["body"] = o["body"] /\ q["ok"] = o["ok"]
  BY DEF Mid
<1>3. IsParser(o)
  BY MidIsParser
<1> HIDE DEF q, o
<1>4. q = o
  BY <1>1, <1>2, <1>3, SameParser
<1> QED BY <1>4 DEF q, o, Opened

LEMMA WithLineMid ==
  ASSUME NEW s, NEW l, NEW c, NEW h, NEW b, NEW v
  PROVE  WithLine(Mid(s, l, c, h, b), v) = Mid(s, v, c, h, b)
<1> DEFINE p == Mid(s, l, c, h, b)
           q == [p EXCEPT !.cur_line_ = v]
           o == Mid(s, v, c, h, b)
<1>1. IsParser(q)
  BY DEF Mid, Fields, IsParser
<1>2. /\ q["parse_state_"] = o["parse_state_"] /\ q["cur_line_"] = o["cur_line_"]
      /\ q["cur_line_end_length_"] = o["cur_line_end_length_"]
      /\ q["content_length_"] = o["content_length_"] /\ q["headers"] = o["headers"]
      /\ q["body"] = o["body"] /\ q["ok"] = o["ok"]
  BY DEF Mid
<1>3. IsParser(o)
  BY MidIsParser
<1> HIDE DEF q, o
<1>4. q = o
  BY <1>1, <1>2, <1>3, SameParser
<1> QED BY <1>4 DEF q, o, WithLine

LEMMA WithHeaderMid ==
  ASSUME NEW s, NEW l, NEW c, NEW h, NEW b, NEW v, NEW w
  PROVE  WithHeader(Mid(s, l, c, h, b), v, w) = Mid(s, l, w, v, b)
<1> DEFINE p == Mid(s, l, c, h, b)
           q == [p EXCEPT !.headers = v, !.content_length_ = w]
           o == Mid(s, l, w, v, b)
<1>1. IsParser(q)
  BY DEF Mid, Fields, IsParser
<1>2. /\ q["parse_state_"] = o["parse_state_"] /\ q["cur_line_"] = o["cur_line_"]
      /\ q["cur_line_end_length_"] = o["cur_line_end_length_"]
      /\ q["content_length_"] = o["content_length_"] /\ q["headers"] = o["headers"]
      /\ q["body"] = o["body"] /\ q["ok"] = o["ok"]
  BY DEF Mid
<1>3. IsParser(o)
  BY MidIsParser
<1> HIDE DEF q, o
<1>4. q = o
  BY <1>1, <1>2, <1>3, SameParser
<1> QED BY <1>4 DEF q, o, WithHeader

LEMMA WithBodyMid ==
  ASSUME NEW s, NEW l, NEW c, NEW h, NEW b, NEW v
  PROVE  WithBody(Mid(s, l, c, h, b), v) = Mid(s, l, c, h, v)
<1> DEFINE p == Mid(s, l, c, h, b)
           q == [p EXCEPT !.body = v]
           o == Mid(s, l, c, h, v)
<1>1. IsParser(q)
  BY DEF Mid, Fields, IsParser
<1>2. /\ q["parse_state_"] = o["parse_state_"] /\ q["cur_line_"] = o["cur_line_"]
      /\ q["cur_line_end_length_"] = o["cur_line_end_length_"]
      /\ q["content_length_"] = o["content_length_"] /\ q["headers"] = o["headers"]
      /\ q["body"] = o["body"] /\ q["ok"] = o["ok"]
  BY DEF Mid
<1>3. IsParser(o)
  BY MidIsParser
<1> HIDE DEF q, o
<1>4. q = o
  BY <1>1, <1>2, <1>3, SameParser
<1> QED BY <1>4 DEF q, o, WithBody

\* AddByte and FinishLine, in terms of the updates.
LEMMA AddByteIs ==
  ASSUME NEW p, NEW byte
  PROVE  LET q == WithLine(p, Append(p.cur_line_, byte)) IN
         AddByte(p, byte) =
           IF p.parse_state_ = "kParseBody" THEN WithBody(p, Append(p.body, byte))
           ELSE IF Len(p.cur_line_) >= kMaxHeaderLength THEN Refused(p)
           ELSE IF EndsLine(q.cur_line_) THEN FinishLine(CheckLine(q)) ELSE q
BY DEF AddByte, WithLine, WithBody, Refused

LEMMA FinishLineIs ==
  ASSUME NEW p
  PROVE  /\ p.parse_state_ = "kParseFirstLine" =>
              FinishLine(p) = WithLine(HandleFirstLine(p), <<>>)
         /\ p.parse_state_ # "kParseFirstLine" /\ Len(p.cur_line_) = p.cur_line_end_length_ =>
              FinishLine(p) = WithLine(WithState(p, "kParseBody"), <<>>)
         /\ p.parse_state_ # "kParseFirstLine" /\ Len(p.cur_line_) # p.cur_line_end_length_ =>
              FinishLine(p) = WithLine(AddHeader(p), <<>>)
<1>1. CASE p.parse_state_ = "kParseFirstLine"
  BY <1>1 DEF FinishLine, WithLine
<1>2. CASE p.parse_state_ # "kParseFirstLine" /\ Len(p.cur_line_) = p.cur_line_end_length_
  BY <1>2 DEF FinishLine, WithLine, WithState
<1>3. CASE p.parse_state_ # "kParseFirstLine" /\ Len(p.cur_line_) # p.cur_line_end_length_
  BY <1>3 DEF FinishLine, WithLine
<1> QED BY <1>1, <1>2, <1>3

\* A byte that does not end a line.
LEMMA LineGrows ==
  ASSUME NEW state, state # "kParseBody", NEW line, NEW next, NEW length, NEW hs, NEW b,
         next = Append(line, b), ~EndsLine(next)
  PROVE  LET q == AddByte(Mid(state, line, length, hs, <<>>), b) IN
         q = Mid(state, next, length, hs, <<>>) \/ ~q.ok
<1> DEFINE p == Mid(state, line, length, hs, <<>>)
           q == Mid(state, next, length, hs, <<>>)
<1>1. p.parse_state_ = state /\ p.cur_line_ = line /\ q.cur_line_ = next /\ ~Refused(p).ok
  BY DEF Mid, Refused
<1>2. WithLine(p, next) = q
  BY WithLineMid
<1> HIDE DEF p, q
<1>3. AddByte(p, b) = q \/ ~AddByte(p, b).ok
  BY <1>1, <1>2, AddByteIs
<1> QED BY <1>3 DEF p, q

\* A cr lf that ends a line.
LEMMA LineEnds ==
  ASSUME NEW state, state # "kParseBody", NEW line, NEW next, NEW length, NEW hs,
         next = Append(line, "lf"), EndsLine(next), Len(next) >= 2, next[Len(next) - 1] = "cr"
  PROVE  LET q == AddByte(Mid(state, line, length, hs, <<>>), "lf") IN
         q = FinishLine(Mid(state, next, length, hs, <<>>)) \/ ~q.ok
<1> DEFINE p == Mid(state, line, length, hs, <<>>)
           q == Mid(state, next, length, hs, <<>>)
<1>1. p.parse_state_ = state /\ p.cur_line_ = line /\ q.cur_line_ = next /\ ~Refused(p).ok
  BY DEF Mid, Refused
<1>2. WithLine(p, next) = q
  BY WithLineMid
<1> HIDE DEF p, q
<1>3. CheckLine(q) = q
  BY <1>1 DEF CheckLine
<1>4. AddByte(p, "lf") = FinishLine(q) \/ ~AddByte(p, "lf").ok
  BY <1>1, <1>2, <1>3, AddByteIs
<1> QED BY <1>4 DEF p, q

\* The end of the first line opens the headers.
LEMMA FirstLineEnds ==
  ASSUME NEW line, line[1] = "first"
  PROVE  FinishLine(Mid("kParseFirstLine", line, -1, <<>>, <<>>))
           = Mid("kParseHeaders", <<>>, -1, <<>>, <<>>)
<1> DEFINE p == Mid("kParseFirstLine", line, -1, <<>>, <<>>)
           q == Mid("kParseHeaders", line, -1, <<>>, <<>>)
<1>1. p.cur_line_ = line /\ p.parse_state_ = "kParseFirstLine"
  BY MidFields
<1>2. Opened(p, "kParseHeaders") = q
  BY OpenedMid
<1>3. WithLine(q, <<>>) = Mid("kParseHeaders", <<>>, -1, <<>>, <<>>)
  BY WithLineMid
<1> HIDE DEF p, q
<1>4. HandleFirstLine(p) = Opened(p, "kParseHeaders")
  <2>1. (p.cur_line_[1] = "first") = TRUE
    BY <1>1
  <2> QED BY <2>1, Zenon DEF HandleFirstLine, Opened
<1>5. FinishLine(p) = WithLine(q, <<>>)
  BY <1>1, <1>2, <1>4, FinishLineIs
<1> QED BY <1>3, <1>5 DEF p

\* The empty line opens the body.
LEMMA BlankEnds ==
  ASSUME NEW line, Len(line) = 2, NEW length, NEW hs
  PROVE  FinishLine(Mid("kParseHeaders", line, length, hs, <<>>))
           = Mid("kParseBody", <<>>, length, hs, <<>>)
<1> DEFINE p == Mid("kParseHeaders", line, length, hs, <<>>)
           q == Mid("kParseBody", line, length, hs, <<>>)
<1>1. p.cur_line_ = line /\ p.parse_state_ = "kParseHeaders" /\ p.cur_line_end_length_ = 2
  BY MidFields
<1>2. WithState(p, "kParseBody") = q
  BY WithStateMid
<1>3. WithLine(q, <<>>) = Mid("kParseBody", <<>>, length, hs, <<>>)
  BY WithLineMid
<1> HIDE DEF p, q
<1>4. FinishLine(p) = WithLine(q, <<>>)
  BY <1>1, <1>2, FinishLineIs
<1> QED BY <1>3, <1>4 DEF p

\* The header content-length is stored, with the value that Claim says.
LEMMA LengthEnds ==
  ASSUME NEW r \in Conns
  PROVE  FinishLine(Mid("kParseHeaders", LengthLine(r), -1, <<>>, <<>>))
           = Mid("kParseHeaders", <<>>, Claim[r], Stored(r), <<>>)
<1> DEFINE line == LengthLine(r)
           p == Mid("kParseHeaders", line, -1, <<>>, <<>>)
           key == SubSeq(line, 1, 1)
           value == SubSeq(line, 4, 4)
<1>1. /\ line \in Seq(Bytes) /\ Len(line) = 6
      /\ line[1] = "key" /\ line[2] = "colon" /\ line[3] = "sp"
      /\ line[5] = "cr" /\ line[6] = "lf"
      /\ line[4] \in {"0", "1"}
  BY DEF LengthLine, Bytes
<1>2. Claim[r] \in {0, 1} /\ (Claim[r] = 1 <=> line[4] = "1")
  BY HTTPAssumption DEF LengthLine
<1> HIDE DEF line
<1>3. Positions(line, 1, {"colon"}) = {2}
  <2>1. \A j \in 1..6 : line[j] = "colon" <=> j = 2
    BY <1>1
  <2> QED BY <1>1, <2>1 DEF Positions
<1>4. Positions(line, 3, Bytes \ {"sp"}) = {4, 5, 6}
  <2>1. \A j \in 3..6 : line[j] \in Bytes \ {"sp"} <=> j \in {4, 5, 6}
    BY <1>1 DEF Bytes
  <2> QED BY <1>1, <2>1 DEF Positions
<1>5. Least({2}) = 2
  BY DEF Least
<1>6. Least({4, 5, 6}) = 4
  BY DEF Least
<1>7. /\ p.cur_line_ = line /\ p.cur_line_end_length_ = 2
      /\ p.parse_state_ = "kParseHeaders"
  BY MidFields
<1> HIDE DEF p, key, value
<1>8. AddHeader(p) = StoreHeader(p, key, value)
  <2>1. 2 + 1 = 3 /\ 2 - 1 = 1 /\ Len(line) - 2 = 4
    BY <1>1
  <2> QED BY <1>1, <1>3, <1>4, <1>5, <1>6, <1>7, <2>1 DEF AddHeader, key, value
<1>9. FinishLine(p) = WithLine(StoreHeader(p, key, value), <<>>)
  BY <1>1, <1>7, <1>8, FinishLineIs
<1>10. /\ key # <<>> /\ key[1] = "key"
       /\ ToInt(value) = Claim[r]
  <2>1. Len(key) = 1 /\ key[1] = "key" /\ Len(value) = 1 /\ value[1] = line[4]
    BY <1>1 DEF key, value
  <2>2. key # <<>> /\ value # <<>>
    BY <2>1
  <2> QED BY <1>2, <2>1, <2>2 DEF ToInt
<1>11. Append(<<>>, <<key, value>>) = Stored(r)
  BY DEF key, value, Stored, line
<1>12. StoreHeader(p, key, value) = WithHeader(p, Stored(r), Claim[r])
  <2>1. p.headers = <<>> /\ p.content_length_ = -1
    BY MidFields DEF p
  <2> QED BY <1>10, <1>11, <2>1 DEF StoreHeader, WithHeader
<1>13. WithHeader(p, Stored(r), Claim[r]) =
         Mid("kParseHeaders", line, Claim[r], Stored(r), <<>>)
  BY WithHeaderMid DEF p
<1>14. WithLine(Mid("kParseHeaders", line, Claim[r], Stored(r), <<>>), <<>>) =
         Mid("kParseHeaders", <<>>, Claim[r], Stored(r), <<>>)
  BY WithLineMid
<1> QED BY <1>9, <1>12, <1>13, <1>14 DEF p, line

\* A byte of the body.
LEMMA BodyGrows ==
  ASSUME NEW n \in Nat, NEW length, NEW hs
  PROVE  AddByte(Mid("kParseBody", <<>>, length, hs, Body(n)), "x")
           = Mid("kParseBody", <<>>, length, hs, Body(n + 1))
<1>1. Append(Body(n), "x") = Body(n + 1)
  BY DEF Body
<1> DEFINE p == Mid("kParseBody", <<>>, length, hs, Body(n))
<1>2. p.parse_state_ = "kParseBody" /\ p.body = Body(n)
  BY MidFields
<1>3. WithBody(p, Body(n + 1)) = Mid("kParseBody", <<>>, length, hs, Body(n + 1))
  BY WithBodyMid
<1> HIDE DEF p
<1>4. AddByte(p, "x") = WithBody(p, Body(n + 1))
  BY <1>1, <1>2, AddByteIs
<1> QED BY <1>3, <1>4 DEF p

\* A line, byte by byte.
LEMMA InLine ==
  ASSUME NEW l \in Seq(Bytes), NEW n \in 0 .. (Len(l) - 1), l[n + 1] # "lf",
         NEW state, state # "kParseBody", NEW length, NEW hs
  PROVE  LET q == AddByte(Mid(state, SubSeq(l, 1, n), length, hs, <<>>), l[n + 1]) IN
         q = Mid(state, SubSeq(l, 1, n + 1), length, hs, <<>>) \/ ~q.ok
<1>1. PICK line, next, b :
        line = SubSeq(l, 1, n) /\ next = SubSeq(l, 1, n + 1) /\ b = l[n + 1]
  OBVIOUS
<1>2. next = Append(line, b) /\ ~EndsLine(next)
  BY <1>1 DEF EndsLine
<1>3. LET q == AddByte(Mid(state, line, length, hs, <<>>), b) IN
      q = Mid(state, next, length, hs, <<>>) \/ ~q.ok
  BY <1>2, LineGrows
<1> QED BY <1>1, <1>3

LEMMA EndOfLine ==
  ASSUME NEW l \in Seq(Bytes), Len(l) >= 2, l[Len(l)] = "lf", l[Len(l) - 1] = "cr",
         NEW state, state # "kParseBody", NEW length, NEW hs
  PROVE  LET q == AddByte(Mid(state, SubSeq(l, 1, Len(l) - 1), length, hs, <<>>), "lf") IN
         q = FinishLine(Mid(state, l, length, hs, <<>>)) \/ ~q.ok
<1>1. PICK line, next : line = SubSeq(l, 1, Len(l) - 1) /\ next = l
  OBVIOUS
<1>2. /\ next = Append(line, "lf") /\ EndsLine(next)
      /\ Len(next) >= 2 /\ next[Len(next) - 1] = "cr"
  BY <1>1 DEF EndsLine
<1>3. LET q == AddByte(Mid(state, line, length, hs, <<>>), "lf") IN
      q = FinishLine(Mid(state, next, length, hs, <<>>)) \/ ~q.ok
  BY <1>2, LineEnds
<1> QED BY <1>1, <1>3

-----------------------------------------------------------------------------
(* The texts, byte by byte *)

\* The bytes of the lines.
LEMMA LinesAre ==
  ASSUME NEW r \in Conns
  PROVE  /\ FirstLine \in Seq(Bytes) /\ Len(FirstLine) = 3
         /\ FirstLine[1] = "first" /\ FirstLine[2] = "cr" /\ FirstLine[3] = "lf"
         /\ CRLF \in Seq(Bytes) /\ Len(CRLF) = 2 /\ CRLF[1] = "cr" /\ CRLF[2] = "lf"
         /\ LengthLine(r) \in Seq(Bytes) /\ Len(LengthLine(r)) = 6
         /\ \A i \in 1..5 : LengthLine(r)[i] # "lf"
         /\ LengthLine(r)[5] = "cr" /\ LengthLine(r)[6] = "lf"
BY DEF FirstLine, CRLF, LengthLine, Bytes

\* The bytes of a body, and of a text that ends with one.
LEMMA BodyIs ==
  ASSUME NEW n \in Nat
  PROVE  /\ Body(n) \in Seq(Bytes) /\ Len(Body(n)) = n
         /\ \A i \in 1..n : Body(n)[i] = "x"
BY DEF Body, Bytes

LEMMA HeadAndBody ==
  ASSUME NEW h \in Seq(Bytes), NEW n \in Nat
  PROVE  LET text == h \o Body(n) IN
         /\ text \in Seq(Bytes) /\ Len(text) = Len(h) + n
         /\ \A i \in 1 .. Len(h) : text[i] = h[i]
         /\ \A i \in (Len(h) + 1) .. Len(text) : text[i] = "x"
<1>1. PICK b \in Seq(Bytes) : b = Body(n)
  BY BodyIs
<1>2. Len(b) = n /\ \A i \in 1..n : b[i] = "x"
  BY <1>1, BodyIs
<1>3. /\ h \o b \in Seq(Bytes) /\ Len(h \o b) = Len(h) + n
      /\ \A i \in 1 .. Len(h) : (h \o b)[i] = h[i]
      /\ \A i \in (Len(h) + 1) .. Len(h \o b) : (h \o b)[i] = b[i - Len(h)]
  BY <1>2
<1>4. \A i \in (Len(h) + 1) .. Len(h \o b) : i - Len(h) \in 1..n
  BY <1>3
<1> QED BY <1>1, <1>2, <1>3, <1>4

\* The bytes of a request.
LEMMA RequestIs ==
  ASSUME NEW r \in Conns
  PROVE  LET text == RequestText(r) IN
         /\ text \in Seq(Bytes) /\ Len(text) = 11 + Size[r]
         /\ \A i \in 1..3 : text[i] = FirstLine[i]
         /\ \A i \in 4..9 : text[i] = LengthLine(r)[i - 3]
         /\ text[10] = CRLF[1] /\ text[11] = CRLF[2]
         /\ \A i \in 12 .. Len(text) : text[i] = "x"
<1> DEFINE a == <<"first">> \o CRLF
                  \o <<"key", "colon", "sp", IF Claim[r] = 1 THEN "1" ELSE "0">>
                  \o CRLF \o CRLF
           text == RequestText(r)
<1>1. /\ a \in Seq(Bytes) /\ Len(a) = 11
      /\ a[1] = "first" /\ a[2] = "cr" /\ a[3] = "lf" /\ a[4] = "key" /\ a[5] = "colon"
      /\ a[6] = "sp" /\ a[7] = (IF Claim[r] = 1 THEN "1" ELSE "0") /\ a[8] = "cr"
      /\ a[9] = "lf" /\ a[10] = "cr" /\ a[11] = "lf"
  BY DEF CRLF, Bytes
<1>2. /\ \A i \in 1..3 : a[i] = FirstLine[i]
      /\ \A i \in 4..9 : a[i] = LengthLine(r)[i - 3]
      /\ a[10] = CRLF[1] /\ a[11] = CRLF[2]
  BY <1>1 DEF FirstLine, LengthLine, CRLF
<1>3. text = a \o Body(Size[r])
  BY DEF RequestText
<1>4. Size[r] \in Nat
  BY HTTPAssumption
<1> HIDE DEF a, text
<1>5. /\ text \in Seq(Bytes) /\ Len(text) = Len(a) + Size[r]
      /\ \A i \in 1 .. Len(a) : text[i] = a[i]
      /\ \A i \in (Len(a) + 1) .. Len(text) : text[i] = "x"
  BY <1>1, <1>3, <1>4, HeadAndBody
<1>6. /\ \A i \in 1..3 : text[i] = FirstLine[i]
      /\ \A i \in 4..9 : text[i] = LengthLine(r)[i - 3]
      /\ text[10] = CRLF[1] /\ text[11] = CRLF[2]
  BY <1>1, <1>2, <1>5
<1>7. \A i \in 12 .. Len(text) : text[i] = "x"
  BY <1>1, <1>5
<1> QED BY <1>1, <1>5, <1>6, <1>7 DEF text

\* The bytes of a response.
LEMMA ResponseIs ==
  ASSUME NEW code
  PROVE  LET text == ResponseText(code) IN
         /\ text \in Seq(Bytes) /\ Len(text) = IF code = "ok" THEN 6 ELSE 5
         /\ \A i \in 1..3 : text[i] = FirstLine[i]
         /\ text[4] = CRLF[1] /\ text[5] = CRLF[2]
         /\ \A i \in 6 .. Len(text) : text[i] = "x"
<1> DEFINE n == IF code = "ok" THEN 1 ELSE 0
           a == <<"first">> \o CRLF \o CRLF
           text == ResponseText(code)
<1>1. /\ a \in Seq(Bytes) /\ Len(a) = 5
      /\ a[1] = "first" /\ a[2] = "cr" /\ a[3] = "lf" /\ a[4] = "cr" /\ a[5] = "lf"
  BY DEF CRLF, Bytes
<1>2. /\ \A i \in 1..3 : a[i] = FirstLine[i]
      /\ a[4] = CRLF[1] /\ a[5] = CRLF[2]
  BY <1>1 DEF FirstLine, CRLF
<1>3. text = a \o Body(n)
  BY DEF ResponseText
<1>4. n \in Nat /\ 5 + n = IF code = "ok" THEN 6 ELSE 5
  OBVIOUS
<1> HIDE DEF a, text, n
<1>5. /\ text \in Seq(Bytes) /\ Len(text) = Len(a) + n
      /\ \A i \in 1 .. Len(a) : text[i] = a[i]
      /\ \A i \in (Len(a) + 1) .. Len(text) : text[i] = "x"
  BY <1>1, <1>3, <1>4, HeadAndBody
<1>6. /\ \A i \in 1..3 : text[i] = FirstLine[i]
      /\ text[4] = CRLF[1] /\ text[5] = CRLF[2]
  BY <1>1, <1>2, <1>5
<1>7. \A i \in 6 .. Len(text) : text[i] = "x"
  BY <1>1, <1>5
<1> QED BY <1>1, <1>4, <1>5, <1>6, <1>7 DEF text

\* Each byte of the first line, of the empty line, and of the header.
LEMMA FirstAt ==
  ASSUME NEW n \in 1..3
  PROVE  LET q == AddByte(Mid("kParseFirstLine", SubSeq(FirstLine, 1, n - 1), -1, <<>>, <<>>),
                          FirstLine[n])
         IN  q = (IF n <= 2 THEN Mid("kParseFirstLine", SubSeq(FirstLine, 1, n), -1, <<>>, <<>>)
                  ELSE Mid("kParseHeaders", <<>>, -1, <<>>, <<>>))
             \/ ~q.ok
<1>1. /\ FirstLine \in Seq(Bytes) /\ Len(FirstLine) = 3
      /\ FirstLine[1] = "first" /\ FirstLine[2] = "cr" /\ FirstLine[3] = "lf"
  BY DEF FirstLine, Bytes
<1>2. CASE n \in 1..2
  <2>1. n - 1 \in 0 .. (Len(FirstLine) - 1) /\ n - 1 + 1 = n /\ FirstLine[n] # "lf"
    BY <1>1, <1>2
  <2>2. LET q == AddByte(Mid("kParseFirstLine", SubSeq(FirstLine, 1, n - 1), -1, <<>>, <<>>),
                         FirstLine[n - 1 + 1])
        IN  q = Mid("kParseFirstLine", SubSeq(FirstLine, 1, n - 1 + 1), -1, <<>>, <<>>)
            \/ ~q.ok
    BY <1>1, <2>1, InLine
  <2> QED BY <1>2, <2>1, <2>2
<1>3. CASE n = 3
  <2>1. LET q == AddByte(Mid("kParseFirstLine", SubSeq(FirstLine, 1, Len(FirstLine) - 1), -1, <<>>, <<>>),
                         "lf")
        IN  q = FinishLine(Mid("kParseFirstLine", FirstLine, -1, <<>>, <<>>)) \/ ~q.ok
    BY <1>1, EndOfLine
  <2>2. FinishLine(Mid("kParseFirstLine", FirstLine, -1, <<>>, <<>>)) =
           Mid("kParseHeaders", <<>>, -1, <<>>, <<>>)
    BY <1>1, FirstLineEnds
  <2> QED BY <1>1, <1>3, <2>1, <2>2
<1> QED BY <1>2, <1>3

LEMMA BlankAt ==
  ASSUME NEW n \in 1..2, NEW length, NEW hs
  PROVE  LET q == AddByte(Mid("kParseHeaders", SubSeq(CRLF, 1, n - 1), length, hs, <<>>),
                          CRLF[n])
         IN  q = (IF n = 1 THEN Mid("kParseHeaders", SubSeq(CRLF, 1, 1), length, hs, <<>>)
                  ELSE Mid("kParseBody", <<>>, length, hs, <<>>))
             \/ ~q.ok
<1>1. CRLF \in Seq(Bytes) /\ Len(CRLF) = 2 /\ CRLF[1] = "cr" /\ CRLF[2] = "lf"
  BY DEF CRLF, Bytes
<1>2. CASE n = 1
  <2>1. 0 \in 0 .. (Len(CRLF) - 1) /\ 0 + 1 = 1 /\ CRLF[1] # "lf" /\ n - 1 = 0
    BY <1>1, <1>2
  <2>2. LET q == AddByte(Mid("kParseHeaders", SubSeq(CRLF, 1, 0), length, hs, <<>>),
                         CRLF[0 + 1])
        IN  q = Mid("kParseHeaders", SubSeq(CRLF, 1, 0 + 1), length, hs, <<>>) \/ ~q.ok
    BY <1>1, <2>1, InLine
  <2> QED BY <1>2, <2>1, <2>2
<1>3. CASE n = 2
  <2>1. LET q == AddByte(Mid("kParseHeaders", SubSeq(CRLF, 1, Len(CRLF) - 1), length, hs, <<>>),
                         "lf")
        IN  q = FinishLine(Mid("kParseHeaders", CRLF, length, hs, <<>>)) \/ ~q.ok
    <3>1. Len(CRLF) >= 2 /\ CRLF[Len(CRLF)] = "lf" /\ CRLF[Len(CRLF) - 1] = "cr"
          /\ "kParseHeaders" # "kParseBody"
      BY <1>1
    <3> QED BY <1>1, <3>1, EndOfLine
  <2>2. FinishLine(Mid("kParseHeaders", CRLF, length, hs, <<>>)) =
           Mid("kParseBody", <<>>, length, hs, <<>>)
    BY <1>1, BlankEnds
  <2> QED BY <1>1, <1>3, <2>1, <2>2
<1> QED BY <1>2, <1>3

LEMMA LengthAt ==
  ASSUME NEW r \in Conns, NEW n \in 1..6
  PROVE  LET q == AddByte(Mid("kParseHeaders", SubSeq(LengthLine(r), 1, n - 1), -1, <<>>, <<>>),
                          LengthLine(r)[n])
         IN  q = (IF n <= 5 THEN Mid("kParseHeaders", SubSeq(LengthLine(r), 1, n), -1, <<>>, <<>>)
                  ELSE Mid("kParseHeaders", <<>>, Claim[r], Stored(r), <<>>))
             \/ ~q.ok
<1>1. PICK l : l = LengthLine(r)
  OBVIOUS
<1>2. /\ l \in Seq(Bytes) /\ Len(l) = 6 /\ \A i \in 1..5 : l[i] # "lf"
      /\ l[5] = "cr" /\ l[6] = "lf"
  BY <1>1, LinesAre
<1>3. CASE n \in 1..5
  <2>1. n - 1 \in 0 .. (Len(l) - 1) /\ n - 1 + 1 = n /\ l[n] # "lf"
    BY <1>2, <1>3
  <2>2. LET q == AddByte(Mid("kParseHeaders", SubSeq(l, 1, n - 1), -1, <<>>, <<>>),
                         l[n - 1 + 1])
        IN  q = Mid("kParseHeaders", SubSeq(l, 1, n - 1 + 1), -1, <<>>, <<>>)
            \/ ~q.ok
    BY <1>2, <2>1, InLine
  <2> QED BY <1>1, <1>3, <2>1, <2>2
<1>4. CASE n = 6
  <2>1. LET q == AddByte(Mid("kParseHeaders", SubSeq(l, 1, Len(l) - 1), -1, <<>>, <<>>), "lf")
        IN  q = FinishLine(Mid("kParseHeaders", l, -1, <<>>, <<>>)) \/ ~q.ok
    <3>1. Len(l) >= 2 /\ l[Len(l)] = "lf" /\ l[Len(l) - 1] = "cr"
          /\ "kParseHeaders" # "kParseBody"
      BY <1>2
    <3> QED BY <1>2, <3>1, EndOfLine
  <2>2. FinishLine(Mid("kParseHeaders", l, -1, <<>>, <<>>)) =
           Mid("kParseHeaders", <<>>, Claim[r], Stored(r), <<>>)
    BY <1>1, LengthEnds
  <2> QED BY <1>1, <1>2, <1>4, <2>1, <2>2
<1> QED BY <1>3, <1>4

\* What is empty.
LEMMA EmptyIs ==
  /\ \A l \in Seq(Bytes) : SubSeq(l, 1, 0) = <<>>
  /\ Body(0) = <<>>
BY DEF Body

\* Every byte of a request takes the parser one place on, or is refused.
LEMMA RequestStep ==
  ASSUME NEW r \in Conns, NEW n \in 1 .. Len(RequestText(r))
  PROVE  LET q == AddByte(RequestAt(r, n - 1), RequestText(r)[n])
         IN  q = RequestAt(r, n) \/ ~q.ok
<1> DEFINE text == RequestText(r)
<1>0. /\ text \in Seq(Bytes) /\ n \in Nat /\ n >= 1
      /\ \A i \in 1..3 : text[i] = FirstLine[i]
      /\ \A i \in 4..9 : text[i] = LengthLine(r)[i - 3]
      /\ text[10] = CRLF[1] /\ text[11] = CRLF[2]
      /\ \A i \in 12 .. Len(text) : text[i] = "x"
  BY RequestIs
<1> HIDE DEF text
<1>1. CASE n \in 1..3
  <2>1. /\ n - 1 \in 0..2 /\ text[n] = FirstLine[n]
        /\ n <= 2 => n \in 0..2
        /\ n > 2 => n = 3
    BY <1>0, <1>1
  <2>2. RequestAt(r, n - 1) =
          Mid("kParseFirstLine", SubSeq(FirstLine, 1, n - 1), -1, <<>>, <<>>)
    BY <2>1 DEF RequestAt
  <2>3. n <= 2 => RequestAt(r, n) =
          Mid("kParseFirstLine", SubSeq(FirstLine, 1, n), -1, <<>>, <<>>)
    BY <2>1 DEF RequestAt
  <2>4. RequestAt(r, 3) = Mid("kParseHeaders", <<>>, -1, <<>>, <<>>)
    <3>1. SubSeq(LengthLine(r), 1, 0) = <<>>
      BY LinesAre, EmptyIs
    <3>2. RequestAt(r, 3) = Mid("kParseHeaders", SubSeq(LengthLine(r), 1, 0), -1, <<>>, <<>>)
      BY DEF RequestAt
    <3> QED BY <3>1, <3>2
  <2>5. LET q == AddByte(RequestAt(r, n - 1), text[n])
        IN  q = (IF n <= 2 THEN Mid("kParseFirstLine", SubSeq(FirstLine, 1, n), -1, <<>>, <<>>)
                  ELSE Mid("kParseHeaders", <<>>, -1, <<>>, <<>>))
            \/ ~q.ok
    BY <1>1, <2>1, <2>2, FirstAt
  <2> QED BY <2>1, <2>3, <2>4, <2>5 DEF text
<1>2. CASE n \in 4..9
  <2>0. PICK k \in 1..6 : k = n - 3
    BY <1>2
  <2>1. /\ n - 1 \in 3..8 /\ text[n] = LengthLine(r)[k] /\ n - 1 - 3 = k - 1
        /\ k <= 5 => n \in 3..8
        /\ k > 5 => n = 9
    BY <1>0, <1>2, <2>0
  <2>2. RequestAt(r, n - 1) =
          Mid("kParseHeaders", SubSeq(LengthLine(r), 1, k - 1), -1, <<>>, <<>>)
    BY <2>1 DEF RequestAt
  <2>3. k <= 5 => RequestAt(r, n) =
          Mid("kParseHeaders", SubSeq(LengthLine(r), 1, k), -1, <<>>, <<>>)
    BY <2>0, <2>1 DEF RequestAt
  <2>4. RequestAt(r, 9) = Mid("kParseHeaders", <<>>, Claim[r], Stored(r), <<>>)
    <3>1. SubSeq(CRLF, 1, 0) = <<>>
      BY LinesAre, EmptyIs
    <3>2. RequestAt(r, 9) =
            Mid("kParseHeaders", SubSeq(CRLF, 1, 0), Claim[r], Stored(r), <<>>)
      BY DEF RequestAt
    <3> QED BY <3>1, <3>2
  <2>5. LET q == AddByte(RequestAt(r, n - 1), text[n])
        IN  q = (IF k <= 5 THEN Mid("kParseHeaders", SubSeq(LengthLine(r), 1, k), -1, <<>>, <<>>)
                  ELSE Mid("kParseHeaders", <<>>, Claim[r], Stored(r), <<>>))
            \/ ~q.ok
    BY <2>1, <2>2, LengthAt
  <2> QED BY <2>0, <2>1, <2>3, <2>4, <2>5 DEF text
<1>3. CASE n \in 10..11
  <2>0. PICK k \in 1..2 : k = n - 9
    BY <1>3
  <2>1. /\ n - 1 \in 9..10 /\ text[n] = CRLF[k] /\ n - 1 - 9 = k - 1
        /\ k = 1 => n = 10
        /\ k # 1 => n = 11
    BY <1>0, <1>3, <2>0
  <2>2. RequestAt(r, n - 1) =
          Mid("kParseHeaders", SubSeq(CRLF, 1, k - 1), Claim[r], Stored(r), <<>>)
    BY <2>1 DEF RequestAt
  <2>3. RequestAt(r, 10) = Mid("kParseHeaders", SubSeq(CRLF, 1, 1), Claim[r], Stored(r), <<>>)
    BY DEF RequestAt
  <2>4. RequestAt(r, 11) = Mid("kParseBody", <<>>, Claim[r], Stored(r), <<>>)
    <3>1. Body(11 - 11) = <<>>
      BY EmptyIs
    <3> QED BY <3>1 DEF RequestAt
  <2>5. LET q == AddByte(RequestAt(r, n - 1), text[n])
        IN  q = (IF k = 1 THEN Mid("kParseHeaders", SubSeq(CRLF, 1, 1), Claim[r], Stored(r), <<>>)
                  ELSE Mid("kParseBody", <<>>, Claim[r], Stored(r), <<>>))
            \/ ~q.ok
    BY <2>1, <2>2, BlankAt
  <2> QED BY <2>0, <2>1, <2>3, <2>4, <2>5 DEF text
<1>4. CASE n >= 12
  <2>0. PICK k \in Nat : n = 12 + k
    <3>1. n - 12 \in Nat /\ n = 12 + (n - 12)
      BY <1>0, <1>4
    <3> QED BY <3>1
  <2>1. text[n] = "x" /\ n - 1 - 11 = k /\ n - 11 = k + 1
    BY <1>0, <1>4, <2>0 DEF text
  <2>2. /\ RequestAt(r, n - 1) = Mid("kParseBody", <<>>, Claim[r], Stored(r), Body(k))
        /\ RequestAt(r, n) = Mid("kParseBody", <<>>, Claim[r], Stored(r), Body(k + 1))
    BY <2>0, <2>1 DEF RequestAt
  <2> QED BY <2>1, <2>2, BodyGrows DEF text
<1> QED BY <1>0, <1>1, <1>2, <1>3, <1>4

\* So does every byte of a response.
LEMMA ResponseStep ==
  ASSUME NEW code, NEW n \in 1 .. Len(ResponseText(code))
  PROVE  LET q == AddByte(ResponseAt(n - 1), ResponseText(code)[n])
         IN  q = ResponseAt(n) \/ ~q.ok
<1> DEFINE text == ResponseText(code)
<1>0. /\ text \in Seq(Bytes) /\ n \in Nat /\ n >= 1
      /\ \A i \in 1..3 : text[i] = FirstLine[i]
      /\ text[4] = CRLF[1] /\ text[5] = CRLF[2]
      /\ \A i \in 6 .. Len(text) : text[i] = "x"
  BY ResponseIs
<1>5. CRLF \in Seq(Bytes)
  BY DEF CRLF, Bytes
<1> HIDE DEF text
<1>1. CASE n \in 1..3
  <2>1. /\ n - 1 \in 0..2 /\ text[n] = FirstLine[n]
        /\ n <= 2 => n \in 0..2
        /\ n > 2 => n = 3
    BY <1>0, <1>1
  <2>2. ResponseAt(n - 1) = Mid("kParseFirstLine", SubSeq(FirstLine, 1, n - 1), -1, <<>>, <<>>)
    BY <2>1 DEF ResponseAt
  <2>3. n <= 2 => ResponseAt(n) =
          Mid("kParseFirstLine", SubSeq(FirstLine, 1, n), -1, <<>>, <<>>)
    BY <2>1 DEF ResponseAt
  <2>4. ResponseAt(3) = Mid("kParseHeaders", <<>>, -1, <<>>, <<>>)
    <3>1. SubSeq(CRLF, 1, 0) = <<>>
      BY <1>5, EmptyIs
    <3>2. ResponseAt(3) = Mid("kParseHeaders", SubSeq(CRLF, 1, 0), -1, <<>>, <<>>)
      BY DEF ResponseAt
    <3> QED BY <3>1, <3>2
  <2>5. LET q == AddByte(ResponseAt(n - 1), text[n])
        IN  q = (IF n <= 2 THEN Mid("kParseFirstLine", SubSeq(FirstLine, 1, n), -1, <<>>, <<>>)
                  ELSE Mid("kParseHeaders", <<>>, -1, <<>>, <<>>))
            \/ ~q.ok
    BY <1>1, <2>1, <2>2, FirstAt
  <2> QED BY <2>1, <2>3, <2>4, <2>5 DEF text
<1>2. CASE n \in 4..5
  <2>0. PICK k \in 1..2 : k = n - 3
    BY <1>2
  <2>1. /\ n - 1 \in 3..4 /\ text[n] = CRLF[k] /\ n - 1 - 3 = k - 1
        /\ k = 1 => n = 4
        /\ k # 1 => n = 5
    BY <1>0, <1>2, <2>0
  <2>2. ResponseAt(n - 1) = Mid("kParseHeaders", SubSeq(CRLF, 1, k - 1), -1, <<>>, <<>>)
    BY <2>1 DEF ResponseAt
  <2>3. ResponseAt(4) = Mid("kParseHeaders", SubSeq(CRLF, 1, 1), -1, <<>>, <<>>)
    BY DEF ResponseAt
  <2>4. ResponseAt(5) = Mid("kParseBody", <<>>, -1, <<>>, <<>>)
    <3>1. Body(5 - 5) = <<>>
      BY EmptyIs
    <3> QED BY <3>1 DEF ResponseAt
  <2>5. LET q == AddByte(ResponseAt(n - 1), text[n])
        IN  q = (IF k = 1 THEN Mid("kParseHeaders", SubSeq(CRLF, 1, 1), -1, <<>>, <<>>)
                  ELSE Mid("kParseBody", <<>>, -1, <<>>, <<>>))
            \/ ~q.ok
    BY <2>1, <2>2, BlankAt
  <2> QED BY <2>0, <2>1, <2>3, <2>4, <2>5 DEF text
<1>3. CASE n >= 6
  <2>0. PICK k \in Nat : n = 6 + k
    <3>1. n - 6 \in Nat /\ n = 6 + (n - 6)
      BY <1>0, <1>3
    <3> QED BY <3>1
  <2>1. text[n] = "x" /\ n - 1 - 5 = k /\ n - 5 = k + 1
    BY <1>0, <1>3, <2>0 DEF text
  <2>2. /\ ResponseAt(n - 1) = Mid("kParseBody", <<>>, -1, <<>>, Body(k))
        /\ ResponseAt(n) = Mid("kParseBody", <<>>, -1, <<>>, Body(k + 1))
    BY <2>0, <2>1 DEF ResponseAt
  <2> QED BY <2>1, <2>2, BodyGrows DEF text
<1> QED BY <1>0, <1>1, <1>2, <1>3

-----------------------------------------------------------------------------
(* Parse, in however many reads *)

(***************************************************************************)
(* A parser that is at path[n] after the first n bytes of a text is at     *)
(* path[m] after the next m - n of them, unless a byte is refused.         *)
(***************************************************************************)
LEMMA ParseFollows ==
  ASSUME NEW B, NEW text \in Seq(B), NEW path, NEW n \in Nat, NEW m \in Nat,
         n <= m, m <= Len(text),
         \A i \in n..m : path[i].ok,
         \A i \in (n + 1)..m :
           LET q == AddByte(path[i - 1], text[i]) IN q = path[i] \/ ~q.ok
  PROVE  LET p == Parse(path[n], SubSeq(text, n + 1, m)) IN p = path[m] \/ ~p.ok
<1> DEFINE msg == SubSeq(text, n + 1, m)
           Step(i, q) == IF q.ok THEN AddByte(q, msg[i]) ELSE q
           F(g) == [i \in 0 .. Len(msg) |->
                      IF i = 0 THEN {path[n]}
                      ELSE {IF q.ok THEN AddByte(q, msg[i]) ELSE q : q \in g[i - 1]}]
           After == CHOOSE g : g = F(g)
<1>1. /\ msg \in Seq(B) /\ Len(msg) = m - n /\ Len(msg) \in Nat
      /\ \A i \in 1..(m - n) : msg[i] = text[n + i]
  OBVIOUS
<1> HIDE DEF msg
<1>2. \E G : /\ G[0] = path[n]
             /\ \A i \in 1..(m - n) : G[i] = Step(i, G[i - 1])
             /\ G[m - n] = path[m] \/ ~G[m - n].ok
  <2> DEFINE R == {j \in (n + 1)..m : AddByte(path[j - 1], text[j]) # path[j]}
  <2>1. CASE R = {}
    <3> DEFINE G == [i \in 0..(m - n) |-> path[n + i]]
    <3>1. ASSUME NEW i \in 1..(m - n)
          PROVE  G[i] = Step(i, G[i - 1])
      <4>1. n + i \in (n + 1)..m /\ n + i - 1 \in n..m /\ i - 1 \in 0..(m - n)
            /\ n + (i - 1) = n + i - 1
        OBVIOUS
      <4>2. AddByte(path[n + i - 1], text[n + i]) = path[n + i]
        BY <2>1, <4>1
      <4>3. G[i - 1] = path[n + i - 1] /\ G[i] = path[n + i]
        BY <4>1
      <4> HIDE DEF G
      <4> QED BY <1>1, <4>1, <4>2, <4>3
    <3>2. G[0] = path[n] /\ G[m - n] = path[m]
      OBVIOUS
    <3> QED BY <3>1, <3>2
  <2>2. CASE R # {}
    <3>1. PICK k \in R : \A j \in R : k <= j
      <4>1. R \in SUBSET Nat
        OBVIOUS
      <4> HIDE DEF R
      <4> QED BY <2>2, <4>1, LeastNatural
    <3> DEFINE b == AddByte(path[k - 1], text[k])
               G == [i \in 0..(m - n) |-> IF n + i < k THEN path[n + i] ELSE b]
    <3>2. k \in (n + 1)..m /\ ~b.ok
      BY <3>1
    <3>3. ASSUME NEW i \in 1..(m - n)
          PROVE  G[i] = Step(i, G[i - 1])
      <4>1. n + i \in (n + 1)..m /\ n + i - 1 \in n..m /\ i - 1 \in 0..(m - n)
            /\ n + (i - 1) = n + i - 1
        OBVIOUS
      <4>2. CASE n + i < k
        <5>1. n + i \notin R
          BY <3>1, <3>2, <4>1, <4>2
        <5>2. AddByte(path[n + i - 1], text[n + i]) = path[n + i]
          BY <4>1, <5>1
        <5>3. G[i - 1] = path[n + i - 1] /\ G[i] = path[n + i]
          BY <3>2, <4>1, <4>2
        <5> HIDE DEF G
        <5> QED BY <1>1, <4>1, <5>2, <5>3
      <4>3. CASE n + i = k
        <5>1. G[i - 1] = path[k - 1] /\ G[i] = b
          BY <3>2, <4>1, <4>3
        <5> HIDE DEF G
        <5> QED BY <1>1, <3>2, <4>1, <4>3, <5>1
      <4>4. CASE n + i > k
        <5>1. G[i - 1] = b /\ G[i] = b
          BY <3>2, <4>1, <4>4
        <5> HIDE DEF G, b
        <5> QED BY <3>2, <5>1
      <4> QED BY <3>2, <4>2, <4>3, <4>4
    <3>4. G[0] = path[n] /\ G[m - n] = b
      BY <3>2
    <3> HIDE DEF G, b
    <3> QED BY <3>2, <3>3, <3>4
  <2> QED BY <2>1, <2>2
<1>3. PICK G : /\ G[0] = path[n]
               /\ \A i \in 1..(m - n) : G[i] = Step(i, G[i - 1])
               /\ G[m - n] = path[m] \/ ~G[m - n].ok
  BY <1>2, Zenon
<1>4. After = F(After)
  <2> DEFINE f == [i \in 0 .. Len(msg) |-> {G[i]}]
  <2>1. f = F(f)
    <3>1. ASSUME NEW i \in 0 .. Len(msg)
          PROVE  f[i] = F(f)[i]
      <4>1. CASE i = 0
        BY <1>3, <4>1
      <4>2. CASE i # 0
        <5>1. i - 1 \in 0 .. Len(msg) /\ i \in 1..(m - n)
          BY <1>1, <4>2
        <5>2. f[i - 1] = {G[i - 1]} /\ f[i] = {G[i]}
          BY <5>1
        <5>3. F(f)[i] = {Step(i, q) : q \in f[i - 1]}
          BY <4>2
        <5>4. G[i] = Step(i, G[i - 1])
          BY <1>3, <5>1, Zenon
        <5> HIDE DEF f, F, Step
        <5> QED BY <5>2, <5>3, <5>4
      <4> QED BY <4>1, <4>2
    <3>2. /\ f = [i \in 0 .. Len(msg) |-> f[i]]
          /\ F(f) = [i \in 0 .. Len(msg) |-> F(f)[i]]
      OBVIOUS
    <3> HIDE DEF f, F
    <3> QED BY <3>1, <3>2
  <2> HIDE DEF F, f
  <2> QED BY <2>1
<1>5. Parse(path[n], msg) = CHOOSE q \in After[Len(msg)] : TRUE
  BY Zenon DEF Parse
<1> HIDE DEF After
<1>6. After[Len(msg)] = {G[m - n]}
  <2> DEFINE S == {i \in 0..(m - n) : After[i] = {G[i]}}
  <2>1. 0 \in S
    BY <1>1, <1>3, <1>4
  <2>2. ASSUME NEW i \in 1..(m - n), i - 1 \in S
        PROVE  i \in S
    <3>1. After[i - 1] = {G[i - 1]} /\ i \in 0 .. Len(msg) /\ i # 0
      BY <1>1, <2>2
    <3>2. After[i] = {Step(i, q) : q \in After[i - 1]}
      BY <1>4, <3>1
    <3>3. G[i] = Step(i, G[i - 1])
      BY <1>3, Zenon
    <3> HIDE DEF Step, F
    <3> QED BY <3>1, <3>2, <3>3
  <2> HIDE DEF S
  <2>3. m - n \in Nat /\ m - n \in 0..(m - n)
    OBVIOUS
  <2>4. m - n \in S
    BY <2>1, <2>2, <2>3, UpTo
  <2> QED BY <1>1, <2>4 DEF S
<1> HIDE DEF F, Step
<1>7. Parse(path[n], msg) = G[m - n]
  BY <1>5, <1>6
<1> QED BY <1>3, <1>7 DEF msg

\* However a request is cut, Parse leaves the parser where its bytes are.
LEMMA RequestParsed ==
  ASSUME NEW r \in Conns, NEW n \in Nat, NEW m \in Nat, n <= m, m <= Len(RequestText(r))
  PROVE  LET p == Parse(RequestAt(r, n), SubSeq(RequestText(r), n + 1, m))
         IN  p = RequestAt(r, m) \/ ~p.ok
<1>1. PICK text \in Seq(Bytes) : text = RequestText(r)
  BY RequestIs
<1> DEFINE path == [i \in 0 .. Len(text) |-> RequestAt(r, i)]
<1>2. \A i \in n..m : path[i] = RequestAt(r, i) /\ path[i].ok
  <2> SUFFICES ASSUME NEW i \in n..m PROVE path[i] = RequestAt(r, i) /\ path[i].ok
    OBVIOUS
  <2>1. path[i] = RequestAt(r, i)
    BY <1>1
  <2>2. RequestAt(r, i).ok
    BY MidFields DEF RequestAt
  <2> QED BY <2>1, <2>2
<1>3. ASSUME NEW i \in (n + 1)..m
      PROVE  LET q == AddByte(path[i - 1], text[i]) IN q = path[i] \/ ~q.ok
  <2>1. i \in 1 .. Len(text) /\ i - 1 \in n..m /\ i \in n..m
    BY <1>1
  <2>2. path[i - 1] = RequestAt(r, i - 1) /\ path[i] = RequestAt(r, i)
    BY <1>2, <2>1
  <2> HIDE DEF path
  <2> QED BY <1>1, <2>1, <2>2, RequestStep
<1>4. n \in n..m /\ m \in n..m
  OBVIOUS
<1> HIDE DEF path
<1>5. LET p == Parse(path[n], SubSeq(text, n + 1, m)) IN p = path[m] \/ ~p.ok
  BY <1>1, <1>2, <1>3, ParseFollows
<1> QED BY <1>1, <1>2, <1>4, <1>5

\* So with a response.
LEMMA ResponseParsed ==
  ASSUME NEW code, NEW n \in Nat, NEW m \in Nat, n <= m, m <= Len(ResponseText(code))
  PROVE  LET p == Parse(ResponseAt(n), SubSeq(ResponseText(code), n + 1, m))
         IN  p = ResponseAt(m) \/ ~p.ok
<1>1. PICK text \in Seq(Bytes) : text = ResponseText(code)
  BY ResponseIs
<1> DEFINE path == [i \in 0 .. Len(text) |-> ResponseAt(i)]
<1>2. \A i \in n..m : path[i] = ResponseAt(i) /\ path[i].ok
  <2> SUFFICES ASSUME NEW i \in n..m PROVE path[i] = ResponseAt(i) /\ path[i].ok
    OBVIOUS
  <2>1. path[i] = ResponseAt(i)
    BY <1>1
  <2>2. ResponseAt(i).ok
    BY MidFields DEF ResponseAt
  <2> QED BY <2>1, <2>2
<1>3. ASSUME NEW i \in (n + 1)..m
      PROVE  LET q == AddByte(path[i - 1], text[i]) IN q = path[i] \/ ~q.ok
  <2>1. i \in 1 .. Len(text) /\ i - 1 \in n..m /\ i \in n..m
    BY <1>1
  <2>2. path[i - 1] = ResponseAt(i - 1) /\ path[i] = ResponseAt(i)
    BY <1>2, <2>1
  <2> HIDE DEF path
  <2> QED BY <1>1, <2>1, <2>2, ResponseStep
<1>4. n \in n..m /\ m \in n..m
  OBVIOUS
<1> HIDE DEF path
<1>5. LET p == Parse(path[n], SubSeq(text, n + 1, m)) IN p = path[m] \/ ~p.ok
  BY <1>1, <1>2, <1>3, ParseFollows
<1> QED BY <1>1, <1>2, <1>4, <1>5

\* What the server asks the parser.
LEMMA RequestAtIs ==
  ASSUME NEW r \in Conns, NEW n \in Nat
  PROVE  /\ RequestAt(r, n).ok
         /\ RecievedAllHeaders(RequestAt(r, n)) <=> n >= 11
         /\ n >= 11 => /\ RequestAt(r, n).content_length_ = Claim[r]
                       /\ RequestAt(r, n).body = Body(n - 11)
<1>1. CASE n \in 0..2 \/ n \in 3..8 \/ n \in 9..10
  BY <1>1, MidFields DEF RequestAt, RecievedAllHeaders
<1>2. CASE n >= 11
  <2>1. RequestAt(r, n) = Mid("kParseBody", <<>>, Claim[r], Stored(r), Body(n - 11))
    BY <1>2 DEF RequestAt
  <2> QED BY <1>2, <2>1, MidFields DEF RecievedAllHeaders
<1> QED BY <1>1, <1>2

\* What the client asks it.
LEMMA ResponseAtIs ==
  ASSUME NEW n \in Nat
  PROVE  /\ ResponseAt(n).ok
         /\ RecievedAllHeaders(ResponseAt(n)) <=> n >= 5
         /\ n >= 5 => ResponseAt(n).body = Body(n - 5)
<1>1. CASE n \in 0..2 \/ n \in 3..4
  BY <1>1, MidFields DEF ResponseAt, RecievedAllHeaders
<1>2. CASE n >= 5
  <2>1. ResponseAt(n) = Mid("kParseBody", <<>>, -1, <<>>, Body(n - 5))
    BY <1>2 DEF ResponseAt
  <2> QED BY <1>2, <2>1, MidFields DEF RecievedAllHeaders
<1> QED BY <1>1, <1>2

\* A new parser has read nothing.
LEMMA FreshParser ==
  ASSUME NEW r
  PROVE  NewParser = RequestAt(r, 0) /\ NewParser = ResponseAt(0)
<1>1. SubSeq(FirstLine, 1, 0) = <<>>
  BY DEF FirstLine
<1>2. /\ RequestAt(r, 0) = Mid("kParseFirstLine", SubSeq(FirstLine, 1, 0), -1, <<>>, <<>>)
      /\ ResponseAt(0) = Mid("kParseFirstLine", SubSeq(FirstLine, 1, 0), -1, <<>>, <<>>)
  BY DEF RequestAt, ResponseAt
<1>3. NewParser = Mid("kParseFirstLine", <<>>, -1, <<>>, <<>>)
  BY DEF NewParser, Mid
<1> QED BY <1>1, <1>2, <1>3

-----------------------------------------------------------------------------
(* The client *)

\* A step of connection r.
Alone(r) ==
  /\ OnConns'
  /\ \A q \in Conns \ {r} :
       /\ server'[q] = server[q] /\ client'[q] = client[q] /\ up'[q] = up[q]
       /\ down_'[q] = down_[q] /\ served'[q] = served[q] /\ harm'[q] = harm[q]

\* A step of one connection leaves the others as they are.
LEMMA OneConnection ==
  ASSUME ExchangeInv, NEW r \in Conns, Alone(r), Exchange(r)'
  PROVE  ExchangeInv'
<1>1. ASSUME NEW q \in Conns, q # r
      PROVE  Exchange(q)'
  <2>1. Exchange(q)
    BY DEF ExchangeInv
  <2>2. /\ server'[q] = server[q] /\ client'[q] = client[q] /\ up'[q] = up[q]
        /\ down_'[q] = down_[q] /\ served'[q] = served[q] /\ harm'[q] = harm[q]
    BY <1>1 DEF Alone
  <2>3. Code(q)' = Code(q)
    BY <2>2 DEF Code
  <2> QED BY <2>1, <2>2, <2>3 DEF Exchange, RequestInv, ResponseInv
<1> QED BY <1>1 DEF ExchangeInv, Alone

\* Nothing has been said yet.
LEMMA InitExchange == Init => ExchangeInv
<1> SUFFICES ASSUME Init PROVE ExchangeInv
  OBVIOUS
<1>1. OnConns
  BY DEF Init, OnConns
<1>2. ASSUME NEW r \in Conns
      PROVE  Exchange(r)
  <2>1. /\ client[r] = [pc |-> "none", read |-> 0, parser |-> NewParser,
                        result |-> "none", inside |-> FALSE]
        /\ server[r] = [pc |-> "reading", read |-> 0, parser |-> NewParser,
                        received |-> -1, out |-> <<>>, inside |-> FALSE]
        /\ up[r] = <<>> /\ down_[r] = <<>> /\ served[r] = -1 /\ harm[r] = {}
    BY DEF Init
  <2>2. NewParser = RequestAt(r, 0) /\ NewParser = ResponseAt(0)
    BY FreshParser
  <2>3. RequestInv(r)
    BY <2>1, <2>2 DEF RequestInv
  <2>4. ResponseInv(r)
    BY <2>1, <2>2 DEF ResponseInv
  <2> QED BY <2>1, <2>3, <2>4 DEF Exchange, ServerFields, ClientFields
<1> QED BY <1>1, <1>2 DEF ExchangeInv

(***************************************************************************)
(* Steps of a client that is not done: it connects, writes, or gives up.   *)
(***************************************************************************)
LEMMA ClientMoves ==
  ASSUME ExchangeInv, NEW r \in Conns, Alone(r), client[r].pc # "deleted",
         DOMAIN client'[r] = DOMAIN client[r],
         client'[r].read = client[r].read, client'[r].parser = client[r].parser,
         client'[r].result # "ok",
         up'[r] \in {up[r], RequestText(r)}, harm[r] \subseteq harm'[r],
         server'[r] = server[r], down_'[r] = down_[r], served'[r] = served[r]
  PROVE  ExchangeInv'
<1>1. Exchange(r)
  BY DEF ExchangeInv
<1>2. Code(r)' = Code(r)
  BY DEF Code
<1>3. RequestInv(r)'
  <2>1. up'[r] \in {<<>>, RequestText(r)}
    BY <1>1 DEF Exchange, RequestInv
  <2>2. server[r].read \in 0 .. Len(up'[r])
    <3>1. Len(<<>>) = 0 /\ Len(RequestText(r)) \in Nat
      BY RequestIs
    <3> QED BY <1>1, <2>1, <3>1 DEF Exchange, RequestInv
  <2> QED BY <1>1, <2>1, <2>2 DEF Exchange, RequestInv
<1>4. ResponseInv(r)'
  BY <1>1, <1>2 DEF Exchange, ResponseInv
<1>5. Exchange(r)'
  BY <1>1, <1>3, <1>4 DEF Exchange
<1> QED BY <1>5, OneConnection

\* The fields of the client after the updates that its steps make.
LEMMA ClientPc ==
  ASSUME ExchangeInv, NEW r \in Conns, NEW v, client' = [client EXCEPT ![r].pc = v]
  PROVE  /\ DOMAIN client' = Conns /\ \A q \in Conns \ {r} : client'[q] = client[q]
         /\ DOMAIN client'[r] = DOMAIN client[r]
         /\ client'[r].pc = v /\ client'[r].read = client[r].read
         /\ client'[r].parser = client[r].parser /\ client'[r].result = client[r].result
<1>1. DOMAIN client = Conns /\ DOMAIN client[r] = ClientFields
  BY DEF ExchangeInv, OnConns, Exchange
<1> QED BY <1>1 DEF ClientFields

LEMMA ClientDone ==
  ASSUME ExchangeInv, NEW r \in Conns, NEW v, ClientFinish(r, v)
  PROVE  /\ DOMAIN client' = Conns /\ \A q \in Conns \ {r} : client'[q] = client[q]
         /\ DOMAIN client'[r] = DOMAIN client[r]
         /\ client'[r].pc = "deleted" /\ client'[r].read = client[r].read
         /\ client'[r].parser = client[r].parser /\ client'[r].result = v
<1>1. DOMAIN client = Conns /\ DOMAIN client[r] = ClientFields
  BY DEF ExchangeInv, OnConns, Exchange
<1> QED BY <1>1 DEF ClientFinish, ClientFields

\* A Read that waits, or calls back, changes nothing but where its side is.
LEMMA InsideIs ==
  ASSUME NEW x, {"pc", "inside"} \subseteq DOMAIN x
  PROVE  /\ DOMAIN Inside(x) = DOMAIN x /\ Inside(x).pc = "reading"
         /\ \A f \in DOMAIN x \ {"pc", "inside"} : Inside(x)[f] = x[f]
BY DEF Inside

LEMMA WaitsIs ==
  ASSUME NEW x, "pc" \in DOMAIN x
  PROVE  /\ DOMAIN Waits(x) = DOMAIN x /\ Waits(x).pc \in {"pending", "again"}
         /\ \A f \in DOMAIN x \ {"pc"} : Waits(x)[f] = x[f]
BY DEF Waits

\* What went wrong is not forgotten.
LEMMA HarmGrows ==
  ASSUME ExchangeInv, NEW r \in Conns, NEW what, Harm(r, what) \/ UNCHANGED harm
  PROVE  /\ DOMAIN harm' = Conns /\ \A q \in Conns \ {r} : harm'[q] = harm[q]
         /\ harm[r] \subseteq harm'[r]
         /\ Harm(r, what) => what \in harm'[r]
BY DEF ExchangeInv, OnConns, Harm

\* The steps of the client in which it reads nothing.
LEMMA ClientExchange ==
  ASSUME ExchangeInv, NEW r \in Conns,
         \/ IssueRequest(r) \/ DoConnect(r) \/ ConnectReturns(r) \/ OnConnectCompleted(r)
         \/ ClientWrite(r) \/ ClientWaits(r) \/ ClientDies(r)
  PROVE  ExchangeInv'
<1>1. client[r].pc # "deleted" /\ UNCHANGED <<server, down_, served>>
  BY DEF IssueRequest, DoConnect, ConnectReturns, OnConnectCompleted, ClientWrite,
         ClientWaits, ClientDies, Deadly
<1>2. client[r].result # "ok"
  BY <1>1 DEF ExchangeInv, Exchange, ResponseInv
<1>3. /\ DOMAIN client' = Conns /\ \A q \in Conns \ {r} : client'[q] = client[q]
      /\ DOMAIN client'[r] = DOMAIN client[r]
      /\ client'[r].read = client[r].read /\ client'[r].parser = client[r].parser
      /\ client'[r].result # "ok"
  <2>1. CASE ClientFinish(r, "error")
    BY <2>1, ClientDone
  <2>2. CASE \E v : client' = [client EXCEPT ![r].pc = v]
    BY <1>2, <2>2, ClientPc
  <2>3. CASE client' = [client EXCEPT ![r] = Waits(@)]
    <3>1. DOMAIN client = Conns /\ DOMAIN client[r] = ClientFields
      BY DEF ExchangeInv, OnConns, Exchange
    <3>2. /\ DOMAIN Waits(client[r]) = DOMAIN client[r]
          /\ \A f \in DOMAIN client[r] \ {"pc"} : Waits(client[r])[f] = client[r][f]
      BY <3>1, WaitsIs DEF ClientFields
    <3>3. /\ DOMAIN client' = Conns /\ \A q \in Conns \ {r} : client'[q] = client[q]
          /\ client'[r] = Waits(client[r])
      BY <2>3, <3>1
    <3> QED BY <1>2, <3>1, <3>2, <3>3 DEF ClientFields
  <2> QED BY <2>1, <2>2, <2>3
          DEF IssueRequest, DoConnect, ConnectReturns, OnConnectCompleted, ClientWrite,
              ClientWaits, ClientDies
<1>4. /\ DOMAIN harm' = Conns /\ \A q \in Conns \ {r} : harm'[q] = harm[q]
      /\ harm[r] \subseteq harm'[r]
  <2>1. UNCHANGED harm \/ \E what : Harm(r, what)
    BY DEF IssueRequest, DoConnect, ConnectReturns, OnConnectCompleted, ClientWrite,
           ClientWaits, Again, ClientDies
  <2> QED BY <2>1, HarmGrows
<1>5. /\ DOMAIN up' = Conns /\ \A q \in Conns \ {r} : up'[q] = up[q]
      /\ up'[r] \in {up[r], RequestText(r)}
  <2>1. up' = up \/ up' = [up EXCEPT ![r] = RequestText(r)]
    BY DEF IssueRequest, DoConnect, ConnectReturns, OnConnectCompleted, ClientWrite,
           ClientWaits, ClientDies
  <2> QED BY <2>1 DEF ExchangeInv, OnConns
<1>6. Alone(r)
  BY <1>1, <1>3, <1>4, <1>5 DEF Alone, OnConns, ExchangeInv
<1> QED BY <1>1, <1>3, <1>4, <1>5, <1>6, ClientMoves

\* What a Read may return.
LEMMA ReadsAre ==
  ASSUME NEW stream \in Seq(Bytes), NEW n \in Nat, NEW data \in Reads(stream, n)
  PROVE  \E m \in Nat : /\ n < m /\ m <= Len(stream)
                        /\ data = SubSeq(stream, n + 1, m) /\ Len(data) = m - n
<1>1. PICK m \in Cuts \cup {Len(stream)} :
        n < m /\ m <= Len(stream) /\ data = SubSeq(stream, n + 1, m)
  BY DEF Reads
<1>2. m \in Nat
  BY HTTPAssumption
<1> QED BY <1>1, <1>2

\* The client reads, fails, or takes the end of the connection for success.
LEMMA ClientReadExchange ==
  ASSUME ExchangeInv, NEW r \in Conns, ClientRead(r)
  PROVE  ExchangeInv'
<1>1. /\ client[r].pc \in Reading /\ Exchange(r)
      /\ UNCHANGED <<server, up, down_, served, harm>>
  BY DEF ClientRead, MayRead, Reading, ExchangeInv
<1>2. client[r].result # "ok" /\ Code(r)' = Code(r)
  BY <1>1 DEF Exchange, ResponseInv, Reading, Code
<1>6. client[r].pc # "deleted"
  BY <1>1 DEF Reading
<1>3. CASE ClientFinish(r, "error")
  <2>1. /\ DOMAIN client' = Conns /\ \A q \in Conns \ {r} : client'[q] = client[q]
        /\ DOMAIN client'[r] = DOMAIN client[r]
        /\ client'[r].read = client[r].read /\ client'[r].parser = client[r].parser
        /\ client'[r].result # "ok"
    BY <1>3, ClientDone
  <2>2. Alone(r)
    BY <1>1, <2>1 DEF Alone, OnConns, ExchangeInv
  <2> QED BY <1>1, <1>6, <2>1, <2>2, ClientMoves
<1>4. CASE /\ client[r].read = Len(down_[r])
           /\ RecievedAllHeaders(client[r].parser) /\ ClientFinish(r, "ok")
  <2>1. /\ DOMAIN client' = Conns /\ \A q \in Conns \ {r} : client'[q] = client[q]
        /\ DOMAIN client'[r] = DOMAIN client[r] /\ client'[r].pc = "deleted"
        /\ client'[r].read = client[r].read /\ client'[r].parser = client[r].parser
    BY <1>4, ClientDone
  <2>2. Alone(r)
    BY <1>1, <2>1 DEF Alone, OnConns, ExchangeInv
  <2>3. RequestInv(r)'
    BY <1>1 DEF Exchange, RequestInv
  <2>6. ASSUME "full" \notin harm[r]
        PROVE  server[r].pc = "deleted"
    <3>1. /\ down_[r] = IF server[r].pc = "deleted" THEN server[r].out ELSE <<>>
          /\ client[r].parser = ResponseAt(client[r].read)
      BY <1>1, <1>6, <2>6 DEF Exchange, ResponseInv
    <3>2. ASSUME down_[r] = <<>> PROVE FALSE
      <4>1. client[r].read = 0
        BY <1>4, <3>2
      <4>2. ~RecievedAllHeaders(ResponseAt(0))
        BY ResponseAtIs
      <4> QED BY <1>4, <3>1, <4>1, <4>2
    <3> QED BY <3>1, <3>2
  <2>4. ResponseInv(r)'
    BY <1>1, <1>2, <1>4, <1>6, <2>1, <2>6 DEF Exchange, ResponseInv
  <2>5. Exchange(r)'
    BY <1>1, <2>1, <2>3, <2>4 DEF Exchange
  <2> QED BY <2>2, <2>5, OneConnection
<1>5. ASSUME NEW data \in Reads(down_[r], client[r].read),
             NEW p, p = Parse(client[r].parser, data),
             client' = [client EXCEPT ![r] = Takes(Inside(@), p, Len(data))]
      PROVE  ExchangeInv'
  <2>1. /\ DOMAIN client' = Conns /\ \A q \in Conns \ {r} : client'[q] = client[q]
        /\ DOMAIN client'[r] = DOMAIN client[r]
        /\ client'[r].parser = p /\ client'[r].read = client[r].read + Len(data)
        /\ client'[r].pc = IF p.ok THEN "reading" ELSE "deleted"
        /\ client'[r].result # "ok"
    <3>1. DOMAIN client = Conns /\ DOMAIN client[r] = ClientFields
      BY DEF ExchangeInv, OnConns, Exchange
    <3>2. PICK x : x = Takes(Inside(client[r]), p, Len(data))
      OBVIOUS
    <3>3. /\ DOMAIN Inside(client[r]) = DOMAIN client[r] /\ Inside(client[r]).pc = "reading"
          /\ \A f \in DOMAIN client[r] \ {"pc", "inside"} : Inside(client[r])[f] = client[r][f]
      BY <3>1, InsideIs DEF ClientFields
    <3>4. /\ DOMAIN x = ClientFields /\ x.parser = p /\ x.read = client[r].read + Len(data)
          /\ x.pc = IF p.ok THEN "reading" ELSE "deleted"
          /\ x.result = IF p.ok THEN client[r].result ELSE "error"
      BY <3>1, <3>2, <3>3 DEF Takes, ClientFields
    <3> QED BY <1>2, <1>5, <3>1, <3>2, <3>4
  <2>2. Alone(r)
    BY <1>1, <2>1 DEF Alone, OnConns, ExchangeInv
  <2>3. RequestInv(r)'
    BY <1>1 DEF Exchange, RequestInv
  <2>4. ASSUME "full" \notin harm[r]
        PROVE  /\ client'[r].read \in 0 .. Len(down_[r])
               /\ p.ok => p = ResponseAt(client'[r].read)
    <3>1. /\ down_[r] \in {<<>>, ResponseText(Code(r))}
          /\ client[r].read \in 0 .. Len(down_[r])
          /\ client[r].parser = ResponseAt(client[r].read)
      BY <1>1, <1>6, <2>4 DEF Exchange, ResponseInv
    <3>2. down_[r] \in Seq(Bytes) /\ client[r].read \in Nat
      <4>1. <<>> \in Seq(Bytes) /\ ResponseText(Code(r)) \in Seq(Bytes)
        BY ResponseIs
      <4>2. down_[r] \in Seq(Bytes)
        BY <3>1, <4>1, Zenon
      <4> QED BY <3>1, <4>2
    <3>3. PICK m \in Nat : /\ client[r].read < m /\ m <= Len(down_[r])
                           /\ data = SubSeq(down_[r], client[r].read + 1, m)
                           /\ Len(data) = m - client[r].read
      BY <1>5, <3>2, ReadsAre
    <3>4. down_[r] = ResponseText(Code(r))
      <4>1. Len(down_[r]) # 0
        BY <3>2, <3>3
      <4> QED BY <3>1, <4>1
    <3>5. p = ResponseAt(m) \/ ~p.ok
      BY <1>5, <3>1, <3>2, <3>3, <3>4, ResponseParsed
    <3>6. client'[r].read = m
      BY <2>1, <3>2, <3>3
    <3> QED BY <3>2, <3>3, <3>5, <3>6
  <2>5. ResponseInv(r)'
    BY <1>1, <1>2, <2>1, <2>4 DEF Exchange, ResponseInv
  <2>6. Exchange(r)'
    BY <1>1, <2>1, <2>3, <2>5 DEF Exchange
  <2> QED BY <2>2, <2>6, OneConnection
<1> QED BY <1>3, <1>4, <1>5 DEF ClientRead

-----------------------------------------------------------------------------
(* The server *)

\* The fields of the server after the updates that its steps make.
LEMMA ServerPc ==
  ASSUME ExchangeInv, NEW r \in Conns, NEW v,
         \/ server' = [server EXCEPT ![r].pc = v]
         \/ server' = [server EXCEPT ![r].pc = v, ![r].inside = TRUE]
         \/ \E s \in {ServerFinish(server[r]), [ServerFinish(server[r]) EXCEPT !.inside = TRUE]} :
              server' = [server EXCEPT ![r] = s] /\ v = "deleted"
         \/ server' = [server EXCEPT ![r] = Waits(@)] /\ v = Waits(server[r]).pc
  PROVE  /\ DOMAIN server' = Conns /\ \A q \in Conns \ {r} : server'[q] = server[q]
         /\ DOMAIN server'[r] = DOMAIN server[r]
         /\ server'[r].pc = v /\ server'[r].read = server[r].read
         /\ server'[r].parser = server[r].parser /\ server'[r].received = server[r].received
         /\ server'[r].out = server[r].out
<1>1. /\ DOMAIN server = Conns
      /\ DOMAIN server[r] = ServerFields
  BY DEF ExchangeInv, OnConns, Exchange
<1>2. CASE server' = [server EXCEPT ![r].pc = v]
  BY <1>1, <1>2 DEF ServerFields
<1>3. CASE server' = [server EXCEPT ![r].pc = v, ![r].inside = TRUE]
  BY <1>1, <1>3 DEF ServerFields
<1>4. ASSUME NEW s, server' = [server EXCEPT ![r] = s], v = "deleted",
             s \in {ServerFinish(server[r]), [ServerFinish(server[r]) EXCEPT !.inside = TRUE]}
      PROVE  /\ DOMAIN server' = Conns /\ \A q \in Conns \ {r} : server'[q] = server[q]
             /\ server'[r] = s /\ DOMAIN s = ServerFields /\ s.pc = v
             /\ s.read = server[r].read /\ s.parser = server[r].parser
             /\ s.received = server[r].received /\ s.out = server[r].out
  BY <1>1, <1>4 DEF ServerFinish, ServerFields
<1>5. CASE server' = [server EXCEPT ![r] = Waits(@)] /\ v = Waits(server[r]).pc
  <2>1. /\ DOMAIN Waits(server[r]) = ServerFields
        /\ \A f \in ServerFields \ {"pc"} : Waits(server[r])[f] = server[r][f]
    BY <1>1, WaitsIs DEF ServerFields
  <2>2. /\ DOMAIN server' = Conns /\ \A q \in Conns \ {r} : server'[q] = server[q]
        /\ server'[r] = Waits(server[r])
    BY <1>1, <1>5
  <2> QED BY <1>1, <1>5, <2>1, <2>2 DEF ServerFields
<1> QED BY <1>1, <1>2, <1>3, <1>4, <1>5

LEMMA ServerAnswers ==
  ASSUME ExchangeInv, NEW r \in Conns, NEW code,
         server' = [server EXCEPT ![r] = SendResponse(Inside(@), code)]
  PROVE  /\ DOMAIN server' = Conns /\ \A q \in Conns \ {r} : server'[q] = server[q]
         /\ DOMAIN server'[r] = DOMAIN server[r]
         /\ server'[r].pc = "writing" /\ server'[r].read = server[r].read
         /\ server'[r].out = ResponseText(code)
<1>1. /\ DOMAIN server = Conns
      /\ DOMAIN server[r] = ServerFields
  BY DEF ExchangeInv, OnConns, Exchange
<1>2. /\ DOMAIN Inside(server[r]) = ServerFields
      /\ \A f \in ServerFields \ {"pc", "inside"} : Inside(server[r])[f] = server[r][f]
  BY <1>1, InsideIs DEF ServerFields
<1>3. PICK x : x = Inside(server[r])
  OBVIOUS
<1>4. x.read = server[r].read /\ DOMAIN x = ServerFields
  BY <1>2, <1>3 DEF ServerFields
<1>5. server' = [server EXCEPT ![r] = SendResponse(x, code)]
  BY <1>3
<1> QED BY <1>1, <1>4, <1>5 DEF SendResponse, ServerFields

\* The two responses differ, and neither is empty.
LEMMA ResponsesDiffer ==
  /\ ResponseText("ok") # ResponseText("bad")
  /\ \A code : ResponseText(code) # <<>>
<1>1. Len(ResponseText("ok")) = 6 /\ Len(ResponseText("bad")) = 5
  BY ResponseIs
<1>2. ASSUME NEW code
      PROVE  ResponseText(code) # <<>>
  <2>1. Len(ResponseText(code)) # 0
    BY ResponseIs
  <2>2. Len(<<>>) = 0
    OBVIOUS
  <2> QED BY <2>1, <2>2, Zenon
<1>3. 6 # 5
  OBVIOUS
<1> QED BY <1>1, <1>2, <1>3, Zenon

(***************************************************************************)
(* What HandleReadResult(s, p, n) = u does, where c is the count of the    *)
(* body: u goes on with what it was doing, or has a response to send.      *)
(***************************************************************************)
Handled(s, p, n, c, u) ==
  /\ DOMAIN u = DOMAIN s /\ u.parser = p /\ u.read = s.read + n /\ u.received = c
  /\ ~p.ok => u.pc = "deleted" /\ u.out = s.out
  /\ p.ok /\ ~RecievedAllHeaders(p) => u.pc = s.pc /\ u.out = s.out
  /\ p.ok /\ RecievedAllHeaders(p) =>
       IF p.content_length_ = -1 \/ c > p.content_length_
       THEN u.pc = "writing" /\ u.out = ResponseText("bad")
       ELSE IF c = p.content_length_
       THEN u.pc = "writing" /\ u.out = ResponseText("ok")
       ELSE u.pc = s.pc /\ u.out = s.out

\* HandleReadResult does that.
LEMMA HandleIs ==
  ASSUME NEW s, NEW p, NEW n, NEW c, NEW u,
         DOMAIN s = ServerFields,
         c = IF s.received = -1 /\ RecievedAllHeaders(p) THEN Len(p.body) ELSE s.received,
         u = HandleReadResult(s, p, n)
  PROVE  Handled(s, p, n, c, u)
<1> DEFINE t == [s EXCEPT !.parser = p, !.read = @ + n,
                          !.received = IF @ = -1 /\ RecievedAllHeaders(p) THEN Len(p.body)
                                       ELSE @]
<1>1. /\ DOMAIN t = ServerFields
      /\ t.parser = p /\ t.read = s.read + n /\ t.received = c
      /\ t.pc = s.pc /\ t.out = s.out
  BY DEF ServerFields
<1>2. u = IF ~p.ok                       THEN ServerFinish(t)
          ELSE IF ~RecievedAllHeaders(p) THEN t
          ELSE IF TooMuch(t, p)          THEN SendResponse(t, "bad")
          ELSE IF Complete(t, p)         THEN SendResponse(t, "ok")
          ELSE t
  BY Zenon DEF HandleReadResult
<1>3. /\ TooMuch(t, p) <=> p.content_length_ = -1 \/ c > p.content_length_
      /\ Complete(t, p) <=> c = p.content_length_
  BY <1>1 DEF TooMuch, Complete
<1> HIDE DEF t
<1>4. CASE ~p.ok
  BY <1>1, <1>2, <1>4 DEF ServerFinish, Handled, ServerFields
<1>5. CASE /\ p.ok /\ u = t
           /\ RecievedAllHeaders(p) => /\ ~(p.content_length_ = -1 \/ c > p.content_length_)
                                       /\ c # p.content_length_
  BY <1>1, <1>5 DEF Handled
<1>6. CASE p.ok /\ RecievedAllHeaders(p) /\ u = SendResponse(t, "bad")
           /\ (p.content_length_ = -1 \/ c > p.content_length_)
  BY <1>1, <1>6 DEF SendResponse, Handled, ServerFields
<1>7. CASE p.ok /\ RecievedAllHeaders(p) /\ u = SendResponse(t, "ok")
           /\ ~(p.content_length_ = -1 \/ c > p.content_length_)
           /\ c = p.content_length_
  BY <1>1, <1>7 DEF SendResponse, Handled, ServerFields
<1> QED BY <1>2, <1>3, <1>4, <1>5, <1>6, <1>7

(***************************************************************************)
(* Steps of the server that leave the request as it was: it only has to    *)
(* have read no more, and to be done with reading.                         *)
(***************************************************************************)
LEMMA ServerMoves ==
  ASSUME ExchangeInv, NEW r \in Conns, Alone(r),
         DOMAIN server'[r] = DOMAIN server[r],
         server[r].pc # "deleted",
         server'[r].read = server[r].read, server'[r].pc \notin Reading,
         client'[r] = client[r], up'[r] = up[r], served'[r] = served[r],
         harm[r] \subseteq harm'[r],
         server'[r].out \in {server[r].out, ResponseText(Code(r))},
         server'[r].pc = "full" => "full" \in harm'[r],
         "full" \notin harm'[r] =>
           down_'[r] = IF server'[r].pc = "deleted" THEN server'[r].out ELSE <<>>
  PROVE  ExchangeInv'
<1>1. Exchange(r)
  BY DEF ExchangeInv
<1>2. Code(r)' = Code(r)
  BY DEF Code
<1>3. RequestInv(r)'
  BY <1>1 DEF Exchange, RequestInv
<1>4. ResponseInv(r)'
  <2>1. server'[r].out \in {<<>>, ResponseText(Code(r))}
    BY <1>1, Zenon DEF Exchange, ResponseInv
  <2>2. ASSUME "full" \notin harm'[r]
        PROVE  /\ down_'[r] = IF server'[r].pc = "deleted" THEN server'[r].out ELSE <<>>
               /\ client'[r].read \in 0 .. Len(down_'[r]) /\ client'[r].result # "ok"
               /\ client[r].pc # "deleted" => client[r].parser = ResponseAt(client[r].read)
    <3>1. /\ down_'[r] = IF server'[r].pc = "deleted" THEN server'[r].out ELSE <<>>
      BY <2>2
    <3>2. "full" \notin harm[r]
      BY <2>2
    <3>3. /\ client[r].read \in 0 .. Len(down_[r])
          /\ down_[r] = IF server[r].pc = "deleted" THEN server[r].out ELSE <<>>
          /\ client[r].pc # "deleted" => client[r].parser = ResponseAt(client[r].read)
          /\ client[r].result # "ok"
      BY <1>1, <3>2 DEF Exchange, ResponseInv
    <3>4. down_[r] = <<>> /\ down_'[r] \in {<<>>, ResponseText(Code(r))}
      BY <2>1, <2>2, <3>3
    <3>5. Len(<<>>) = 0 /\ Len(ResponseText(Code(r))) \in Nat
      BY ResponseIs
    <3>6. Len(down_[r]) = 0 /\ Len(down_'[r]) \in Nat
      BY <3>4, <3>5
    <3> QED BY <3>1, <3>3, <3>6
  <2> QED BY <1>1, <1>2, <2>1, <2>2 DEF Exchange, ResponseInv
<1>5. Exchange(r)'
  BY <1>1, <1>3, <1>4 DEF Exchange
<1> QED BY <1>5, OneConnection

\* The steps of the server that only write.
LEMMA WriteExchange ==
  ASSUME ExchangeInv, NEW r \in Conns, ServerWrite(r) \/ OnWriteCompleted(r)
  PROVE  ExchangeInv'
<1>1. /\ server[r].pc \in {"writing", "full"} /\ Exchange(r)
      /\ UNCHANGED <<client, up, served>>
  BY DEF ServerWrite, OnWriteCompleted, ExchangeInv
<1>2. /\ DOMAIN harm' = Conns /\ \A q \in Conns \ {r} : harm'[q] = harm[q]
      /\ harm[r] \subseteq harm'[r]
      /\ Harm(r, "full") => "full" \in harm'[r]
  <2>1. UNCHANGED harm \/ \E what : Harm(r, what)
    BY DEF ServerWrite, OnWriteCompleted, Returns, ProcessDies
  <2>2. CASE Harm(r, "full")
    BY <2>2, HarmGrows
  <2> QED BY <2>1, <2>2, HarmGrows
<1>3. DOMAIN down_' = Conns /\ \A q \in Conns \ {r} : down_'[q] = down_[q]
  BY DEF ServerWrite, OnWriteCompleted, ExchangeInv, OnConns
<1>4. /\ "full" \notin harm[r] => server[r].pc = "writing" /\ down_[r] = <<>>
      /\ server[r].out \in {<<>>, ResponseText(Code(r))}
  BY <1>1 DEF Exchange, ResponseInv
<1>5. PICK v \in {"crashed", "deleted", "full", "writing"} :
        /\ \/ server' = [server EXCEPT ![r].pc = v]
           \/ server' = [server EXCEPT ![r].pc = v, ![r].inside = TRUE]
           \/ \E s \in {ServerFinish(server[r]),
                         [ServerFinish(server[r]) EXCEPT !.inside = TRUE]} :
                server' = [server EXCEPT ![r] = s] /\ v = "deleted"
        /\ v = "full" => Harm(r, "full")
        /\ v = "deleted" /\ server[r].pc = "writing" =>
             down_' = [down_ EXCEPT ![r] = @ \o Written(server[r])]
        /\ v # "deleted" /\ server[r].pc = "writing" => down_' = down_
  BY <1>1 DEF ServerWrite, OnWriteCompleted
<1>6. /\ DOMAIN server' = Conns /\ \A q \in Conns \ {r} : server'[q] = server[q]
      /\ DOMAIN server'[r] = DOMAIN server[r]
      /\ server'[r].pc = v /\ server'[r].read = server[r].read
      /\ server'[r].out = server[r].out
  BY <1>5, ServerPc
<1>7. Alone(r)
  BY <1>1, <1>2, <1>3, <1>6 DEF Alone, OnConns, ExchangeInv
<1>8. ASSUME "full" \notin harm'[r]
      PROVE  down_'[r] = IF v = "deleted" THEN server[r].out ELSE <<>>
  <2>1. server[r].pc = "writing" /\ down_[r] = <<>>
    BY <1>2, <1>4, <1>8
  <2>2. CASE v = "deleted"
    <3>1. server[r].out \in Seq(Bytes)
      <4>1. <<>> \in Seq(Bytes) /\ ResponseText(Code(r)) \in Seq(Bytes)
        BY ResponseIs
      <4> QED BY <1>4, <4>1, Zenon
    <3>2. down_'[r] = <<>> \o server[r].out
      BY <1>5, <2>1, <2>2 DEF Written, ExchangeInv, OnConns
    <3>3. <<>> \o server[r].out = server[r].out
      BY <3>1
    <3> QED BY <2>2, <3>2, <3>3
  <2>3. CASE v # "deleted"
    BY <1>5, <2>1, <2>3
  <2> QED BY <2>2, <2>3
<1>9. v = "full" => "full" \in harm'[r]
  BY <1>2, <1>5
<1>10. v \notin Reading /\ server[r].pc # "deleted"
  BY <1>1 DEF Reading
<1> QED BY <1>1, <1>2, <1>4, <1>6, <1>7, <1>8, <1>9, <1>10, ServerMoves

\* A read of the server waits, or the wait ends with the process.
LEMMA WaitExchange ==
  ASSUME ExchangeInv, NEW r \in Conns, ServerWaits(r) \/ ServerDies(r)
  PROVE  ExchangeInv'
<1>1. /\ server[r].pc \in Reading /\ Exchange(r)
      /\ UNCHANGED <<client, up, down_, served>>
  BY DEF ServerWaits, ServerDies, Deadly, Reading, ExchangeInv
<1>2. UNCHANGED harm \/ \E what : Harm(r, what)
  BY DEF ServerWaits, Again, ServerDies, ProcessDies
<1>3. /\ DOMAIN harm' = Conns /\ \A q \in Conns \ {r} : harm'[q] = harm[q]
      /\ harm[r] \subseteq harm'[r]
  BY <1>2, HarmGrows
<1>4. PICK v : /\ \/ server' = [server EXCEPT ![r].pc = v] /\ v = "crashed"
                  \/ /\ server' = [server EXCEPT ![r] = Waits(@)]
                     /\ v = Waits(server[r]).pc
  BY DEF ServerWaits, ServerDies
<1>5. v \in {"crashed", "pending", "again"}
  BY <1>1, <1>4, WaitsIs DEF Exchange, ServerFields
<1>6. /\ DOMAIN server' = Conns /\ \A q \in Conns \ {r} : server'[q] = server[q]
      /\ DOMAIN server'[r] = DOMAIN server[r]
      /\ server'[r].pc = v /\ server'[r].read = server[r].read
      /\ server'[r].parser = server[r].parser /\ server'[r].received = server[r].received
      /\ server'[r].out = server[r].out
  BY <1>4, ServerPc
<1>7. Alone(r)
  BY <1>1, <1>3, <1>6 DEF Alone, OnConns, ExchangeInv
<1>8. Code(r)' = Code(r)
  BY <1>1 DEF Code
<1>9. RequestInv(r)'
  BY <1>1, <1>6 DEF Exchange, RequestInv
<1>10. ResponseInv(r)'
  BY <1>1, <1>3, <1>5, <1>6, <1>8 DEF Exchange, ResponseInv, Reading
<1>11. Exchange(r)'
  BY <1>1, <1>6, <1>9, <1>10 DEF Exchange
<1> QED BY <1>7, <1>11, OneConnection

\* What a read does: the bytes up to m took the parser to p and the object to s.
TakesTo(r, m, p, s) ==
  /\ server[r].pc \in Reading /\ server[r].read < m /\ m <= Len(up[r])
  /\ p = RequestAt(r, m) \/ ~p.ok
  /\ s = HandleReadResult(Inside(server[r]), p, m - server[r].read)
  /\ server'[r] = s /\ up'[r] = up[r]
  /\ served'[r] = IF s.out = ResponseText("ok") THEN Len(p.body) ELSE served[r]

(***************************************************************************)
(* A read leaves the request parsed as far as it goes.  received is set    *)
(* once, to what has come of the body by then, so a response "ok" means    *)
(* that all of it has.                                                     *)
(***************************************************************************)
LEMMA ReadRequest ==
  ASSUME ExchangeInv, NEW r \in Conns, NEW m \in Nat, NEW p, NEW s, TakesTo(r, m, p, s)
  PROVE  /\ RequestInv(r)'
         /\ DOMAIN s = DOMAIN server[r] /\ s.pc # "full"
         /\ s.out \in {<<>>, ResponseText(Code(r)')}
         /\ s.pc = "deleted" => s.out = <<>>
<1>1. /\ server[r].pc \in Reading /\ server[r].read < m /\ m <= Len(up[r])
      /\ p = RequestAt(r, m) \/ ~p.ok
      /\ s = HandleReadResult(Inside(server[r]), p, m - server[r].read)
      /\ server'[r] = s /\ up'[r] = up[r]
      /\ served'[r] = IF s.out = ResponseText("ok") THEN Len(p.body) ELSE served[r]
  BY DEF TakesTo
<1>2. /\ DOMAIN server[r] = ServerFields
      /\ up[r] \in {<<>>, RequestText(r)}
      /\ server[r].read \in 0 .. Len(up[r])
      /\ server[r].parser = RequestAt(r, server[r].read)
      /\ served[r] = -1 /\ server[r].out = <<>>
      /\ IF server[r].read >= 11 THEN server[r].received \in 0 .. (Claim[r] - 1)
         ELSE server[r].received = -1
  BY <1>1 DEF ExchangeInv, Exchange, RequestInv
<1>3. Claim[r] \in 0..1
  BY HTTPAssumption
<1>4. PICK c : c = IF server[r].received = -1 /\ RecievedAllHeaders(p) THEN Len(p.body)
                   ELSE server[r].received
  OBVIOUS
<1>10. PICK x : x = Inside(server[r])
  OBVIOUS
<1>11. /\ DOMAIN x = ServerFields /\ x.pc = "reading" /\ x.read = server[r].read
       /\ x.received = server[r].received /\ x.out = server[r].out
  BY <1>2, <1>10, InsideIs DEF ServerFields
<1>5. Handled(x, p, m - server[r].read, c, s)
  BY <1>1, <1>4, <1>10, <1>11, HandleIs
<1>6. s.read = m /\ DOMAIN s = DOMAIN server[r]
  <2>1. /\ DOMAIN s = DOMAIN server[r]
        /\ s.read = server[r].read + (m - server[r].read)
    BY <1>1, <1>2, <1>4, <1>5, <1>11 DEF Handled
  <2>2. Len(up[r]) \in Nat
    <3>1. Len(<<>>) \in Nat /\ Len(RequestText(r)) \in Nat
      BY RequestIs, HTTPAssumption
    <3> QED BY <1>1, <1>2, <3>1
  <2> QED BY <1>1, <1>2, <2>1, <2>2
<1>7. CASE ~p.ok
  <2>1. s.pc = "deleted" /\ s.out = <<>>
    BY <1>1, <1>2, <1>5, <1>7, <1>11 DEF Handled
  <2>2. served'[r] = -1
    BY <1>1, <1>2, <2>1, ResponsesDiffer
  <2>3. RequestInv(r)'
    BY <1>1, <1>2, <1>6, <2>1, <2>2 DEF RequestInv, Reading
  <2> QED BY <1>6, <2>1, <2>3
<1>8. CASE p.ok /\ ~RecievedAllHeaders(p)
  <2>1. s.pc = "reading" /\ s.out = <<>> /\ s.parser = p /\ s.received = server[r].received
    BY <1>1, <1>2, <1>4, <1>5, <1>8, <1>11 DEF Handled
  <2>2. p = RequestAt(r, m) /\ ~(m >= 11)
    BY <1>1, <1>8, RequestAtIs
  <2>3. served'[r] = -1
    BY <1>1, <1>2, <2>1, ResponsesDiffer
  <2>4. server[r].received = -1
    BY <1>1, <1>2, <2>2
  <2>5. RequestInv(r)'
    BY <1>1, <1>2, <1>6, <2>1, <2>2, <2>3, <2>4 DEF RequestInv, Reading
  <2> QED BY <1>6, <2>1, <2>5
<1>9. CASE p.ok /\ RecievedAllHeaders(p)
  <2>1. p = RequestAt(r, m) /\ m >= 11 /\ p.content_length_ = Claim[r] /\ p.body = Body(m - 11)
    BY <1>1, <1>9, RequestAtIs
  <2>2. Len(p.body) = m - 11 /\ m - 11 \in Nat
    BY <2>1, BodyIs
  <2>3. /\ c \in Nat /\ p.content_length_ # -1
        /\ c = Claim[r] => Len(p.body) = Claim[r]
    BY <1>1, <1>2, <1>3, <1>4, <1>9, <2>1, <2>2
  <2>4. CASE c > Claim[r]
    <3>1. s.pc = "writing" /\ s.out = ResponseText("bad")
      BY <1>1, <1>2, <1>4, <1>5, <1>9, <1>11, <2>1, <2>4 DEF Handled
    <3>2. served'[r] = -1
      BY <1>1, <1>2, <3>1, ResponsesDiffer
    <3>3. RequestInv(r)'
      BY <1>1, <1>2, <1>6, <3>1, <3>2 DEF RequestInv, Reading
    <3>4. Code(r)' = "bad"
      BY <3>2 DEF Code
    <3> QED BY <1>6, <3>1, <3>3, <3>4
  <2>5. CASE c = Claim[r]
    <3>1. s.pc = "writing" /\ s.out = ResponseText("ok")
      BY <1>1, <1>2, <1>3, <1>4, <1>5, <1>9, <1>11, <2>1, <2>3, <2>5 DEF Handled
    <3>2. served'[r] = Claim[r]
      BY <1>1, <2>3, <2>5, <3>1
    <3>3. RequestInv(r)'
      BY <1>1, <1>2, <1>6, <3>1, <3>2 DEF RequestInv, Reading
    <3>4. Code(r)' = "ok"
      BY <1>3, <3>2 DEF Code
    <3> QED BY <1>6, <3>1, <3>3, <3>4
  <2>6. CASE c < Claim[r]
    <3>1. s.pc = "reading" /\ s.out = <<>> /\ s.parser = p /\ s.received = c
      BY <1>1, <1>2, <1>3, <1>4, <1>5, <1>9, <1>11, <2>1, <2>3, <2>6 DEF Handled
    <3>2. served'[r] = -1
      BY <1>1, <1>2, <3>1, ResponsesDiffer
    <3>3. c \in 0 .. (Claim[r] - 1)
      BY <1>3, <2>3, <2>6
    <3>4. RequestInv(r)'
      BY <1>1, <1>2, <1>6, <2>1, <3>1, <3>2, <3>3 DEF RequestInv, Reading
    <3> QED BY <1>6, <3>1, <3>4
  <2> QED BY <1>3, <2>3, <2>4, <2>5, <2>6
<1> QED BY <1>7, <1>8, <1>9

\* The server reads, or gives up, or answers a client that is gone.
LEMMA ServerReadExchange ==
  ASSUME ExchangeInv, NEW r \in Conns, ServerRead(r)
  PROVE  ExchangeInv'
<1>1. /\ server[r].pc \in Reading /\ Exchange(r) /\ UNCHANGED <<client, up, down_>>
  BY DEF ServerRead, MayRead, Reading, ExchangeInv
<1>2. /\ served[r] = -1 /\ server[r].out = <<>> /\ Code(r) = "bad"
  BY <1>1 DEF Exchange, RequestInv, Code
<1>3. /\ server[r].pc # "deleted"
      /\ "full" \notin harm[r] => down_[r] = <<>> /\ client[r].result # "ok"
  BY <1>1 DEF Exchange, ResponseInv, Reading
<1>4. CASE /\ server' = [server EXCEPT ![r].pc = "leaked"] /\ UNCHANGED <<served, harm>>
  <2>1. /\ DOMAIN server' = Conns /\ \A q \in Conns \ {r} : server'[q] = server[q]
        /\ DOMAIN server'[r] = DOMAIN server[r]
        /\ server'[r].pc = "leaked" /\ server'[r].read = server[r].read
        /\ server'[r].out = server[r].out
    BY <1>4, ServerPc
  <2>2. Alone(r)
    BY <1>1, <1>4, <2>1 DEF Alone, OnConns, ExchangeInv
  <2> QED BY <1>1, <1>3, <1>4, <2>1, <2>2, ServerMoves DEF Reading
<1>5. CASE /\ server' = [server EXCEPT ![r] = SendResponse(Inside(@), "bad")]
           /\ UNCHANGED <<served, harm>>
  <2>1. /\ DOMAIN server' = Conns /\ \A q \in Conns \ {r} : server'[q] = server[q]
        /\ DOMAIN server'[r] = DOMAIN server[r]
        /\ server'[r].pc = "writing" /\ server'[r].read = server[r].read
        /\ server'[r].out = ResponseText("bad")
    BY <1>5, ServerAnswers
  <2>2. Alone(r)
    BY <1>1, <1>5, <2>1 DEF Alone, OnConns, ExchangeInv
  <2> QED BY <1>1, <1>2, <1>3, <1>5, <2>1, <2>2, ServerMoves DEF Reading
<1>6. ASSUME NEW data \in Reads(up[r], server[r].read), NEW p, NEW s,
             p = Parse(server[r].parser, data),
             s = HandleReadResult(Inside(server[r]), p, Len(data)),
             server' = [server EXCEPT ![r] = s],
             served' = [served EXCEPT ![r] =
               IF s.out = ResponseText("ok") THEN Len(p.body) ELSE @],
             UNCHANGED harm \/ \E what : Harm(r, what)
      PROVE  ExchangeInv'
  <2>1. /\ up[r] \in {<<>>, RequestText(r)} /\ server[r].read \in 0 .. Len(up[r])
        /\ server[r].parser = RequestAt(r, server[r].read)
    BY <1>1 DEF Exchange, RequestInv
  <2>2. up[r] \in Seq(Bytes) /\ server[r].read \in Nat
    <3>1. <<>> \in Seq(Bytes) /\ RequestText(r) \in Seq(Bytes)
      BY RequestIs
    <3>2. up[r] \in Seq(Bytes)
      BY <2>1, <3>1, Zenon
    <3> QED BY <2>1, <3>2
  <2>3. PICK m \in Nat : /\ server[r].read < m /\ m <= Len(up[r])
                         /\ data = SubSeq(up[r], server[r].read + 1, m)
                         /\ Len(data) = m - server[r].read
    BY <1>6, <2>2, ReadsAre
  <2>4. up[r] = RequestText(r)
    <3>1. Len(up[r]) # 0
      BY <2>2, <2>3
    <3> QED BY <2>1, <3>1
  <2>5. p = RequestAt(r, m) \/ ~p.ok
    BY <1>6, <2>1, <2>2, <2>3, <2>4, RequestParsed
  <2>6. /\ DOMAIN server' = Conns /\ DOMAIN served' = Conns
        /\ \A q \in Conns \ {r} : server'[q] = server[q] /\ served'[q] = served[q]
        /\ server'[r] = s
        /\ served'[r] = IF s.out = ResponseText("ok") THEN Len(p.body) ELSE served[r]
    BY <1>6 DEF ExchangeInv, OnConns
  <2>7. /\ DOMAIN harm' = Conns /\ \A q \in Conns \ {r} : harm'[q] = harm[q]
        /\ harm[r] \subseteq harm'[r]
    BY <1>6, HarmGrows
  <2>8. Alone(r)
    BY <1>1, <2>6, <2>7 DEF Alone, OnConns, ExchangeInv
  <2>9. s = HandleReadResult(Inside(server[r]), p, m - server[r].read)
    BY <1>6, <2>3
  <2>10. TakesTo(r, m, p, s)
    <3>1. up'[r] = up[r]
      BY <1>1
    <3> QED BY <1>1, <2>3, <2>5, <2>6, <2>9, <3>1 DEF TakesTo
  <2>11. /\ RequestInv(r)'
         /\ DOMAIN s = DOMAIN server[r] /\ s.pc # "full"
         /\ s.out \in {<<>>, ResponseText(Code(r)')}
         /\ s.pc = "deleted" => s.out = <<>>
    BY <2>10, ReadRequest
  <2>12. ResponseInv(r)'
    <3>1. client'[r] = client[r] /\ down_'[r] = down_[r]
      BY <1>1
    <3> QED BY <1>1, <1>2, <1>3, <2>6, <2>7, <2>11, <3>1 DEF Exchange, ResponseInv
  <2>13. Exchange(r)'
    <3>1. client'[r] = client[r]
      BY <1>1
    <3> QED BY <1>1, <2>6, <2>11, <2>12, <3>1 DEF Exchange
  <2> QED BY <2>8, <2>13, OneConnection
<1> QED BY <1>4, <1>5, <1>6 DEF ServerRead, Returns, ProcessDies

\* Steps that move no byte: only harm may grow.
LEMMA QuietExchange ==
  ASSUME ExchangeInv, UNCHANGED <<client, server, up, down_, served>>,
         DOMAIN harm' = Conns, \A q \in Conns : harm[q] \subseteq harm'[q]
  PROVE  ExchangeInv'
<1>1. OnConns'
  BY DEF ExchangeInv, OnConns
<1>2. ASSUME NEW q \in Conns
      PROVE  Exchange(q)'
  <2>1. Exchange(q)
    BY DEF ExchangeInv
  <2>2. Code(q)' = Code(q)
    BY DEF Code
  <2> QED BY <2>1, <2>2 DEF Exchange, RequestInv, ResponseInv
<1> QED BY <1>1, <1>2 DEF ExchangeInv

\* Every step keeps the invariant.
LEMMA NextExchange == ExchangeInv /\ [Next]_vars => ExchangeInv'
<1> SUFFICES ASSUME ExchangeInv, [Next]_vars PROVE ExchangeInv'
  OBVIOUS
<1>1. ASSUME NEW r \in Conns, IssueRequest(r) \/ Request(r)
      PROVE  ExchangeInv'
  BY <1>1, ClientExchange, ClientReadExchange DEF Request
<1>2. ASSUME NEW r \in Conns, Respond(r)
      PROVE  ExchangeInv'
  BY <1>2, ServerReadExchange, WriteExchange, WaitExchange DEF Respond
<1>3. ASSUME NEW r \in Conns, SilentClient(r) \/ Handshake(r)
      PROVE  ExchangeInv'
  <2>1. UNCHANGED <<client, server, up, down_, served, harm>>
    BY <1>3 DEF SilentClient, Handshake
  <2>2. DOMAIN harm' = Conns /\ \A q \in Conns : harm[q] \subseteq harm'[q]
    BY <2>1 DEF ExchangeInv, OnConns
  <2> QED BY <2>1, <2>2, QuietExchange
<1>4. ASSUME NEW r \in Conns, Reset(r)
      PROVE  ExchangeInv'
  <2>1. UNCHANGED <<client, server, up, down_, served>> /\ Harm(r, "reset")
    BY <1>4 DEF Reset
  <2>2. DOMAIN harm' = Conns /\ \A q \in Conns : harm[q] \subseteq harm'[q]
    BY <2>1 DEF Harm, ExchangeInv, OnConns
  <2> QED BY <2>1, <2>2, QuietExchange
<1>5. CASE UNCHANGED httpVars
  <2>1. UNCHANGED <<client, server, up, down_, served, harm>>
    BY <1>5 DEF httpVars
  <2>2. DOMAIN harm' = Conns /\ \A q \in Conns : harm[q] \subseteq harm'[q]
    BY <2>1 DEF ExchangeInv, OnConns
  <2> QED BY <2>1, <2>2, QuietExchange
<1> QED BY <1>1, <1>2, <1>3, <1>4, <1>5 DEF Next, Acceptor, Poll, vars

\* A success is a response read to its end, and that end is one of two.
LEMMA WholeResponseFollows == ExchangeInv => WholeResponse
<1> SUFFICES ASSUME ExchangeInv, NEW r \in Conns, client[r].result = "ok",
                    harm[r] \subseteq {"split"}
             PROVE  /\ client[r].parser.body = Body(IF served[r] = -1 THEN 0 ELSE 1)
                    /\ server[r].pc = "deleted"
  BY DEF WholeResponse
<1>1. "full" \notin harm[r] /\ Exchange(r)
  BY DEF ExchangeInv
<1>2. /\ server[r].pc = "deleted" /\ down_[r] = server[r].out
      /\ server[r].out \in {<<>>, ResponseText(Code(r))}
      /\ client[r].read = Len(down_[r]) /\ client[r].parser = ResponseAt(client[r].read)
      /\ RecievedAllHeaders(client[r].parser)
  BY <1>1 DEF Exchange, ResponseInv
<1>3. /\ Len(<<>>) = 0
      /\ Len(ResponseText(Code(r))) = IF served[r] = -1 THEN 5 ELSE 6
  <2>1. Len(ResponseText(Code(r))) = IF Code(r) = "ok" THEN 6 ELSE 5
    BY ResponseIs
  <2> QED BY <2>1 DEF Code
<1>4. client[r].read = 0 \/ client[r].read = IF served[r] = -1 THEN 5 ELSE 6
  BY <1>2, <1>3
<1>5. client[r].read \in Nat
  BY <1>4
<1>6. client[r].read >= 5 /\ client[r].parser.body = Body(client[r].read - 5)
  BY <1>2, <1>5, ResponseAtIs
<1>7. client[r].read - 5 = IF served[r] = -1 THEN 0 ELSE 1
  BY <1>4, <1>6
<1> QED BY <1>2, <1>6, <1>7

(***************************************************************************)
(* The delegate is given the body that content-length promises, whatever   *)
(* the sizes of the bodies, wherever the stream is cut between reads and   *)
(* whatever breaks: InternalResponse::HandleReadResult counts the body     *)
(* once, and a count that is too small is never made good.                 *)
(***************************************************************************)
THEOREM RequestsWhole == Spec => []WholeRequest
<1>1. ExchangeInv => WholeRequest
  BY DEF ExchangeInv, Exchange, RequestInv, WholeRequest
<1> QED BY <1>1, InitExchange, NextExchange, PTL DEF Spec

(***************************************************************************)
(* A response that InternalRequest reports as a success is whole and came  *)
(* once, unless the connection broke or a send buffer was full: the server *)
(* writes all of it in the step in which Finish closes the connection.     *)
(***************************************************************************)
THEOREM ResponsesWhole == Spec => []WholeResponse
<1> QED BY WholeResponseFollows, InitExchange, NextExchange, PTL DEF Spec

=============================================================================
