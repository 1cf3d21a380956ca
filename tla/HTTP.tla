-------------------------------- MODULE HTTP --------------------------------
(***************************************************************************)
(* HTTPClient::IssueRequest and HTTPServer: an InternalRequest             *)
(* (io/http_client.cc) on one side of a connection, an InternalResponse    *)
(* (io/http_server.cc) on the other, with the accept loop of TCPServer     *)
(* between them and HTTPParser at both ends.                               *)
(*                                                                         *)
(* A Read that has to wait is what TCPClientImpl makes of it: in a debug   *)
(* build the process ends when the data arrive, in a release build the     *)
(* next Read that waits may lose its callback, and a race may end the      *)
(* process in both.  TCPClient has the steps; here are their outcomes.     *)
(* Each client is a process of its own; the server is one process.         *)
(***************************************************************************)
EXTENDS TCPServer, HTTPParser

CONSTANTS
  Claim,      \* content-length of each request, in its header
  Size,       \* and the size of its body, in bytes
  Cuts,       \* bound: where a stream may be cut between two reads
  MaxRequests,\* bound: requests that are issued
  Builds      \* "debug", where a DCHECK that fails ends the process, "release"

ASSUME HTTPAssumption ==
  /\ Claim \in [Conns -> 0..1] /\ Size \in [Conns -> Nat] /\ Cuts \subseteq Nat
  /\ Builds \subseteq {"debug", "release"} /\ MaxRequests \in Nat

VARIABLES
  client,     \* InternalRequest: pc, what it has read, its parser, the result,
              \* and whether it runs inside a callback of its TCPClient
  server,     \* InternalResponse
  link,       \* kernel: the connection
  up, down_,  \* bytes the client and the server wrote
  served,     \* the body that the delegate was given, in bytes, or -1
  harm        \* history: what went wrong on the connection

httpVars == <<client, server, link, up, down_, served, harm>>
vars == <<acceptVars, httpVars>>

Harms == {"early", "reset", "full", "split", "dcheck", "again", "race", "freed"}

CRLF == <<"cr", "lf">>
Body(n) == [i \in 1..n |-> "x"]

\* HTTPRequest::ToString and HTTPResponse::ToString.
RequestText(r) ==
  <<"first">> \o CRLF \o <<"key", "colon", "sp", IF Claim[r] = 1 THEN "1" ELSE "0">>
    \o CRLF \o CRLF \o Body(Size[r])
ResponseText(code) ==
  <<"first">> \o CRLF \o CRLF \o Body(IF code = "ok" THEN 1 ELSE 0)

Init ==
  /\ AcceptInit
  /\ client = [r \in Conns |-> [pc |-> "none", read |-> 0, parser |-> NewParser,
                                result |-> "none", inside |-> FALSE]]
  /\ server = [r \in Conns |-> [pc |-> "reading", read |-> 0, parser |-> NewParser,
                                received |-> -1, out |-> <<>>, inside |-> FALSE]]
  /\ link = [r \in Conns |-> "none"]
  /\ up = [r \in Conns |-> <<>>] /\ down_ = [r \in Conns |-> <<>>]
  /\ served = [r \in Conns |-> -1] /\ harm = [r \in Conns |-> {}]

\* What a side that has read the first n bytes of a stream may get from Read,
\* as segments arrive.
Reads(stream, n) ==
  {SubSeq(stream, n + 1, m) :
     m \in {i \in Cuts \cup {Len(stream)} : n < i /\ i <= Len(stream)}}

\* Bound: the kernel is to blame for one mishap at most, but the connection of
\* a full buffer may break.
Fine == trouble = {} /\ \A r \in Conns : harm[r] = {}

Harm(r, what) == harm' = [harm EXCEPT ![r] = @ \cup {what}]

\* Read finds nothing and waits.  One that is started inside the callback of
\* another has its callback cleared when that one returns (or is served before).
Waits(side) == [side EXCEPT !.pc = IF side.inside THEN "again" ELSE "pending"]
Again(r, side) == IF side.inside THEN Harm(r, "again") ELSE UNCHANGED harm

\* The places in which Read returns, or its callback is called, with a result.
MayRead(side) ==
  side.pc = "reading" \/ ("release" \in Builds /\ side.pc \in {"pending", "again"})

\* How the end of a wait ends the process: RetryRead runs into the DCHECK, the
\* callback is gone, or TCPClientImpl lost one of its races (bound: once).
Deadly(side, why) ==
  \/ why = "dcheck" /\ "debug" \in Builds /\ side.pc \in {"pending", "again"}
  \/ why = "again"  /\ side.pc = "again"
  \/ why = "race"   /\ Fine /\ side.pc \in {"pending", "again"}

\* A result that is given to a callback is handled inside it.
Inside(side) == [side EXCEPT !.inside = @ \/ side.pc # "reading", !.pc = "reading"]

-----------------------------------------------------------------------------
(* InternalRequest *)

\* Finish: on_done_ and delete, which closes the connection.
ClientFinish(r, status) ==
  client' = [client EXCEPT ![r].pc = "deleted", ![r].result = status]

\* HTTPClient::IssueRequest posts DoConnect.
IssueRequest(r) ==
  /\ client[r].pc = "none" /\ link[r] = "none"
  /\ Cardinality({q \in Conns : client[q].pc # "none"}) < MaxRequests
  /\ client' = [client EXCEPT ![r].pc = "posted"]
  /\ UNCHANGED <<acceptVars, server, link, up, down_, served, harm>>

\* DoConnect: at once, not at all, or pending.
DoConnect(r) ==
  /\ client[r].pc = "posted"
  /\ \/ /\ client' = [client EXCEPT ![r].pc = "writing"]
        /\ link' = [link EXCEPT ![r] = "up"] /\ Arrive(r)
     \/ /\ ClientFinish(r, "error") /\ UNCHANGED <<link, backlog, armed>>
     \/ /\ client' = [client EXCEPT ![r].pc = "connecting"]
        /\ link' = [link EXCEPT ![r] = "syn"] /\ UNCHANGED <<backlog, armed>>
  /\ UNCHANGED <<pending_accept_, accept_socket_, watching, posted, loose, at,
                 accepted_socket_, accepted, trouble, down, server, up, down_, served, harm>>

\* TCPClient::Connect returns; only now tcp_ is set.
ConnectReturns(r) ==
  /\ client[r].pc = "connecting"
  /\ client' = [client EXCEPT ![r].pc = "waiting"]
  /\ UNCHANGED <<acceptVars, server, link, up, down_, served, harm>>

\* The callback; when it comes before tcp_ is set it writes to a null pointer.
\* (That the connection failed is not told: TCPClientImpl::OnConnectDone.)
OnConnectCompleted(r) ==
  /\ link[r] \in {"up", "reset"}
  /\ \/ /\ client[r].pc = "waiting"
        /\ client' = [client EXCEPT ![r].pc = "writing"] /\ UNCHANGED harm
     \/ /\ client[r].pc = "connecting"
        /\ client' = [client EXCEPT ![r].pc = "crashed"] /\ Harm(r, "early")
  /\ UNCHANGED <<acceptVars, server, link, up, down_, served>>

\* DoWriteLoop.  When the send buffer is full it spins, and calls Write while
\* a write is pending.
ClientWrite(r) ==
  /\ client[r].pc \in {"writing", "spins"}
  /\ \/ /\ link[r] = "reset" /\ ClientFinish(r, "error")
        /\ UNCHANGED <<up, harm>>
     \/ /\ link[r] = "up" /\ client[r].pc = "writing"
        /\ up' = [up EXCEPT ![r] = RequestText(r)]
        /\ client' = [client EXCEPT ![r].pc = "reading"]
        /\ UNCHANGED harm
     \/ /\ link[r] = "up" /\ client[r].pc = "writing" /\ Fine /\ Harm(r, "full")
        /\ client' = [client EXCEPT ![r].pc = "spins"]
        /\ UNCHANGED up
  /\ UNCHANGED <<acceptVars, server, link, down_, served>>

\* The server closed the connection, or its process ended.
Closed(r) == server[r].pc \in {"deleted", "crashed"} \/ down

\* HandleReadResult for n bytes that the parser took to p.
Takes(c, p, n) ==
  [c EXCEPT !.parser = p, !.read = @ + n,
            !.pc = IF p.ok THEN @ ELSE "deleted", !.result = IF p.ok THEN @ ELSE "error"]

\* DoReadLoop and OnReadCompleted: the response ends with the connection.
ClientRead(r) ==
  /\ MayRead(client[r])
  /\ \/ link[r] = "reset" /\ ClientFinish(r, "error")
     \/ /\ link[r] = "up"
        /\ \E data \in Reads(down_[r], client[r].read) :
             \E p \in {Parse(client[r].parser, data)} :
               client' = [client EXCEPT ![r] = Takes(Inside(@), p, Len(data))]
     \/ /\ link[r] = "up" /\ Closed(r)
        /\ client[r].read = Len(down_[r])
        /\ ClientFinish(r, IF RecievedAllHeaders(client[r].parser) THEN "ok" ELSE "error")
  /\ UNCHANGED <<acceptVars, server, link, up, down_, served, harm>>

\* Read has to wait.
ClientWaits(r) ==
  /\ client[r].pc = "reading" /\ link[r] = "up"
  /\ client' = [client EXCEPT ![r] = Waits(@)]
  /\ Again(r, client[r])
  /\ UNCHANGED <<acceptVars, server, link, up, down_, served>>

\* The wait ends, and the process with it.
ClientDies(r) ==
  /\ link[r] = "reset" \/ Closed(r) \/ client[r].read < Len(down_[r])
  /\ client' = [client EXCEPT ![r].pc = "crashed"]
  /\ \E why \in Harms : Deadly(client[r], why) /\ Harm(r, why)
  /\ UNCHANGED <<acceptVars, server, link, up, down_, served>>

-----------------------------------------------------------------------------
(* InternalResponse *)

\* Mutant: DoWriteLoop is not started.
SendResponseUnsent(s, code) == [s EXCEPT !.out = ResponseText(code), !.pc = "leaked"]

SendResponse(s, code) == [s EXCEPT !.out = ResponseText(code), !.pc = "writing"]

\* Finish deletes this, which closes the connection.
ServerFinish(s) == [s EXCEPT !.pc = "deleted"]

\* The process of the server ends in connection r.
ProcessDies(r, why) ==
  /\ down' = TRUE /\ trouble' = trouble \cup {"died"} /\ Harm(r, why)
  /\ UNCHANGED loopVars

\* The handler returns.  If s was deleted inside a callback of its TCPClient,
\* which is deleted with it, the callback returns to memory that is gone.
Returns(r, s) ==
  \/ UNCHANGED <<acceptVars, harm>>
  \/ s.pc = "deleted" /\ s.inside /\ ProcessDies(r, "freed")

\* Mutant: a body that has begun counts as complete.
CompleteAtMost(s, p) == s.received <= p.content_length_

Complete(s, p) == s.received = p.content_length_
TooMuch(s, p)  == p.content_length_ = -1 \/ s.received > p.content_length_

(***************************************************************************)
(* HandleReadResult for n bytes that the parser took to p:                 *)
(* received_body_bytes_ is set by the read that completes the headers, and *)
(* never again.                                                            *)
(***************************************************************************)
HandleReadResult(s, p, n) ==
  LET t == [s EXCEPT !.parser = p, !.read = @ + n,
                     !.received = IF @ = -1 /\ RecievedAllHeaders(p) THEN Len(p.body)
                                  ELSE @]
  IN  IF ~p.ok                       THEN ServerFinish(t)
      ELSE IF ~RecievedAllHeaders(p) THEN t
      ELSE IF TooMuch(t, p)          THEN SendResponse(t, "bad")
      ELSE IF Complete(t, p)         THEN SendResponse(t, "ok")
      ELSE t

\* DoReadLoop and OnReadCompleted.  After an error nobody deletes the
\* InternalResponse.
ServerRead(r) ==
  /\ ~down /\ r \in accepted /\ MayRead(server[r])
  /\ \/ /\ link[r] = "reset"
        /\ server' = [server EXCEPT ![r].pc = "leaked"]
        /\ UNCHANGED <<acceptVars, served, harm>>
     \/ /\ link[r] = "up"
        /\ \E data \in Reads(up[r], server[r].read) :
             \E p \in {Parse(server[r].parser, data)} :
               \E s \in {HandleReadResult(Inside(server[r]), p, Len(data))} :
                 /\ server' = [server EXCEPT ![r] = s]
                 /\ served' = [served EXCEPT ![r] =
                      IF s.out = ResponseText("ok") THEN Len(p.body) ELSE @]
                 /\ IF s.pc = "reading" /\ RecievedAllHeaders(p)
                    THEN Harm(r, "split") /\ UNCHANGED acceptVars ELSE Returns(r, s)
     \/ \* the client is gone
        /\ link[r] = "up" /\ client[r].pc \in {"deleted", "crashed"}
        /\ server[r].read = Len(up[r])
        /\ server' = [server EXCEPT ![r] = SendResponse(Inside(@), "bad")]
        /\ UNCHANGED <<acceptVars, served, harm>>
  /\ UNCHANGED <<client, link, up, down_>>

\* Read has to wait.
ServerWaits(r) ==
  /\ ~down /\ r \in accepted /\ server[r].pc = "reading" /\ link[r] = "up"
  /\ server' = [server EXCEPT ![r] = Waits(@)]
  /\ Again(r, server[r])
  /\ UNCHANGED <<acceptVars, client, link, up, down_, served>>

\* The wait ends, and the process with it.
ServerDies(r) ==
  /\ ~down
  /\ \/ link[r] = "reset" \/ client[r].pc \in {"deleted", "crashed"}
     \/ server[r].read < Len(up[r])
  /\ server' = [server EXCEPT ![r].pc = "crashed"]
  /\ \E why \in Harms : Deadly(server[r], why) /\ ProcessDies(r, why)
  /\ UNCHANGED <<client, link, up, down_, served>>

\* What DoWriteLoop sends before Finish.
\* Mutant: the loop ends a byte early.
WrittenShort(s) == SubSeq(s.out, 1, Len(s.out) - 1)
Written(s) == s.out

\* DoWriteLoop.  After an error Finish has deleted this, and the loop goes on.
ServerWrite(r) ==
  /\ ~down /\ server[r].pc = "writing"
  /\ \/ /\ link[r] = "reset"
        /\ server' = [server EXCEPT ![r].pc = "crashed"]
        /\ ProcessDies(r, "freed")
        /\ UNCHANGED down_
     \/ /\ link[r] = "up"
        /\ down_' = [down_ EXCEPT ![r] = @ \o Written(server[r])]
        /\ \E s \in {ServerFinish(server[r])} :
             server' = [server EXCEPT ![r] = s] /\ Returns(r, s)
     \/ /\ link[r] = "up" /\ Fine /\ Harm(r, "full")
        /\ server' = [server EXCEPT ![r].pc = "full"]
        /\ UNCHANGED <<acceptVars, down_>>
  /\ UNCHANGED <<client, link, up, served>>

\* OnWriteCompleted: the pending write sent the rest, and DoWriteLoop begins
\* with SetOffset(0) and sends the response once more; or it failed.
OnWriteCompleted(r) ==
  /\ ~down /\ server[r].pc = "full"
  /\ \/ /\ link[r] = "up"
        /\ down_' = [down_ EXCEPT ![r] = server[r].out]
        /\ server' = [server EXCEPT ![r].pc = "writing", ![r].inside = TRUE]
        /\ UNCHANGED <<acceptVars, harm>>
     \/ /\ link[r] = "reset"
        /\ \E s \in {[ServerFinish(server[r]) EXCEPT !.inside = TRUE]} :
             server' = [server EXCEPT ![r] = s] /\ Returns(r, s)
        /\ UNCHANGED down_
  /\ UNCHANGED <<client, link, up, served>>

-----------------------------------------------------------------------------
(* The network *)

\* Some other client connects to the server and says nothing.
SilentClient(r) ==
  /\ client[r].pc = "none" /\ link[r] = "none"
  /\ link' = [link EXCEPT ![r] = "up"] /\ Arrive(r)
  /\ UNCHANGED <<pending_accept_, accept_socket_, watching, posted, loose, at,
                 accepted_socket_, accepted, trouble, down, client, server, up, down_, served, harm>>

Handshake(r) ==
  /\ link[r] = "syn"
  /\ \/ link' = [link EXCEPT ![r] = "up"] /\ Arrive(r)
     \/ link' = [link EXCEPT ![r] = "reset"] /\ UNCHANGED <<backlog, armed>>
  /\ UNCHANGED <<pending_accept_, accept_socket_, watching, posted, loose, at,
                 accepted_socket_, accepted, trouble, down, client, server, up, down_, served, harm>>

\* A connection breaks.
Reset(r) ==
  /\ link[r] = "up" /\ (Fine \/ (trouble = {} /\ harm[r] = {"full"}))
  /\ link' = [link EXCEPT ![r] = "reset"]
  /\ Harm(r, "reset")
  /\ UNCHANGED <<acceptVars, client, server, up, down_, served>>

Request(r) ==
  \/ DoConnect(r) \/ ConnectReturns(r) \/ OnConnectCompleted(r)
  \/ ClientWrite(r) \/ ClientRead(r) \/ ClientWaits(r) \/ ClientDies(r)

Respond(r) ==
  \/ ServerRead(r) \/ ServerWaits(r) \/ ServerDies(r)
  \/ ServerWrite(r) \/ OnWriteCompleted(r)

Acceptor(w) == AcceptStep(w) /\ UNCHANGED httpVars
Poll        == AcceptEvent /\ UNCHANGED httpVars

Next ==
  \/ \E r \in Conns :
       \/ IssueRequest(r) \/ Request(r) \/ Respond(r)
       \/ SilentClient(r) \/ Handshake(r) \/ Reset(r)
  \/ \E w \in Workers : Acceptor(w)
  \/ Poll

\* The task runner runs what is posted, the network delivers, epoll reports.
Spec ==
  /\ Init /\ [][Next]_vars
  /\ \A r \in Conns : WF_vars(Request(r)) /\ WF_vars(Respond(r)) /\ WF_vars(Handshake(r))
  /\ \A w \in Workers : WF_vars(Acceptor(w))
  /\ WF_vars(Poll)

-----------------------------------------------------------------------------
(* Properties *)

(***************************************************************************)
(* The delegate is given a request with the body its content-length        *)
(* promises, no more and no less, in however many reads it came.           *)
(***************************************************************************)
WholeRequest == \A r \in Conns : served[r] \in {-1, Claim[r]}

(***************************************************************************)
(* A request that on_done_ calls a success got the whole response and got  *)
(* it once, unless the connection broke or a write found the send buffer   *)
(* full: the client takes the end of the connection for the end of the     *)
(* response and checks no length.                                          *)
(***************************************************************************)
WholeResponse ==
  \A r \in Conns : client[r].result = "ok" /\ harm[r] \subseteq {"split"} =>
    /\ client[r].parser.body = Body(IF served[r] = -1 THEN 0 ELSE 1)
    /\ server[r].pc = "deleted"

(***************************************************************************)
(* Every request finishes: on_done_ is called, unless accepting met        *)
(* trouble, the connection broke, a buffer was full, the body came apart   *)
(* from the headers, a read waited in a debug build or inside the callback *)
(* of another, or TCPClientImpl lost one of its races.                     *)
(***************************************************************************)
RequestFinishes ==
  \A r \in Conns : client[r].pc = "posted" ~>
    (client[r].pc = "deleted" \/ harm[r] # {} \/ trouble # {})

=============================================================================
