----------------------------- MODULE TCPServer -----------------------------
(***************************************************************************)
(* TCPServerImpl (io/tcp_server_impl.cc) with the accept loop of           *)
(* HTTPServer (io/http_server.cc) as its application.  The loop starts as  *)
(* a task of the task runner and goes on in the accept callback, on the    *)
(* worker that runs OnFileReadable.  Nothing is locked, so a step is what  *)
(* one worker does up to the next access that another can see.  Every      *)
(* event posts a HandleIO task, and the controller has the handle of the   *)
(* last one only: see TCPClient.                                           *)
(*                                                                         *)
(* What ends the loop or disturbs it is recorded in trouble.               *)
(***************************************************************************)
EXTENDS Integers, FiniteSets

CONSTANTS
  Conns,      \* connections made to the server
  Workers     \* threads of the task runner

VARIABLES
  pending_accept_,
  accept_socket_,   \* accept_socket_ and accept_callback_ are stored
  watching, armed,  \* the watch is registered; epoll has an event for it
  posted,           \* tasks that have not started: the loop, the HandleIO in task_
  loose,            \* HandleIO tasks not started whose handle was overwritten
  at,               \* where each worker is
  backlog,          \* kernel: connections not accepted yet
  accepted_socket_, \* HTTPServer: the connection just accepted, if any
  accepted,         \* connections an InternalResponse was made for
  trouble,          \* history
  down              \* the process is dead

loopVars   == <<pending_accept_, accept_socket_, watching, armed, posted, loose, at,
                backlog, accepted_socket_, accepted>>
acceptVars == <<loopVars, trouble, down>>

\* "died" is a connection that ends the process, see HTTP.
Troubles == {"listen", "early", "twice", "stale", "aborted", "error", "watch", "died"}

\* TCPServer::Listen: Open, Bind, AllowAddressReuse and Listen, any of which may
\* fail; HTTPServer has no server then and ends in its DCHECK, or in its first
\* Accept.
Listen ==
  \/ trouble = {} /\ down = FALSE
  \/ trouble = {"listen"} /\ down = TRUE

\* The constructor of HTTPServer posts DoAcceptLoop.
AcceptInit ==
  /\ pending_accept_ = FALSE /\ accept_socket_ = FALSE
  /\ watching = FALSE /\ armed = FALSE
  /\ posted = {"loop"} /\ loose = 0 /\ at = [w \in Workers |-> "idle"]
  /\ backlog = {} /\ accepted_socket_ = {} /\ accepted = {}
  /\ Listen

(***************************************************************************)
(* DoAccept.  A connection that its client aborted is ECONNABORTED, which  *)
(* MapSocketAcceptError makes TryAgain.  The error is the one of accept()  *)
(* or of AdoptConnectedSocket.  Bound: one of the two, once.               *)
(***************************************************************************)
DoAccept(status) ==
  \/ /\ status = "TryAgain" /\ backlog = {}
     /\ UNCHANGED <<backlog, accepted_socket_>>
  \/ /\ status \in {"OK", "aborted", "error"}
     /\ status # "OK" => trouble = {}
     /\ \E c \in backlog :
          /\ \/ backlog' = backlog \ {c}
             \/ status = "error" /\ UNCHANGED backlog
          /\ accepted_socket_' = IF status = "OK" THEN {c} ELSE accepted_socket_

IsTryAgain(status) == status \in {"TryAgain", "aborted"}
Faults(status) == trouble \cup ({status} \cap Troubles)

\* A worker starts a posted task.  Workers take the tasks in the order of the
\* queue but may start them in another.
Start(w, task) ==
  /\ ~down /\ at[w] = "idle"
  /\ \/ task \in posted /\ posted' = posted \ {task} /\ UNCHANGED loose
     \/ task = "read" /\ loose > 0 /\ loose' = loose - 1 /\ UNCHANGED posted
  /\ at' = [at EXCEPT ![w] = IF task = "loop" THEN "loop" ELSE "start"]
  /\ trouble' = trouble \cup {t \in {"early", "twice"} : task = "read" /\
       \E v \in Workers : at[v] \in IF t = "early" THEN {"watched"} ELSE {"start", "OK", "error"}}
  /\ UNCHANGED <<pending_accept_, accept_socket_, watching, armed, backlog,
                 accepted_socket_, accepted, down>>

\* HandleAcceptResult: an InternalResponse takes the connection, and the loop
\* goes on; one without a connection is as good as dead.
HandleAcceptResult(w) ==
  /\ accepted_socket_' = {}
  /\ accepted' = accepted \cup accepted_socket_
  /\ down' = (accepted_socket_ = {})
  /\ at' = [at EXCEPT ![w] = "loop"]

(***************************************************************************)
(* A round of DoAcceptLoop: Accept, whose success is handled like that of  *)
(* the callback.  pending_accept_ is set before the watch is registered    *)
(* and stays set when that fails; the socket and the callback are stored   *)
(* after it.  Any error ends the loop for good.                            *)
(***************************************************************************)
Accept(w) ==
  /\ ~down /\ at[w] = "loop"
  /\ IF pending_accept_
     THEN /\ down' = TRUE
          /\ UNCHANGED <<pending_accept_, watching, armed, at, backlog,
                         accepted_socket_, trouble>>
     ELSE \E status \in {"OK", "TryAgain", "aborted", "error"} :
          /\ DoAccept(status)
          /\ UNCHANGED down
          /\ \/ /\ IsTryAgain(status)
                /\ pending_accept_' = TRUE
                /\ \/ /\ watching' = TRUE /\ armed' = TRUE
                      /\ at' = [at EXCEPT ![w] = "watched"]
                      /\ trouble' = Faults(status)
                   \/ /\ trouble = {} /\ trouble' = {"watch"}
                      /\ at' = [at EXCEPT ![w] = "idle"]
                      /\ UNCHANGED <<watching, armed>>
             \/ /\ ~IsTryAgain(status)
                /\ at' = [at EXCEPT ![w] = IF status = "OK" THEN "accepted" ELSE "idle"]
                /\ trouble' = Faults(status)
                /\ UNCHANGED <<pending_accept_, watching, armed>>
  /\ UNCHANGED <<accept_socket_, posted, loose, accepted>>

\* The loop after an Accept that succeeded.
DoAcceptLoop(w) ==
  /\ ~down /\ at[w] = "accepted"
  /\ HandleAcceptResult(w)
  /\ UNCHANGED <<pending_accept_, accept_socket_, watching, armed, posted, loose,
                 backlog, trouble>>

\* Accept stores the socket and the callback and returns TryAgain.
AcceptStored(w) ==
  /\ ~down /\ at[w] = "watched"
  /\ accept_socket_' = TRUE
  /\ at' = [at EXCEPT ![w] = "idle"]
  /\ UNCHANGED <<pending_accept_, watching, armed, posted, loose, backlog,
                 accepted_socket_, accepted, trouble, down>>

\* pending_accept_ when the callback is called.
\* Mutant: it is cleared only after the callback.
PendingKept == TRUE
PendingInCallback == FALSE

\* OnFileReadable up to the result of DoAccept.  TryAgain waits for the next
\* edge.
OnFileReadable(w) ==
  /\ ~down /\ at[w] = "start"
  /\ \/ /\ ~accept_socket_ /\ down' = TRUE
        /\ UNCHANGED <<at, backlog, accepted_socket_, trouble>>
     \/ /\ accept_socket_
        /\ \E status \in {"OK", "TryAgain", "aborted", "error"} :
             /\ DoAccept(status)
             /\ trouble' = Faults(status)
             /\ at' = [at EXCEPT ![w] = IF IsTryAgain(status) THEN "idle" ELSE status]
        /\ UNCHANGED down
  /\ UNCHANGED <<pending_accept_, accept_socket_, watching, armed, posted, loose,
                 accepted>>

(***************************************************************************)
(* The rest of OnFileReadable: the watch is stopped, which cancels the     *)
(* task whose handle is kept and no other, the pending accept forgotten    *)
(* and the callback called, which goes on with the loop.                   *)
(***************************************************************************)
OnAcceptCompleted(w) ==
  /\ ~down /\ at[w] \in {"OK", "error"}
  /\ watching' = FALSE /\ armed' = FALSE
  /\ posted' = posted \ {"read"}
  /\ accept_socket_' = FALSE
  /\ pending_accept_' = PendingInCallback
  /\ IF at[w] = "OK" THEN HandleAcceptResult(w)
     ELSE at' = [at EXCEPT ![w] = "idle"] /\ UNCHANGED <<accepted_socket_, accepted, down>>
  /\ trouble' = trouble \cup IF loose > 0 THEN {"stale"} ELSE {}
  /\ UNCHANGED <<loose, backlog>>

\* The poll thread posts HandleIO for the event, and overwrites the handle of
\* the last task.
AcceptEvent ==
  /\ ~down /\ armed /\ backlog # {}
  /\ armed' = FALSE /\ posted' = posted \cup {"read"}
  /\ loose' = IF "read" \in posted THEN loose + 1 ELSE loose
  /\ UNCHANGED <<pending_accept_, accept_socket_, watching, at, backlog,
                 accepted_socket_, accepted, trouble, down>>

\* A connection comes in: an edge.
Arrive(c) == backlog' = backlog \cup {c} /\ armed' = watching

AcceptStep(w) ==
  \/ \E task \in {"loop", "read"} : Start(w, task)
  \/ Accept(w) \/ AcceptStored(w) \/ DoAcceptLoop(w)
  \/ OnFileReadable(w) \/ OnAcceptCompleted(w)

-----------------------------------------------------------------------------
(* Properties *)

(***************************************************************************)
(* As long as no accept, abort or watch failed, no event came before       *)
(* Accept had stored its callback, no two tasks of the watch ran at a time *)
(* and none was left behind by StopWatching, the server goes on accepting, *)
(* however many tasks are posted: a task is about to, or an accept is      *)
(* pending with its callback and its watch in place, and Accept never      *)
(* finds its own pending accept in the way.                                *)
(***************************************************************************)
AcceptorAlive ==
  trouble = {} =>
    /\ ~down
    /\ \/ "loop" \in posted \/ \E w \in Workers : at[w] # "idle"
       \/ pending_accept_ /\ accept_socket_ /\ watching

=============================================================================
