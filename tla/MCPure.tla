---- MODULE MCPure ----
(***************************************************************************)
(* The algorithms without state of their own, on every input up to a       *)
(* bound: messages for HTTPParser put together from a few pieces, which is *)
(* also how the parser gets them, URIs, and timeouts.  See MCPure.cfg.     *)
(***************************************************************************)
EXTENDS HTTPParser, Time

CONSTANT MaxPieces   \* bound: pieces of a text

U == INSTANCE URIParser

\* The input: a text, or when a timer was started, with which timeout, and the
\* time now.
VARIABLES kind, input, pieces, parser

Pieces == IF kind = "http"
          THEN {<<"cr", "lf">>, <<"lf">>, <<"key", "colon", "sp", "1">>,
                <<"x", "colon", "key">>, <<"x">>, <<"sp">>}
          \* a / ? # & = %26 and a byte above 127
          ELSE {<<97>>, <<47>>, <<63>>, <<35>>, <<38>>, <<61>>, <<37, 50, 54>>, <<200>>}

Init ==
  /\ pieces = 0
  /\ \/ kind = "http" /\ input = <<"first">>
     \/ kind = "uri"  /\ input = <<97, 58>>
     \/ kind = "time" /\ \E now, timeout \in 0 .. kInfiniteTimeUs :
                           input = <<now, timeout, now>>
  /\ parser = Parse(NewParser, <<"first">>)

AddPiece ==
  /\ kind # "time" /\ pieces < MaxPieces /\ pieces' = pieces + 1
  /\ \E piece \in Pieces :
       /\ input' = input \o piece
       /\ parser' = IF kind = "http" THEN Parse(parser, piece) ELSE parser
  /\ UNCHANGED kind

Tick ==
  /\ kind = "time" /\ input[3] < kInfiniteTimeUs
  /\ input' = [input EXCEPT ![3] = @ + 1]
  /\ UNCHANGED <<kind, pieces, parser>>

Next == AddPiece \/ Tick

Spec == Init /\ [][Next]_<<kind, input, pieces, parser>>

(***************************************************************************)
(* HTTPParser takes a message apart the way its lines say, in whatever     *)
(* pieces it comes: see FollowsLines.                                      *)
(***************************************************************************)
ParserFollowsLines == kind = "http" => FollowsLines(input, parser)

(***************************************************************************)
(* PercentDecode undoes PercentEncode: see DecodesBack.                    *)
(***************************************************************************)
DecodeInvertsEncode == kind = "uri" => U!DecodesBack(input)

(***************************************************************************)
(* A URI survives ToString and Parse: see ParsesBack.                      *)
(***************************************************************************)
URISurvives == kind = "uri" => U!ParsesBack(U!Parse(input))

(***************************************************************************)
(* The conversions between Timer::Start and epoll_wait keep the deadline   *)
(* of a timer to the millisecond: see ServedInTime.                        *)
(***************************************************************************)
EpollKeepsDeadline == kind = "time" => ServedInTime(input[1], input[2], input[3])

====
