----------------------------- MODULE HTTPParser -----------------------------
(***************************************************************************)
(* HTTPParser (util/http_parser.cc) as a function of the bytes it is       *)
(* given.  A byte is one of a few classes; the text of a well-formed first *)
(* line, of the key content-length and of a number count as one byte.      *)
(***************************************************************************)
EXTENDS Integers, Sequences, FiniteSets

CONSTANT kMaxHeaderLength

ASSUME HeaderAssumption == kMaxHeaderLength \in Nat \ {0}

Bytes == {"first", "key", "colon", "sp", "cr", "lf", "0", "1", "x"}

\* std::atoi of a value.
ToInt(s) == IF s # <<>> /\ s[1] = "1" THEN 1 ELSE 0

\* HTTPParser::HTTPParser, with the fields of the message that it fills in.
NewParser ==
  [parse_state_ |-> "kParseFirstLine", cur_line_ |-> <<>>, cur_line_end_length_ |-> 2,
   content_length_ |-> -1, headers |-> <<>>, body |-> <<>>, ok |-> TRUE]

\* HTTPRequest::AddHeader: the first content-length counts.
StoreHeader(p, key, value) ==
  [p EXCEPT !.headers = Append(@, <<key, value>>),
            !.content_length_ =
               IF @ = -1 /\ key # <<>> /\ key[1] = "key" THEN ToInt(value) ELSE @]

\* The positions of the bytes bs of a line from position i on.
Positions(line, i, bs) == {j \in i .. Len(line) : line[j] \in bs}

Least(S) == CHOOSE i \in S : \A j \in S : i <= j

\* AddHeader: key, colon, blanks, value, and what ends the line.
AddHeader(p) ==
  LET line   == p.cur_line_
      colons == Positions(line, 1, {"colon"})
      colon  == Least(colons)
      start  == Least(Positions(line, colon + 1, Bytes \ {"sp"}))
  IN  IF line[1] = "sp" \/ colons = {} THEN [p EXCEPT !.ok = FALSE]
      ELSE StoreHeader(p, SubSeq(line, 1, colon - 1),
                       SubSeq(line, start, Len(line) - p.cur_line_end_length_))

\* HandleFirstLine, of requests and of responses.
HandleFirstLine(p) == [p EXCEPT !.ok = p.cur_line_[1] = "first",
                                !.parse_state_ = "kParseHeaders"]

\* FinishLine.
FinishLine(p) ==
  LET q == IF p.parse_state_ = "kParseFirstLine" THEN HandleFirstLine(p)
           ELSE IF Len(p.cur_line_) = p.cur_line_end_length_
                THEN [p EXCEPT !.parse_state_ = "kParseBody"]
           ELSE AddHeader(p)
  IN  [q EXCEPT !.cur_line_ = <<>>]

\* Mutant: the length of the end of a line is not recorded.
CheckLineTwo(p) == p

\* CheckLine: does the last byte end the line, and how long is that end.  A
\* line that a lone lf ends changes the length for all the lines after it.
EndsLine(line) == line[Len(line)] = "lf"
CheckLine(p) ==
  LET line == p.cur_line_
      crlf == Len(line) >= 2 /\ line[Len(line) - 1] = "cr"
  IN  IF crlf THEN p ELSE [p EXCEPT !.cur_line_end_length_ = 1]

\* AddByte.
AddByte(p, byte) ==
  LET q == [p EXCEPT !.cur_line_ = Append(@, byte)]
  IN  IF p.parse_state_ = "kParseBody" THEN [p EXCEPT !.body = Append(@, byte)]
      ELSE IF Len(p.cur_line_) >= kMaxHeaderLength THEN [p EXCEPT !.ok = FALSE]
      ELSE IF EndsLine(q.cur_line_) THEN FinishLine(CheckLine(q)) ELSE q

\* Parse stops at the first byte that is refused.  (The set makes TLC evaluate
\* each parser once.)
Parse(p, msg) ==
  LET After[i \in 0 .. Len(msg)] ==
        IF i = 0 THEN {p}
        ELSE {IF q.ok THEN AddByte(q, msg[i]) ELSE q : q \in After[i - 1]}
  IN  CHOOSE q \in After[Len(msg)] : TRUE

RecievedAllHeaders(p) == p.parse_state_ = "kParseBody"

-----------------------------------------------------------------------------
(* Reference: what a message is, said without a parser *)

\* The line from position i to the lf at j, without what ends it.
Line(msg, i, j) ==
  SubSeq(msg, i, IF j > i /\ msg[j - 1] = "cr" THEN j - 2 ELSE j - 1)

\* The lines of a message: pairs of the first position and that of the lf.
Lines(msg) ==
  {l \in (1 .. Len(msg)) \X Positions(msg, 1, {"lf"}) :
     /\ l[1] = 1 \/ (l[1] > 1 /\ msg[l[1] - 1] = "lf")
     /\ Positions(msg, l[1], {"lf"}) # {} /\ l[2] = Least(Positions(msg, l[1], {"lf"}))}

\* The empty lines after the first line; the lines before the first of them.
Blank(msg)  == {l \in Lines(msg) : l[1] > 1 /\ Line(msg, l[1], l[2]) = <<>>}
Header(msg) == {l \in Lines(msg) : l[1] > 1 /\ \A b \in Blank(msg) : l[2] < b[2]}

\* The lines up to the body end alike: all with cr lf or all with lf.
Uniform(msg) ==
  LET head == {l \in Lines(msg) : \A b \in Blank(msg) : l[2] <= b[2]}
      WithCR(l) == l[2] > 1 /\ msg[l[2] - 1] = "cr"
  IN  \A l, m \in head : WithCR(l) = WithCR(m)

\* A header is a key, a colon and a value after blanks.
WellFormed(line) == line[1] # "sp" /\ Positions(line, 1, {"colon"}) # {}
KeyOf(line)   == SubSeq(line, 1, Least(Positions(line, 1, {"colon"})) - 1)
ValueOf(line) ==
  LET colon == Least(Positions(line, 1, {"colon"}))
      rest  == Positions(line, colon + 1, Bytes \ {"sp"})
  IN  IF rest = {} THEN <<>> ELSE SubSeq(line, Least(rest), Len(line))

(***************************************************************************)
(* A message whose lines end alike is taken apart as the reference says,   *)
(* whatever reads it came in: it is refused just when a line is malformed  *)
(* or too long, its headers are those of its lines up to the empty one,    *)
(* content-length is the first of that name and the rest is the body.      *)
(***************************************************************************)
FollowsLines(msg, p) ==
  LET end   == IF Blank(msg) = {} THEN 0 ELSE Least({b[2] : b \in Blank(msg)})
      head  == {l[2] : l \in Header(msg)}
      open  == IF Positions(msg, 1, {"lf"}) = {} THEN 0
               ELSE CHOOSE i \in Positions(msg, 1, {"lf"}) :
                      \A j \in Positions(msg, 1, {"lf"}) : j <= i
      tooLong == \/ \E l \in Lines(msg) : (end = 0 \/ l[2] <= end)
                                          /\ l[2] - l[1] + 1 > kMaxHeaderLength
                 \/ end = 0 /\ Len(msg) - open > kMaxHeaderLength
      texts == {<<Cardinality({j \in head : j <= l[2]}),
                  Line(msg, l[1], l[2])>> : l \in Header(msg)}
      lengths == {t \in texts : KeyOf(t[2]) # <<>> /\ KeyOf(t[2])[1] = "key"}
      first == CHOOSE t \in lengths : \A u \in lengths : t[1] <= u[1]
  IN  Uniform(msg) =>
        IF tooLong \/ msg[1] # "first" \/ \E t \in texts : ~WellFormed(t[2])
        THEN ~p.ok
        ELSE /\ p.ok
             /\ {<<i, p.headers[i]>> : i \in 1 .. Len(p.headers)} =
                  {<<t[1], <<KeyOf(t[2]), ValueOf(t[2])>>>> : t \in texts}
             /\ RecievedAllHeaders(p) <=> end # 0
             /\ end # 0 => p.body = SubSeq(msg, end + 1, Len(msg))
             /\ p.content_length_ = IF lengths = {} THEN -1 ELSE ToInt(ValueOf(first[2]))

=============================================================================
