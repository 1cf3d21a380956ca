------------------------------ MODULE URIParser ------------------------------
(***************************************************************************)
(* URI (util/uri_parser.cc): PercentEncode, PercentDecode, Parse and       *)
(* ToString.  A string is a sequence of bytes, 0..255.                     *)
(***************************************************************************)
EXTENDS Integers, Sequences

\* IntToHexDigit and HexDigitToInt; upper and lower case are read.
IntToHexDigit(x) == IF x < 10 THEN 48 + x ELSE 55 + x
HexDigitToInt(c) == IF c > 57 THEN (c + 9) % 16 ELSE c % 16
IsXDigit(c) == c \in (48..57) \cup (65..70) \cup (97..102)

\* The ASCIISets.  Test is false for a byte above 127, and so for all of them.
Alpha == (65..90) \cup (97..122)
Digits == 48..57
Marks == {45, 95, 46, 33, 126, 42, 39, 40, 41}                  \* -_.!~*'()
kURIUnreservedChars        == Alpha \cup Digits \cup Marks
kURIPathUnreservedChars    == kURIUnreservedChars \cup {58, 64, 38, 61, 43, 36, 44, 59, 47}
kURIAuthUnreservedChars    == kURIUnreservedChars \cup {58, 64, 38, 61, 43, 36, 44, 59, 91, 93}
kURISchemeUnreseredChars   == Alpha \cup Digits \cup {43, 45, 46}
kURIQueryKVUnreseredChars  == kURIUnreservedChars \cup {58, 64, 43, 36, 44, 59, 47, 63}
kURIFragmentUnreseredChars == kURIUnreservedChars \cup {58, 64, 38, 61, 43, 36, 44, 59, 47, 63}

IsQueryOrFragmentString(s) ==
  \A i \in 1 .. Len(s) : s[i] \in kURIFragmentUnreseredChars \cup {37}

\* PercentEncode.
PercentEncode(str, unreserved) ==
  LET Code(c) == IF c \in unreserved THEN <<c>>
                 ELSE <<37, IntToHexDigit(c \div 16), IntToHexDigit(c % 16)>>
      Upto[i \in 0 .. Len(str)] == IF i = 0 THEN <<>> ELSE Upto[i - 1] \o Code(str[i])
  IN  Upto[Len(str)]

\* Mutant: an escape that ends the string is not seen.
PercentDecodeShort(src) ==
  LET Escape(i) == i + 2 < Len(src) /\ src[i] = 37
                   /\ IsXDigit(src[i + 1]) /\ IsXDigit(src[i + 2])
      From[i \in 1 .. Len(src) + 1] ==
        IF i > Len(src) THEN <<>>
        ELSE IF Escape(i)
        THEN <<HexDigitToInt(src[i + 1]) * 16 + HexDigitToInt(src[i + 2])>> \o From[i + 3]
        ELSE <<src[i]>> \o From[i + 1]
  IN  From[1]

\* URI::PercentDecode: what is not an escape stays as it is.
PercentDecode(src) ==
  LET Escape(i) == i + 2 <= Len(src) /\ src[i] = 37
                   /\ IsXDigit(src[i + 1]) /\ IsXDigit(src[i + 2])
      From[i \in 1 .. Len(src) + 1] ==
        IF i > Len(src) THEN <<>>
        ELSE IF Escape(i)
        THEN <<HexDigitToInt(src[i + 1]) * 16 + HexDigitToInt(src[i + 2])>> \o From[i + 3]
        ELSE <<src[i]>> \o From[i + 1]
  IN  From[1]

\* Slice::starts_with and remove_prefix.
StartsWith(s, c) == s # <<>> /\ s[1] = c
RemovePrefix(s, n) == SubSeq(s, n + 1, Len(s))

\* FindFirstOf: what is before the first of the bytes t, or everything.
FindFirstOf(s, t) ==
  LET found == {i \in 1 .. Len(s) : s[i] \in t}
  IN  IF found = {} THEN s
      ELSE SubSeq(s, 1, (CHOOSE i \in found : \A j \in found : i <= j) - 1)

\* The loop of Parse over the key-value pairs of a query.
QueryPairs(s) ==
  LET Pair(q) == LET key == FindFirstOf(q, {61})
                 IN  <<PercentDecode(key), PercentDecode(RemovePrefix(q, Len(key) + 1))>>
      From[i \in 1 .. Len(s) + 2] ==
        IF i > Len(s) THEN <<>>
        ELSE LET q == FindFirstOf(RemovePrefix(s, i - 1), {38})
             IN  <<Pair(q)>> \o From[i + Len(q) + 1]
  IN  From[1]

Invalid == [ok |-> FALSE]

\* URI::Parse.
Parse(uri_text) ==
  LET scheme == FindFirstOf(uri_text, {58})
      rest   == RemovePrefix(uri_text, Len(scheme) + 1)
      slashes == StartsWith(rest, 47) /\ StartsWith(RemovePrefix(rest, 1), 47)
      auth   == IF slashes THEN FindFirstOf(RemovePrefix(rest, 2), {47, 63, 35}) ELSE <<>>
      rest2  == IF slashes THEN RemovePrefix(rest, 2 + Len(auth)) ELSE rest
      path   == FindFirstOf(rest2, {63, 35})
      rest3  == RemovePrefix(rest2, Len(path))
      asks   == StartsWith(rest3, 63)
      query  == IF asks THEN FindFirstOf(RemovePrefix(rest3, 1), {35}) ELSE <<>>
      rest4  == IF asks THEN RemovePrefix(rest3, 1 + Len(query)) ELSE rest3
      fragment == IF StartsWith(rest4, 35) THEN RemovePrefix(rest4, 1) ELSE <<>>
  IN  IF \/ scheme = <<>> \/ scheme = uri_text
         \/ \E i \in 1 .. Len(scheme) : scheme[i] \notin kURISchemeUnreseredChars
         \/ scheme[1] \notin Alpha
         \/ asks /\ (query = <<>> \/ ~IsQueryOrFragmentString(query))
         \/ ~IsQueryOrFragmentString(fragment)
      THEN Invalid
      ELSE [ok |-> TRUE, scheme |-> scheme, authority |-> PercentDecode(auth),
            path |-> PercentDecode(path), query |-> QueryPairs(query),
            fragment |-> PercentDecode(fragment)]

\* URI::Create.
Create(scheme, authority, path, query, fragment) ==
  IF authority # <<>> /\ path # <<>> /\ path[1] # 47 THEN Invalid
  ELSE [ok |-> TRUE, scheme |-> scheme, authority |-> authority, path |-> path,
        query |-> query, fragment |-> fragment]

\* Mutant: a value keeps its ampersands.
QueryTextRaw(query) ==
  LET Upto[i \in 0 .. Len(query)] ==
        IF i = 0 THEN <<>>
        ELSE Upto[i - 1] \o PercentEncode(query[i][1], kURIQueryKVUnreseredChars) \o <<61>>
               \o PercentEncode(query[i][2], kURIFragmentUnreseredChars) \o <<38>>
  IN  IF query = <<>> THEN <<>> ELSE <<63>> \o Upto[Len(query)]

\* The loop of ToString over the query, each pair followed by an ampersand.
QueryText(query) ==
  LET Upto[i \in 0 .. Len(query)] ==
        IF i = 0 THEN <<>>
        ELSE Upto[i - 1] \o PercentEncode(query[i][1], kURIQueryKVUnreseredChars) \o <<61>>
               \o PercentEncode(query[i][2], kURIQueryKVUnreseredChars) \o <<38>>
  IN  IF query = <<>> THEN <<>> ELSE <<63>> \o Upto[Len(query)]

\* URI::ToString: an ampersand at the end is dropped, be it the query's or not.
ToString(u) ==
  LET text == PercentEncode(u.scheme, kURISchemeUnreseredChars) \o <<58>>
              \o (IF u.authority = <<>> THEN <<>>
                  ELSE <<47, 47>> \o PercentEncode(u.authority, kURIAuthUnreservedChars))
              \o PercentEncode(u.path, kURIPathUnreservedChars)
              \o QueryText(u.query)
      cut  == IF text[Len(text)] = 38 THEN SubSeq(text, 1, Len(text) - 1) ELSE text
  IN  IF u.fragment = <<>> THEN cut
      ELSE cut \o <<35>> \o PercentEncode(u.fragment, kURIFragmentUnreseredChars)

-----------------------------------------------------------------------------
(* Properties *)

(***************************************************************************)
(* PercentDecode gives back every string that PercentEncode escaped, for   *)
(* each set of characters, bytes above 127 included.                       *)
(***************************************************************************)
DecodesBack(s) ==
  \A set \in {kURIUnreservedChars, kURIPathUnreservedChars, kURIAuthUnreservedChars,
              kURISchemeUnreseredChars, kURIQueryKVUnreseredChars,
              kURIFragmentUnreseredChars} :
    PercentDecode(PercentEncode(s, set)) = s

\* The URIs whose text says something else.
Ambiguous(u) ==
  \/ \* the path is taken for an authority
     u.authority = <<>> /\ Len(u.path) >= 2 /\ u.path[1] = 47 /\ u.path[2] = 47
  \/ \* ToString drops the ampersand
     /\ u.query = <<>>
     /\ \/ u.path # <<>> /\ u.path[Len(u.path)] = 38
        \/ u.path = <<>> /\ u.authority # <<>> /\ u.authority[Len(u.authority)] = 38

(***************************************************************************)
(* What Parse returns, Create makes of its parts too, and Parse of         *)
(* ToString of it is that URI again, apart from the two ambiguous forms.   *)
(***************************************************************************)
ParsesBack(u) ==
  u.ok => /\ Create(u.scheme, u.authority, u.path, u.query, u.fragment) = u
          /\ ~Ambiguous(u) => Parse(ToString(u)) = u

=============================================================================
