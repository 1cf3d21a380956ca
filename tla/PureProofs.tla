----------------------------- MODULE PureProofs -----------------------------
(***************************************************************************)
(* What the algorithms without state compute, for every input: the         *)
(* arithmetic of Time keeps a deadline, for the real ranges of int64_t and *)
(* int as for any other, PercentDecode undoes PercentEncode, Parse undoes  *)
(* ToString, and HTTPParser takes every message apart as its lines say, in *)
(* whatever pieces it comes.  The loops over strings are recursive         *)
(* functions; that they have a value is itself shown by induction          *)
(* (SequenceFacts!UpTo and DownFrom), which extends a function that is     *)
(* right up to a position by one position.                                 *)
(***************************************************************************)
EXTENDS MCPure, SequenceFacts, TLAPS

-----------------------------------------------------------------------------
(* Time *)

\* A value that its type can hold is kept.
LEMMA SignedIdentity ==
  ASSUME NEW half \in Nat, half > 0,
         NEW x \in Int, - half <= x, x < half
  PROVE  Signed(x, half) = x
<1>1. x + half \in 0 .. (2 * half - 1)
  OBVIOUS
<1>2. (x + half) % (2 * half) = x + half
  BY <1>1
<1> QED
  BY <1>2 DEF Signed

\* Rounding down to a millisecond loses less than one.
LEMMA RoundsDown ==
  ASSUME NEW d \in Nat, NEW u \in Nat, u > 0
  PROVE  /\ d \div u \in Nat
         /\ u * (d \div u) <= d
         /\ d < u * (d \div u) + u
<1>1. d = u * (d \div u) + (d % u) /\ d % u \in 0 .. (u - 1) /\ d \div u \in Int
  OBVIOUS
<1>2. d \div u \in Nat
  OBVIOUS
<1> QED
  BY <1>1, <1>2

\* A positive factor cancels.
LEMMA Cancel ==
  ASSUME NEW u \in Nat, u > 0, NEW m \in Nat, NEW n \in Nat, u * m < u * n
  PROVE  m < n
<1>1. SUFFICES ASSUME n <= m PROVE u * n <= u * m
  OBVIOUS
<1>2. PICK k \in Nat : m = n + k
  <2>1. m - n \in Nat /\ m = n + (m - n)
    BY <1>1
  <2> QED BY <2>1
<1>3. u * m = u * n + u * k /\ u * k \in Nat /\ u * n \in Nat
  BY <1>2
<1> QED
  BY <1>3

(***************************************************************************)
(* For every width of the types and every three times, epoll_wait sleeps   *)
(* until the deadline to the millisecond and never spins, if the deadline  *)
(* does not overflow and int can count the milliseconds to it              *)
(* (TimerInit, TimerCheck, IOManager::Run, IOPoller::Poll).                *)
(***************************************************************************)
THEOREM DeadlineKept ==
  ASSUME NEW now \in Nat, NEW timeout \in Nat, NEW later \in Nat
  PROVE  ServedInTime(now, timeout, later)
<1> DEFINE deadline == now + timeout
           d == deadline - later
<1> SUFFICES ASSUME deadline < kInfiniteTimeUs, later < deadline, d < IntHalf * UsPerMs
             PROVE  LET sleep == EpollTimeout(RunTimeout(CheckTimeout(
                                               Deadline(now, timeout), later)))
                    IN  /\ sleep > 0
                        /\ later + sleep * UsPerMs
                             \in (deadline - UsPerMs + 1) .. (deadline + UsPerMs - 1)
  BY DEF ServedInTime
<1>1. /\ Int64Half \in Nat /\ IntHalf \in Nat /\ 2 <= IntHalf /\ IntHalf <= Int64Half
      /\ UsPerMs \in Nat /\ 0 < UsPerMs /\ UsPerMs < Int64Half
  BY TimeAssumption
<1>2. d \in Nat /\ 0 < d /\ d < kInfiniteTimeUs /\ kInfiniteTimeUs = Int64Half - 1
  BY <1>1 DEF kInfiniteTimeUs
<1>3. CheckTimeout(Deadline(now, timeout), later) = d
  <2>1. Deadline(now, timeout) = deadline
    BY <1>1, <1>2, SignedIdentity DEF Deadline, Plus
  <2>2. Minus(deadline, later) = d
    BY <1>1, <1>2, SignedIdentity DEF Minus
  <2> QED BY <1>2, <2>1, <2>2 DEF CheckTimeout
<1> DEFINE r == IF d < UsPerMs THEN UsPerMs ELSE d
<1>4. RunTimeout(d) = r
  <2>1. FromMilliseconds(1) = UsPerMs
    BY <1>1, SignedIdentity DEF FromMilliseconds
  <2> QED BY <1>1, <1>2, <2>1 DEF RunTimeout
<1>5. r \in Nat /\ r >= UsPerMs /\ r >= d
  BY <1>1, <1>2
<1>6. PICK q \in Nat : q = r \div UsPerMs /\ UsPerMs * q <= r /\ r < UsPerMs * q + UsPerMs
  <2> HIDE DEF r
  <2> QED BY <1>1, <1>5, RoundsDown
<1>7. 0 < q /\ q < IntHalf
  <2>1. q # 0
    BY <1>1, <1>5, <1>6
  <2>2. r < UsPerMs * IntHalf
    <3>1. CASE d < UsPerMs
      <4>1. UsPerMs * 2 <= UsPerMs * IntHalf
        <5>1. PICK k \in Nat : IntHalf = 2 + k
          <6>1. IntHalf - 2 \in Nat /\ IntHalf = 2 + (IntHalf - 2)
            BY <1>1
          <6> QED BY <6>1
        <5>2. UsPerMs * IntHalf = UsPerMs * 2 + UsPerMs * k /\ UsPerMs * k \in Nat
          BY <1>1, <5>1
        <5> QED BY <1>1, <5>2
      <4>2. UsPerMs * IntHalf \in Nat
        BY <1>1
      <4> QED BY <1>1, <3>1, <4>1, <4>2
    <3>2. CASE ~(d < UsPerMs)
      BY <1>1, <3>2
    <3> QED BY <3>1, <3>2
  <2>3. UsPerMs * q < UsPerMs * IntHalf
    <3> HIDE DEF r
    <3> QED BY <1>1, <1>5, <1>6, <2>2
  <2> QED BY <1>1, <2>1, <2>3, Cancel
<1>8. EpollTimeout(r) = q
  <2> HIDE DEF r
  <2>1. ToMilliseconds(r) = q
    BY <1>5, <1>6 DEF ToMilliseconds
  <2>2. Signed(q, IntHalf) = q
    BY <1>1, <1>7, SignedIdentity
  <2> QED BY <1>5, <2>1, <2>2 DEF EpollTimeout
<1>9. later + q * UsPerMs \in (deadline - UsPerMs + 1) .. (deadline + UsPerMs - 1)
  <2>1. PICK p \in Nat : p = UsPerMs * q /\ p = q * UsPerMs /\ UsPerMs <= p
    <3>1. PICK k \in Nat : q = 1 + k
      <4>1. q - 1 \in Nat /\ q = 1 + (q - 1)
        BY <1>7
      <4> QED BY <4>1
    <3>2. UsPerMs * q = UsPerMs + UsPerMs * k /\ UsPerMs * k \in Nat /\ UsPerMs * q = q * UsPerMs
      BY <1>1, <3>1
    <3> QED BY <1>1, <3>2
  <2>2. p <= r /\ r < p + UsPerMs
    BY <1>6, <2>1
  <2> QED BY <1>1, <1>2, <2>1, <2>2
<1> QED
  BY <1>3, <1>4, <1>7, <1>8, <1>9

-----------------------------------------------------------------------------
\* A timer is started at a time, for a time, and looked at later.
TimesInv == kind = "time" => \E now, timeout, later \in Nat : input = <<now, timeout, later>>

(***************************************************************************)
(* The conversions between Timer::Start and epoll_wait keep the deadline,  *)
(* for all the times that the run of MCPure enumerates and with types of   *)
(* any range.                                                              *)
(***************************************************************************)
THEOREM EpollInTime == Spec => []EpollKeepsDeadline
<1>1. Init => TimesInv
  BY TimeAssumption DEF Init, TimesInv, kInfiniteTimeUs
<1>2. TimesInv /\ [Next]_<<kind, input, pieces, parser>> => TimesInv'
  <2> SUFFICES ASSUME TimesInv, [Next]_<<kind, input, pieces, parser>>, kind' = "time"
               PROVE  \E now, timeout, later \in Nat : input' = <<now, timeout, later>>
    BY DEF TimesInv
  <2>1. CASE AddPiece
    BY <2>1 DEF AddPiece
  <2>2. CASE Tick
    <3>1. PICK now, timeout, later \in Nat : input = <<now, timeout, later>>
      BY <2>2 DEF Tick, TimesInv
    <3>2. input' = <<now, timeout, later + 1>>
      BY <2>2, <3>1 DEF Tick
    <3> QED BY <3>2
  <2>3. CASE UNCHANGED <<kind, input, pieces, parser>>
    BY <2>3 DEF TimesInv
  <2> QED BY <2>1, <2>2, <2>3 DEF Next
<1>3. TimesInv => EpollKeepsDeadline
  <2> SUFFICES ASSUME TimesInv, kind = "time"
               PROVE  ServedInTime(input[1], input[2], input[3])
    BY DEF EpollKeepsDeadline
  <2>1. PICK now, timeout, later \in Nat : input = <<now, timeout, later>>
    BY DEF TimesInv
  <2>2. ServedInTime(now, timeout, later)
    BY DeadlineKept
  <2> QED BY <2>1, <2>2
<1> QED
  BY <1>1, <1>2, <1>3, PTL DEF Spec

-----------------------------------------------------------------------------
(* PercentEncode joins the codes of the bytes *)

\* What a string is made of.
Byte == 0..255

\* A hexadecimal digit is read as it was written.
LEMMA HexBack ==
  ASSUME NEW x \in 0..15
  PROVE  /\ U!IntToHexDigit(x) \in Byte /\ U!IsXDigit(U!IntToHexDigit(x))
         /\ U!HexDigitToInt(U!IntToHexDigit(x)) = x
<1>1. CASE x < 10
  <2>1. U!IntToHexDigit(x) = 48 + x
    BY <1>1 DEF U!IntToHexDigit
  <2> QED BY <1>1, <2>1 DEF U!HexDigitToInt, U!IsXDigit, Byte
<1>2. CASE x >= 10
  <2>1. U!IntToHexDigit(x) = 55 + x
    BY <1>2 DEF U!IntToHexDigit
  <2> QED BY <1>2, <2>1 DEF U!HexDigitToInt, U!IsXDigit, Byte
<1> QED BY <1>1, <1>2

\* The g[i] are the concatenations of the first i of the codes.
Joins(g, codes, n, B) ==
  /\ g \in [0..n -> Seq(B)] /\ g[0] = <<>>
  /\ \A i \in 1..n : g[i] = g[i - 1] \o codes[i]

\* The concatenations of a list of strings exist.
LEMMA Concatenations ==
  ASSUME NEW B, NEW n \in Nat, NEW codes \in [1..n -> Seq(B)]
  PROVE  \E g : Joins(g, codes, n, B)
<1> DEFINE Good(m, g) == /\ g \in [0..m -> Seq(B)] /\ g[0] = <<>>
                         /\ \A i \in 1..m : g[i] = g[i - 1] \o codes[i]
           S == {m \in 0..n : \E g : Good(m, g)}
<1>1. 0 \in S
  <2>1. PICK e \in Seq(B) : e = <<>>
    BY EmptySeq, Zenon
  <2> DEFINE g == [i \in 0..0 |-> e]
  <2>2. Good(0, g)
    <3>1. g \in [0..0 -> Seq(B)] /\ g[0] = e
      OBVIOUS
    <3> HIDE DEF g
    <3> QED BY <2>1, <3>1
  <2>3. 0 \in 0..n
    OBVIOUS
  <2> HIDE DEF Good
  <2> QED BY <2>2, <2>3, Zenon
<1>2. ASSUME NEW m \in 1..n, m - 1 \in S
      PROVE  m \in S
  <2>1. PICK g : Good(m - 1, g)
    BY <1>2
  <2> DEFINE h == [i \in 0..m |-> IF i < m THEN g[i] ELSE g[m - 1] \o codes[m]]
  <2>2. h \in [0..m -> Seq(B)]
    <3>1. g[m - 1] \in Seq(B) /\ codes[m] \in Seq(B)
      BY <2>1
    <3>2. g[m - 1] \o codes[m] \in Seq(B)
      BY <3>1
    <3> QED BY <2>1, <3>2
  <2>3. h[0] = <<>>
    BY <2>1
  <2>4. ASSUME NEW i \in 1..m
        PROVE  h[i] = h[i - 1] \o codes[i]
    <3>1. h[i - 1] = g[i - 1] /\ h[i] = IF i < m THEN g[i] ELSE g[m - 1] \o codes[m]
      OBVIOUS
    <3>2. ASSUME i < m
          PROVE  g[i] = g[i - 1] \o codes[i]
      <4>1. i \in 1..(m - 1)
        BY <3>2
      <4> QED BY <2>1, <4>1, Zenon
    <3>3. ~(i < m) => i = m
      OBVIOUS
    <3> HIDE DEF h
    <3> QED BY <3>1, <3>2, <3>3
  <2> HIDE DEF h
  <2>5. Good(m, h)
    BY <2>2, <2>3, <2>4, Zenon
  <2>6. m \in 0..n
    OBVIOUS
  <2> HIDE DEF Good
  <2> QED BY <2>5, <2>6, Zenon
<1> HIDE DEF S
<1>3. n \in S
  <2>1. n \in 0..n
    OBVIOUS
  <2> QED BY <1>1, <1>2, <2>1, UpTo
<1> QED BY <1>3, Zenon DEF S, Joins

\* The string a and then the string b.
Then(a, b, whole) ==
  /\ Len(whole) = Len(a) + Len(b) /\ Len(a) \in Nat /\ Len(b) \in Nat
  /\ \A k \in 1 .. Len(a) : whole[k] = a[k]
  /\ \A k \in 1 .. Len(b) : whole[Len(a) + k] = b[k]

\* That is what \o does.
LEMMA ThenIs ==
  ASSUME NEW B, NEW a \in Seq(B), NEW b \in Seq(B)
  PROVE  Then(a, b, a \o b)
BY DEF Then

\* Each is the one before and then a code.
LEMMA JoinStep ==
  ASSUME NEW B, NEW n \in Nat, NEW codes \in [1..n -> Seq(B)], NEW g, Joins(g, codes, n, B),
         NEW i \in 1..n
  PROVE  Then(g[i - 1], codes[i], g[i])
<1>1. g[i - 1] \in Seq(B) /\ codes[i] \in Seq(B)
  <2>1. i - 1 \in 0..n
    OBVIOUS
  <2> QED BY <2>1, Zenon DEF Joins
<1>2. g[i] = g[i - 1] \o codes[i]
  BY Zenon DEF Joins
<1> QED BY <1>1, <1>2, ThenIs

\* The string b begins with a.
Begins(a, b) == Len(a) <= Len(b) /\ \A k \in 1 .. Len(a) : b[k] = a[k]

\* What is in one of them stays in the later ones.
LEMMA JoinPrefix ==
  ASSUME NEW B, NEW n \in Nat, NEW codes \in [1..n -> Seq(B)], NEW g, Joins(g, codes, n, B),
         NEW i \in 0..n
  PROVE  Begins(g[i], g[n])
<1> DEFINE Kept(j) == /\ Len(g[i]) <= Len(g[j])
                      /\ \A k \in 1 .. Len(g[i]) : g[j][k] = g[i][k]
           S == {j \in 0..n : i <= j => Kept(j)}
<1>0. \A j \in 0..n : g[j] \in Seq(B) /\ Len(g[j]) \in Nat
  BY DEF Joins
<1>1. 0 \in S
  <2>1. i <= 0 => i = 0
    OBVIOUS
  <2> QED BY <1>0, <2>1
<1>2. ASSUME NEW j \in 1..n, j - 1 \in S
      PROVE  j \in S
  <2>1. CASE i <= j - 1
    <3>1. Kept(j - 1)
      BY <1>2, <2>1
    <3>2. /\ Len(g[j]) = Len(g[j - 1]) + Len(codes[j]) /\ Len(codes[j]) \in Nat
          /\ \A k \in 1 .. Len(g[j - 1]) : g[j][k] = g[j - 1][k]
      <4>1. Then(g[j - 1], codes[j], g[j])
        BY JoinStep
      <4> QED BY <4>1, Zenon DEF Then
    <3>3. j - 1 \in 0..n /\ j \in 0..n
      OBVIOUS
    <3>4. Len(g[i]) \in Nat /\ Len(g[j - 1]) \in Nat
      BY <1>0, <3>3
    <3>5. Kept(j)
      BY <3>1, <3>2, <3>4
    <3> QED BY <3>3, <3>5
  <2>2. CASE i = j
    BY <1>0, <2>2
  <2>3. CASE i > j
    BY <2>3
  <2> QED BY <2>1, <2>2, <2>3
<1> HIDE DEF S
<1>3. n \in S
  <2>1. n \in 0..n
    OBVIOUS
  <2> QED BY <1>1, <1>2, <2>1, UpTo
<1>4. i <= n
  OBVIOUS
<1> QED BY <1>3, <1>4, Zenon DEF S, Begins

\* PercentEncode joins what it makes of each byte.
Code(c, set) == IF c \in set THEN <<c>>
                ELSE <<37, U!IntToHexDigit(c \div 16), U!IntToHexDigit(c % 16)>>
Codes(s, set) == [i \in 1 .. Len(s) |-> Code(s[i], set)]

\* The codes are strings.
LEMMA CodesAre ==
  ASSUME NEW s \in Seq(Byte), NEW set
  PROVE  Codes(s, set) \in [1 .. Len(s) -> Seq(Byte)]
<1>1. ASSUME NEW c \in Byte
      PROVE  Code(c, set) \in Seq(Byte)
  <2>1. c \div 16 \in 0..15 /\ c % 16 \in 0..15
    BY DEF Byte
  <2>2. U!IntToHexDigit(c \div 16) \in Byte /\ U!IntToHexDigit(c % 16) \in Byte
    BY <2>1, HexBack
  <2>3. 37 \in Byte
    BY DEF Byte
  <2> QED BY <2>2, <2>3 DEF Code
<1>2. \A i \in 1 .. Len(s) : s[i] \in Byte
  OBVIOUS
<1> QED BY <1>1, <1>2 DEF Codes

\* PercentEncode is the last of their concatenations.
LEMMA EncodeJoins ==
  ASSUME NEW B, NEW s \in Seq(Byte), NEW set,
         Codes(s, set) \in [1 .. Len(s) -> Seq(B)]
  PROVE  \E g : /\ Joins(g, Codes(s, set), Len(s), B)
                /\ U!PercentEncode(s, set) = g[Len(s)]
<1> DEFINE n == Len(s)
           codes == Codes(s, set)
           F(f) == [i \in 0 .. Len(s) |-> IF i = 0 THEN <<>> ELSE f[i - 1] \o Code(s[i], set)]
           Upto == CHOOSE f : f = F(f)
<1>1. n \in Nat /\ n \in 0..n /\ codes \in [1..n -> Seq(B)]
  OBVIOUS
<1>2. \A i \in 1..n : codes[i] = Code(s[i], set)
  BY DEF Codes
<1> HIDE DEF codes
<1>3. PICK g : Joins(g, codes, n, B)
  BY <1>1, Concatenations
<1>4. U!PercentEncode(s, set) = Upto[n]
  BY Zenon DEF U!PercentEncode, Code
<1>5. g = F(g)
  <2>1. \A i \in 0..n : g[i] = IF i = 0 THEN <<>> ELSE g[i - 1] \o Code(s[i], set)
    <3>1. \A i \in 0..n : i # 0 => i \in 1..n
      BY <1>1
    <3> QED BY <1>2, <1>3, <3>1, Zenon DEF Joins
  <2>2. g = [i \in 0..n |-> g[i]]
    BY <1>3 DEF Joins
  <2> QED BY <2>1, <2>2
<1>6. Upto = F(Upto)
  <2> HIDE DEF F
  <2> QED BY <1>5
<1> HIDE DEF Upto
<1>7. Upto[n] = g[n]
  <2> DEFINE S == {i \in 0..n : Upto[i] = g[i]}
  <2>1. 0 \in S
    BY <1>1, <1>3, <1>6 DEF Joins
  <2>2. ASSUME NEW i \in 1..n, i - 1 \in S
        PROVE  i \in S
    <3>1. Upto[i - 1] = g[i - 1] /\ i \in 0..n /\ i # 0
      BY <2>2
    <3>2. Upto[i] = Upto[i - 1] \o Code(s[i], set)
      BY <1>6, <3>1
    <3>3. g[i] = g[i - 1] \o Code(s[i], set)
      BY <1>5, <3>1
    <3> QED BY <3>1, <3>2, <3>3
  <2> HIDE DEF S
  <2>3. n \in S
    BY <1>1, <2>1, <2>2, UpTo
  <2> QED BY <2>3 DEF S
<1> HIDE DEF F
<1> QED BY <1>3, <1>4, <1>7 DEF codes

-----------------------------------------------------------------------------
(* PercentDecode goes from the end of the text to its start *)

\* An escape begins at position i.
EscapeAt(src, i) == /\ i + 2 <= Len(src) /\ src[i] = 37
                    /\ U!IsXDigit(src[i + 1]) /\ U!IsXDigit(src[i + 2])

\* PercentDecode from position i on, when f is that from the later ones.
Decoded(src, f, i) ==
  IF i > Len(src) THEN <<>>
  ELSE IF EscapeAt(src, i)
  THEN <<U!HexDigitToInt(src[i + 1]) * 16 + U!HexDigitToInt(src[i + 2])>> \o f[i + 3]
  ELSE <<src[i]>> \o f[i + 1]

\* It depends on the later positions only.
LEMMA DecodedLater ==
  ASSUME NEW src, NEW L \in Nat, L = Len(src), NEW f, NEW g, NEW i \in 1..(L + 1),
         \A j \in (i + 1)..(L + 1) : f[j] = g[j]
  PROVE  Decoded(src, f, i) = Decoded(src, g, i)
<1>1. CASE i > L
  BY <1>1 DEF Decoded
<1>2. CASE i <= L /\ EscapeAt(src, i)
  <2>1. f[i + 3] = g[i + 3]
    BY <1>2 DEF EscapeAt
  <2> QED BY <1>2, <2>1 DEF Decoded
<1>3. CASE i <= L /\ ~EscapeAt(src, i)
  <2>1. f[i + 1] = g[i + 1]
    BY <1>3
  <2> QED BY <1>3, <2>1 DEF Decoded
<1> QED BY <1>1, <1>2, <1>3

\* So there is a function that decodes from every position.
LEMMA DecodingExists ==
  ASSUME NEW src, NEW L \in Nat, L = Len(src)
  PROVE  \E g : \A i \in 1..(L + 1) : g[i] = Decoded(src, g, i)
<1> DEFINE Good(k, g) == \A i \in (k + 1)..(L + 1) : g[i] = Decoded(src, g, i)
           S == {k \in 0..L : \E g : Good(k, g)}
<1>1. L \in S
  <2> DEFINE g == [i \in {L + 1} |-> <<>>]
  <2>1. ASSUME NEW i \in (L + 1)..(L + 1)
        PROVE  g[i] = Decoded(src, g, i)
    <3>1. i = L + 1 /\ i > L
      OBVIOUS
    <3>2. g[i] = <<>>
      BY <3>1
    <3> HIDE DEF g
    <3> QED BY <3>1, <3>2 DEF Decoded
  <2> HIDE DEF g
  <2>2. L \in 0..L
    OBVIOUS
  <2> QED BY <2>1, <2>2, Zenon
<1>2. ASSUME NEW k \in 0..(L - 1), \A j \in (k + 1)..L : j \in S
      PROVE  k \in S
  <2>1. PICK g : Good(k + 1, g)
    <3>1. k + 1 \in (k + 1)..L
      OBVIOUS
    <3> HIDE DEF Good
    <3> QED BY <1>2, <3>1, Zenon
  <2> DEFINE h == [i \in (k + 1)..(L + 1) |-> IF i = k + 1 THEN Decoded(src, g, k + 1) ELSE g[i]]
  <2>2. \A i \in (k + 2)..(L + 1) : h[i] = g[i]
    OBVIOUS
  <2>3. h[k + 1] = Decoded(src, g, k + 1)
    OBVIOUS
  <2> HIDE DEF h
  <2>4. ASSUME NEW i \in (k + 1)..(L + 1)
        PROVE  h[i] = Decoded(src, h, i)
    <3>1. Decoded(src, h, i) = Decoded(src, g, i)
      <4>1. i \in 1..(L + 1) /\ \A j \in (i + 1)..(L + 1) : j \in (k + 2)..(L + 1)
        OBVIOUS
      <4>2. \A j \in (i + 1)..(L + 1) : h[j] = g[j]
        BY <2>2, <4>1, Zenon
      <4> QED BY <4>1, <4>2, DecodedLater
    <3>2. CASE i = k + 1
      BY <2>3, <3>1, <3>2
    <3>3. CASE i # k + 1
      <4>1. i \in (k + 2)..(L + 1) /\ i \in (k + 1 + 1)..(L + 1)
        BY <3>3
      <4> QED BY <2>1, <2>2, <3>1, <4>1, Zenon
    <3> QED BY <3>2, <3>3
  <2>5. k \in 0..L
    OBVIOUS
  <2> QED BY <2>4, <2>5, Zenon
<1> HIDE DEF S
<1>3. 0 \in S
  <2>1. 0 \in 0..L
    OBVIOUS
  <2> QED BY <1>1, <1>2, <2>1, DownFrom
<1>4. PICK g : Good(0, g)
  BY <1>3, Zenon DEF S
<1>5. 0 + 1 = 1
  OBVIOUS
<1> QED BY <1>4, <1>5

\* PercentDecode is such a function, at the first position.
LEMMA DecodeIs ==
  ASSUME NEW src, NEW L \in Nat, L = Len(src)
  PROVE  \E f : /\ \A i \in 1..(L + 1) : f[i] = Decoded(src, f, i)
                /\ U!PercentDecode(src) = f[1]
<1> DEFINE F(f) == [i \in 1 .. Len(src) + 1 |-> Decoded(src, f, i)]
           From == CHOOSE f : f = F(f)
<1>1. PICK g : \A i \in 1..(L + 1) : g[i] = Decoded(src, g, i)
  BY DecodingExists
<1> DEFINE f == [i \in 1..(L + 1) |-> g[i]]
<1>2. f = F(f)
  <2>1. ASSUME NEW i \in 1..(L + 1)
        PROVE  f[i] = Decoded(src, f, i)
    <3>1. \A j \in (i + 1)..(L + 1) : f[j] = g[j]
      OBVIOUS
    <3>2. f[i] = g[i]
      OBVIOUS
    <3> HIDE DEF f
    <3> QED BY <1>1, <3>1, <3>2, DecodedLater
  <2>2. f = [i \in 1..(L + 1) |-> f[i]]
    OBVIOUS
  <2> HIDE DEF f
  <2> QED BY <2>1, <2>2
<1> HIDE DEF f
<1>3. From = F(From)
  <2> HIDE DEF F
  <2> QED BY <1>2
<1>4. U!PercentDecode(src) = From[1]
  BY Zenon DEF U!PercentDecode, Decoded, EscapeAt
<1> HIDE DEF From
<1>5. \A i \in 1..(L + 1) : From[i] = Decoded(src, From, i)
  BY <1>3
<1> QED BY <1>4, <1>5

\* The code stands in src after position i.
Stands(code, src, i) ==
  i + Len(code) <= Len(src) /\ \A k \in 1 .. Len(code) : src[i + k] = code[k]

\* One byte: where its code stands, decoding gives the byte and goes on after it.
LEMMA CodeDecoded ==
  ASSUME NEW c \in Byte, NEW set, 37 \notin set, NEW src, Len(src) \in Nat, NEW f,
         NEW i \in Nat, Stands(Code(c, set), src, i)
  PROVE  Decoded(src, f, i + 1) = <<c>> \o f[i + Len(Code(c, set)) + 1]
<1>0. PICK L, code : /\ L \in Nat /\ L = Len(src)
                     /\ code = Code(c, set) /\ i + Len(code) <= L
                     /\ \A k \in 1 .. Len(code) : src[i + k] = code[k]
  BY DEF Stands
<1>1. CASE c \in set
  <2>1. code = <<c>> /\ Len(code) = 1
    BY <1>0, <1>1 DEF Code
  <2>2. src[i + 1] = c /\ c # 37 /\ ~(i + 1 > L) /\ i + 1 + 1 = i + Len(code) + 1
    BY <1>0, <1>1, <2>1
  <2>3. ~EscapeAt(src, i + 1)
    BY <2>2 DEF EscapeAt
  <2> QED BY <1>0, <2>2, <2>3 DEF Decoded
<1>2. CASE c \notin set
  <2> DEFINE hi == c \div 16
             lo == c % 16
  <2>1. hi \in 0..15 /\ lo \in 0..15 /\ hi * 16 + lo = c
    BY DEF Byte
  <2> HIDE DEF hi, lo
  <2>2. code = <<37, U!IntToHexDigit(hi), U!IntToHexDigit(lo)>>
    BY <1>0, <1>2 DEF Code, hi, lo
  <2>3. Len(code) = 3 /\ code[1] = 37 /\ code[2] = U!IntToHexDigit(hi)
        /\ code[3] = U!IntToHexDigit(lo)
    BY <2>2
  <2>4. /\ src[i + 1] = 37 /\ src[i + 1 + 1] = U!IntToHexDigit(hi)
        /\ src[i + 1 + 2] = U!IntToHexDigit(lo)
        /\ i + 1 + 2 <= L /\ ~(i + 1 > L) /\ i + 1 + 3 = i + Len(code) + 1
    <3>1. src[i + 1] = code[1] /\ src[i + 2] = code[2] /\ src[i + 3] = code[3]
      BY <1>0, <2>3
    <3>2. i + 1 + 1 = i + 2 /\ i + 1 + 2 = i + 3
      OBVIOUS
    <3> QED BY <1>0, <2>3, <3>1, <3>2
  <2>5. /\ U!IsXDigit(U!IntToHexDigit(hi)) /\ U!HexDigitToInt(U!IntToHexDigit(hi)) = hi
        /\ U!IsXDigit(U!IntToHexDigit(lo)) /\ U!HexDigitToInt(U!IntToHexDigit(lo)) = lo
    BY <2>1, HexBack
  <2>6. EscapeAt(src, i + 1)
    BY <1>0, <2>4, <2>5 DEF EscapeAt
  <2>7. Decoded(src, f, i + 1) = <<hi * 16 + lo>> \o f[i + 1 + 3]
    BY <1>0, <2>4, <2>5, <2>6 DEF Decoded
  <2> QED BY <1>0, <2>1, <2>4, <2>7
<1> QED BY <1>1, <1>2

\* The lengths of a code.
LEMMA CodeLength ==
  ASSUME NEW c, NEW set
  PROVE  Len(Code(c, set)) \in {1, 3}
<1>1. CASE c \in set
  BY <1>1 DEF Code
<1>2. CASE c \notin set
  BY <1>2 DEF Code
<1> QED BY <1>1, <1>2

\* A string without its first i bytes begins with the next.
LEMMA RestBegins ==
  ASSUME NEW B, NEW s \in Seq(B), NEW i \in Nat, i < Len(s)
  PROVE  <<s[i + 1]>> \o SubSeq(s, i + 2, Len(s)) = SubSeq(s, i + 1, Len(s))
<1> DEFINE a == <<s[i + 1]>>
           b == SubSeq(s, i + 2, Len(s))
           c == SubSeq(s, i + 1, Len(s))
           n == Len(s) - i
<1>1. /\ a \in Seq(B) /\ Len(a) = 1 /\ a[1] = s[i + 1]
  OBVIOUS
<1>2. b \in Seq(B) /\ Len(b) = n - 1 /\ \A k \in 1..(n - 1) : b[k] = s[i + 1 + k]
  OBVIOUS
<1>3. c \in Seq(B) /\ Len(c) = n /\ \A k \in 1..n : c[k] = s[i + k]
  OBVIOUS
<1>4. n \in Nat /\ n >= 1
  OBVIOUS
<1> HIDE DEF a, b, c, n
<1>5. a \o b \in Seq(B) /\ Len(a \o b) = n /\ \A k \in 1..n : (a \o b)[k] = s[i + k]
  <2>1. Then(a, b, a \o b) /\ a \o b \in Seq(B)
    BY <1>1, <1>2, ThenIs
  <2>2. Len(a \o b) = n /\ (a \o b)[1] = s[i + 1]
    BY <1>1, <1>2, <1>4, <2>1 DEF Then
  <2>3. ASSUME NEW k \in 2..n
        PROVE  (a \o b)[k] = s[i + k]
    <3>1. k - 1 \in 1 .. Len(b) /\ Len(a) + (k - 1) = k /\ i + 1 + (k - 1) = i + k
          /\ k - 1 \in 1..(n - 1)
      BY <1>1, <1>2, <1>4
    <3>2. (a \o b)[Len(a) + (k - 1)] = b[k - 1]
      BY <2>1, <3>1 DEF Then
    <3>3. b[k - 1] = s[i + 1 + (k - 1)]
      BY <1>2, <3>1
    <3> QED BY <3>1, <3>2, <3>3
  <2>4. \A k \in 1..n : k = 1 \/ k \in 2..n
    BY <1>4
  <2> QED BY <2>1, <2>2, <2>3, <2>4
<1>6. a \o b = c
  <2>1. \A k \in 1..n : (a \o b)[k] = c[k]
    BY <1>3, <1>5
  <2>2. PICK d \in Seq(B) : d = a \o b
    BY <1>5
  <2> QED BY <1>3, <1>5, <2>1, <2>2, SeqEqual
<1> QED BY <1>6 DEF a, b, c

(***************************************************************************)
(* Decoding what PercentEncode made of a string gives the string: from the *)
(* end of the code of byte i on it gives the bytes after i.                *)
(***************************************************************************)
LEMMA DecodesAny ==
  ASSUME NEW s \in Seq(Byte), NEW set, 37 \notin set
  PROVE  U!PercentDecode(U!PercentEncode(s, set)) = s
<1> DEFINE n == Len(s)
           codes == Codes(s, set)
           src == U!PercentEncode(s, set)
<1>1. n \in Nat /\ codes \in [1..n -> Seq(Byte)]
  BY CodesAre
<1>2. \A i \in 1..n : codes[i] = Code(s[i], set)
  BY DEF Codes
<1>3. PICK g : Joins(g, codes, n, Byte) /\ src = g[n]
  BY <1>1, EncodeJoins
<1> HIDE DEF codes, src, n
<1>4. \A i \in 0..n : g[i] \in Seq(Byte) /\ Len(g[i]) \in Nat
  BY <1>3 DEF Joins
<1>5. PICK L \in Nat : L = Len(src)
  <2>1. n \in 0..n
    BY <1>1
  <2> QED BY <1>3, <1>4, <2>1
<1>6. PICK f : /\ \A i \in 1..(L + 1) : f[i] = Decoded(src, f, i)
               /\ U!PercentDecode(src) = f[1]
  BY <1>5, DecodeIs
<1> DEFINE S == {i \in 0..n : f[Len(g[i]) + 1] = SubSeq(s, i + 1, n)}
<1>7. n \in S
  <2>1. f[L + 1] = <<>>
    <3>1. L + 1 \in 1..(L + 1) /\ L + 1 > L
      OBVIOUS
    <3> QED BY <1>5, <1>6, <3>1 DEF Decoded
  <2>2. SubSeq(s, n + 1, n) = <<>>
    BY <1>1 DEF n
  <2>3. n \in 0..n
    BY <1>1
  <2> QED BY <1>3, <1>5, <2>1, <2>2, <2>3
<1>8. ASSUME NEW i \in 0..(n - 1), \A j \in (i + 1)..n : j \in S
      PROVE  i \in S
  <2>1. i + 1 \in 1..n /\ i + 1 \in 0..n /\ i \in 0..n /\ i + 1 - 1 = i /\ i + 1 \in (i + 1)..n
    BY <1>1
  <2>2. f[Len(g[i + 1]) + 1] = SubSeq(s, i + 1 + 1, n)
    BY <1>8, <2>1
  <2>3. Then(g[i], codes[i + 1], g[i + 1])
    <3>1. PICK q \in 1..n : q = i + 1
      BY <2>1
    <3>2. Then(g[q - 1], codes[q], g[q])
      BY <1>1, <1>3, JoinStep
    <3>3. q - 1 = i
      BY <1>1, <3>1
    <3> QED BY <3>1, <3>2, <3>3
  <2>4. Len(g[i + 1]) <= L /\ \A k \in 1 .. Len(g[i + 1]) : src[k] = g[i + 1][k]
    <3>1. Begins(g[i + 1], g[n])
      BY <1>1, <1>3, <2>1, JoinPrefix
    <3> QED BY <1>3, <1>5, <3>1, Zenon DEF Begins
  <2>5. PICK p \in Nat, m \in Nat : p = Len(g[i]) /\ m = Len(codes[i + 1])
    BY <2>3 DEF Then
  <2>6. Len(g[i + 1]) = p + m /\ p + m <= L /\ \A k \in 1..m : g[i + 1][p + k] = codes[i + 1][k]
    BY <2>3, <2>4, <2>5 DEF Then
  <2>7. \A k \in 1..m : src[p + k] = codes[i + 1][k]
    <3>1. \A k \in 1..m : p + k \in 1 .. Len(g[i + 1])
      BY <2>6
    <3> QED BY <2>4, <2>6, <3>1
  <2>8. PICK c \in Byte : c = s[i + 1]
    BY <2>1 DEF n
  <2>9. Decoded(src, f, p + 1) = <<c>> \o f[p + m + 1]
    <3>1. codes[i + 1] = Code(c, set)
      BY <1>2, <2>1, <2>8
    <3>2. Stands(Code(c, set), src, p)
      BY <1>5, <2>5, <2>6, <2>7, <3>1 DEF Stands
    <3>3. Len(src) \in Nat
      BY <1>5
    <3>4. Decoded(src, f, p + 1) = <<c>> \o f[p + Len(Code(c, set)) + 1]
      BY <3>2, <3>3, CodeDecoded, Zenon
    <3>5. Len(Code(c, set)) = m
      BY <2>5, <3>1
    <3> QED BY <3>4, <3>5, Zenon
  <2>10. m >= 1
    <3>1. Code(c, set) = codes[i + 1]
      BY <1>2, <2>1, <2>8
    <3>2. m \in {1, 3}
      BY <2>5, <3>1, CodeLength, Zenon
    <3> QED BY <3>2
  <2>11. f[p + 1] = <<c>> \o f[p + m + 1]
    <3>1. p + 1 \in 1..(L + 1)
      BY <2>6, <2>10
    <3> QED BY <1>6, <2>9, <3>1
  <2>12. f[p + 1] = <<s[i + 1]>> \o SubSeq(s, i + 2, n)
    <3>1. i + 1 + 1 = i + 2
      BY <2>1
    <3> QED BY <2>2, <2>6, <2>8, <2>11, <3>1
  <2>13. <<s[i + 1]>> \o SubSeq(s, i + 2, n) = SubSeq(s, i + 1, n)
    <3>1. i \in Nat /\ i < n
      BY <1>1
    <3> QED BY <3>1, RestBegins DEF n
  <2> QED BY <2>1, <2>5, <2>12, <2>13
<1> HIDE DEF S
<1>9. 0 \in S
  <2>1. 0 \in 0..n
    BY <1>1
  <2> QED BY <1>1, <1>7, <1>8, <2>1, DownFrom
<1>10. f[1] = SubSeq(s, 1, n)
  <2>1. Len(g[0]) = 0
    BY <1>3 DEF Joins
  <2>2. f[Len(g[0]) + 1] = SubSeq(s, 0 + 1, n)
    BY <1>9 DEF S
  <2>3. 0 + 1 = 1
    OBVIOUS
  <2> QED BY <2>1, <2>2, <2>3
<1>11. SubSeq(s, 1, n) = s
  BY DEF n
<1> QED BY <1>6, <1>10, <1>11 DEF src

(***************************************************************************)
(* PercentDecode gives back every string that PercentEncode escaped, of    *)
(* any length and any bytes, for each of the sets of URI::ToString.        *)
(***************************************************************************)
THEOREM DecodingUndoesEncoding ==
  ASSUME NEW s \in Seq(Byte)
  PROVE  U!DecodesBack(s)
<1>1. /\ 37 \notin U!kURIUnreservedChars /\ 37 \notin U!kURIPathUnreservedChars
      /\ 37 \notin U!kURIAuthUnreservedChars /\ 37 \notin U!kURISchemeUnreseredChars
      /\ 37 \notin U!kURIQueryKVUnreseredChars /\ 37 \notin U!kURIFragmentUnreseredChars
  BY DEF U!kURIUnreservedChars, U!kURIPathUnreservedChars, U!kURIAuthUnreservedChars,
         U!kURISchemeUnreseredChars, U!kURIQueryKVUnreseredChars,
         U!kURIFragmentUnreseredChars, U!Alpha, U!Digits, U!Marks
<1> QED BY <1>1, DecodesAny DEF U!DecodesBack

-----------------------------------------------------------------------------
(* Cutting a text *)

\* No byte of a is in t.
FreeOf(a, t) == \A k \in 1 .. Len(a) : a[k] \notin t

\* The text b, if any, begins with a byte of t.
Delimited(b, t) == b # <<>> => b[1] \in t

\* FindFirstOf stops after m bytes if those are not in t, but the next one is.
LEMMA FindsFirst ==
  ASSUME NEW B, NEW s \in Seq(B), NEW t, NEW m \in 0 .. Len(s),
         \A k \in 1..m : s[k] \notin t, m < Len(s) => s[m + 1] \in t
  PROVE  U!FindFirstOf(s, t) = SubSeq(s, 1, m)
<1> DEFINE found == {i \in 1 .. Len(s) : s[i] \in t}
<1>0. Len(s) \in Nat /\ m \in Nat
  OBVIOUS
<1>1. CASE m = Len(s)
  <2>1. found = {}
    BY <1>0, <1>1
  <2>2. SubSeq(s, 1, m) = s
    BY <1>1
  <2> QED BY <2>1, <2>2 DEF U!FindFirstOf
<1>2. CASE m < Len(s)
  <2>1. m + 1 \in found /\ \A j \in found : j \in Nat /\ m + 1 <= j
    BY <1>0, <1>2
  <2> HIDE DEF found
  <2>2. PICK i : i = CHOOSE x \in found : \A y \in found : x <= y
    OBVIOUS
  <2>3. i \in found /\ \A j \in found : i <= j
    BY <2>1, <2>2
  <2>4. i - 1 = m
    BY <1>0, <2>1, <2>3
  <2>5. U!FindFirstOf(s, t) = SubSeq(s, 1, i - 1)
    <3>1. found # {}
      BY <2>1, Zenon
    <3> QED BY <2>2, <3>1, Zenon DEF U!FindFirstOf, found
  <2> QED BY <2>4, <2>5
<1> QED BY <1>0, <1>1, <1>2

\* FindFirstOf cuts s in two at the first byte of t.
Cut(s, t, a, b) ==
  s = a \o b /\ FreeOf(a, t) /\ Delimited(b, t) /\ U!FindFirstOf(s, t) = a

\* So it cuts every text.
LEMMA CutsText ==
  ASSUME NEW B, NEW s \in Seq(B), NEW t
  PROVE  \E a, b \in Seq(B) : Cut(s, t, a, b)
<1>1. PICK m \in 0 .. Len(s) : /\ \A k \in 1..m : s[k] \notin t
                               /\ m < Len(s) => s[m + 1] \in t
  <2> DEFINE T == {i \in 1 .. Len(s) : s[i] \in t}
  <2>1. CASE T = {}
    <3>1. Len(s) \in 0 .. Len(s) /\ \A k \in 1 .. Len(s) : s[k] \notin t
      BY <2>1
    <3> QED BY <3>1
  <2>2. CASE T # {}
    <3>1. T \in SUBSET Nat
      OBVIOUS
    <3>2. PICK x \in T : \A y \in T : x <= y
      <4> HIDE DEF T
      <4> QED BY <2>2, <3>1, LeastNatural
    <3>3. x - 1 \in 0 .. Len(s) /\ x - 1 + 1 = x /\ s[x] \in t
      BY <3>2
    <3>4. \A k \in 1..(x - 1) : s[k] \notin t
      BY <3>2
    <3> QED BY <3>3, <3>4
  <2> QED BY <2>1, <2>2
<1> DEFINE a == SubSeq(s, 1, m)
           b == SubSeq(s, m + 1, Len(s))
<1>2. a \in Seq(B) /\ b \in Seq(B)
  OBVIOUS
<1>3. s = a \o b
  <2>1. 1 \in 1 .. Len(s) + 1 /\ m \in 1 - 1 .. Len(s) /\ Len(s) \in m .. Len(s)
    OBVIOUS
  <2>2. a \o b = SubSeq(s, 1, Len(s))
    BY <2>1, ConcatAdjacentSubSeq
  <2>3. SubSeq(s, 1, Len(s)) = s
    BY SubSeqFull
  <2> QED BY <2>2, <2>3
<1>4. FreeOf(a, t)
  BY <1>1 DEF FreeOf
<1>5. Delimited(b, t)
  <2>1. ASSUME b # <<>>
        PROVE  m < Len(s) /\ b[1] = s[m + 1]
    BY <2>1
  <2> QED BY <1>1, <2>1 DEF Delimited
<1>6. U!FindFirstOf(s, t) = a
  BY <1>1, FindsFirst
<1> HIDE DEF a, b
<1> QED BY <1>2, <1>3, <1>4, <1>5, <1>6 DEF Cut

\* Before a delimiter, FindFirstOf gives back what was written there.
LEMMA CutsBack ==
  ASSUME NEW B, NEW a \in Seq(B), NEW b \in Seq(B), NEW t, FreeOf(a, t), Delimited(b, t)
  PROVE  U!FindFirstOf(a \o b, t) = a
<1>1. PICK s \in Seq(B) : s = a \o b
  <2>1. a \o b \in Seq(B)
    BY ConcatProperties
  <2> QED BY <2>1, Zenon
<1>2. Then(a, b, s)
  BY <1>1, ThenIs
<1>3. Len(a) \in 0 .. Len(s) /\ \A k \in 1 .. Len(a) : s[k] = a[k]
  BY <1>2 DEF Then
<1>4. \A k \in 1 .. Len(a) : s[k] \notin t
  BY <1>3 DEF FreeOf
<1>5. ASSUME Len(a) < Len(s)
      PROVE  s[Len(a) + 1] \in t
  <2>1. Len(b) > 0 /\ b # <<>>
    BY <1>2, <1>5 DEF Then
  <2>2. s[Len(a) + 1] = b[1]
    BY <1>2, <2>1 DEF Then
  <2> QED BY <2>1, <2>2 DEF Delimited
<1>6. U!FindFirstOf(s, t) = SubSeq(s, 1, Len(a))
  BY <1>3, <1>4, <1>5, FindsFirst
<1>7. SubSeq(s, 1, Len(a)) = a
  <2>1. PICK c \in Seq(B) : c = SubSeq(s, 1, Len(a)) /\ Len(c) = Len(a)
                            /\ \A k \in 1 .. Len(a) : c[k] = s[k]
    BY <1>3
  <2>2. \A k \in 1 .. Len(a) : c[k] = a[k]
    BY <1>3, <2>1
  <2> QED BY <2>1, <2>2, SeqEqual
<1> QED BY <1>1, <1>6, <1>7

\* RemovePrefix leaves what follows.
LEMMA Removes ==
  ASSUME NEW B, NEW a \in Seq(B), NEW b \in Seq(B), NEW n, n = Len(a)
  PROVE  U!RemovePrefix(a \o b, n) = b
<1>1. PICK s \in Seq(B) : s = a \o b
  <2>1. a \o b \in Seq(B)
    BY ConcatProperties
  <2> QED BY <2>1, Zenon
<1>2. Then(a, b, s)
  BY <1>1, ThenIs
<1>3. PICK c \in Seq(B) : c = SubSeq(s, n + 1, Len(s)) /\ Len(c) = Len(b)
                          /\ \A k \in 1 .. Len(b) : c[k] = s[n + k]
  BY <1>2 DEF Then
<1>4. \A k \in 1 .. Len(b) : c[k] = b[k]
  BY <1>2, <1>3 DEF Then
<1>5. c = b
  BY <1>3, <1>4, SeqEqual
<1> QED BY <1>1, <1>3, <1>5 DEF U!RemovePrefix

\* With one byte more.
LEMMA RemovesDelimiter ==
  ASSUME NEW B, NEW a \in Seq(B), NEW c \in B, NEW b \in Seq(B), NEW n, n = Len(a) + 1
  PROVE  U!RemovePrefix(a \o (<<c>> \o b), n) = b
<1>1. PICK d \in Seq(B) : d = <<c>> /\ Len(d) = 1
  <2>1. <<c>> \in Seq(B) /\ Len(<<c>>) = 1
    OBVIOUS
  <2> QED BY <2>1, Zenon
<1>2. a \o (d \o b) = (a \o d) \o b
  BY ConcatAssociative
<1>3. PICK e \in Seq(B) : e = a \o d /\ Len(e) = n
  <2>1. a \o d \in Seq(B) /\ Len(a \o d) = n
    BY <1>1, ConcatProperties
  <2> QED BY <2>1, Zenon
<1>4. U!RemovePrefix(e \o b, n) = b
  BY <1>3, Removes
<1> QED BY <1>1, <1>2, <1>3, <1>4

-----------------------------------------------------------------------------
(* What PercentEncode writes *)

\* The digits that PercentEncode writes, and all that it may write.
Hex == (48..57) \cup (65..70)
Written(set) == set \cup {37} \cup Hex

\* IntToHexDigit writes a digit.
LEMMA HexDigits ==
  ASSUME NEW x \in 0..15
  PROVE  U!IntToHexDigit(x) \in Hex
<1>1. CASE x < 10
  BY <1>1 DEF U!IntToHexDigit, Hex
<1>2. CASE x >= 10
  BY <1>2 DEF U!IntToHexDigit, Hex
<1> QED BY <1>1, <1>2

\* The first and the last byte of a code.
LEMMA CodeEnds ==
  ASSUME NEW c \in Byte, NEW set
  PROVE  /\ Code(c, set) \in Seq(Written(set))
         /\ c \in set => Code(c, set) = <<c>>
         /\ c \notin set => /\ Len(Code(c, set)) = 3 /\ Code(c, set)[1] = 37
                            /\ Code(c, set)[3] \in Hex
<1>1. CASE c \in set
  <2>1. Code(c, set) = <<c>> /\ c \in Written(set)
    BY <1>1 DEF Code, Written
  <2> QED BY <1>1, <2>1
<1>2. CASE c \notin set
  <2>1. c \div 16 \in 0..15 /\ c % 16 \in 0..15
    BY DEF Byte
  <2>2. PICK x, y : /\ x = U!IntToHexDigit(c \div 16) /\ y = U!IntToHexDigit(c % 16)
                    /\ x \in Hex /\ y \in Hex
    BY <2>1, HexDigits
  <2>3. Code(c, set) = <<37, x, y>>
    BY <1>2, <2>2 DEF Code
  <2>4. 37 \in Written(set) /\ x \in Written(set) /\ y \in Written(set)
    BY <2>2 DEF Written
  <2> QED BY <1>2, <2>2, <2>3, <2>4
<1> QED BY <1>1, <1>2

\* The joining of codes behind PercentEncode.
LEMMA EncodeSteps ==
  ASSUME NEW s \in Seq(Byte), NEW set
  PROVE  \E g, codes : /\ codes \in [1 .. Len(s) -> Seq(Written(set))]
                       /\ Joins(g, codes, Len(s), Written(set))
                       /\ \A i \in 1 .. Len(s) : codes[i] = Code(s[i], set)
                       /\ U!PercentEncode(s, set) = g[Len(s)]
<1> DEFINE codes == Codes(s, set)
<1>1. \A i \in 1 .. Len(s) : s[i] \in Byte
  OBVIOUS
<1>2. \A i \in 1 .. Len(s) : Code(s[i], set) \in Seq(Written(set))
  BY <1>1, CodeEnds
<1>3. codes \in [1 .. Len(s) -> Seq(Written(set))]
  BY <1>2 DEF Codes
<1>4. \A i \in 1 .. Len(s) : codes[i] = Code(s[i], set)
  BY DEF Codes
<1>5. PICK g : Joins(g, codes, Len(s), Written(set)) /\ U!PercentEncode(s, set) = g[Len(s)]
  BY <1>3, EncodeJoins
<1> HIDE DEF codes
<1> QED BY <1>3, <1>4, <1>5

\* PercentEncode writes the bytes of the set, percent signs and digits.
LEMMA EncodeWrites ==
  ASSUME NEW s \in Seq(Byte), NEW set
  PROVE  U!PercentEncode(s, set) \in Seq(Written(set))
<1>1. PICK g, codes : /\ Joins(g, codes, Len(s), Written(set))
                      /\ U!PercentEncode(s, set) = g[Len(s)]
  BY EncodeSteps
<1>2. Len(s) \in 0 .. Len(s)
  OBVIOUS
<1> QED BY <1>1, <1>2 DEF Joins

\* It begins with the first byte, or with a percent sign.
LEMMA EncodeBegins ==
  ASSUME NEW s \in Seq(Byte), NEW set
  PROVE  /\ s = <<>> => U!PercentEncode(s, set) = <<>>
         /\ s # <<>> => /\ U!PercentEncode(s, set) # <<>>
                        /\ U!PercentEncode(s, set)[1] = IF s[1] \in set THEN s[1] ELSE 37
<1>1. PICK g, codes : /\ codes \in [1 .. Len(s) -> Seq(Written(set))]
                      /\ Joins(g, codes, Len(s), Written(set))
                      /\ \A i \in 1 .. Len(s) : codes[i] = Code(s[i], set)
                      /\ U!PercentEncode(s, set) = g[Len(s)]
  BY EncodeSteps
<1>2. Len(s) \in Nat
  OBVIOUS
<1>3. CASE s = <<>>
  BY <1>1, <1>3 DEF Joins
<1>4. CASE s # <<>>
  <2>1. 1 \in 1 .. Len(s) /\ 1 \in 0 .. Len(s) /\ 1 - 1 = 0 /\ s[1] \in Byte
    BY <1>4
  <2>2. Then(g[0], codes[1], g[1])
    <3>1. Then(g[1 - 1], codes[1], g[1])
      BY <1>1, <1>2, <2>1, JoinStep
    <3> QED BY <2>1, <3>1
  <2>3. g[0] = <<>> /\ Len(g[0]) = 0
    BY <1>1 DEF Joins
  <2>4. PICK code : /\ code = Code(s[1], set) /\ Len(code) \in {1, 3}
                    /\ code[1] = IF s[1] \in set THEN s[1] ELSE 37
    <3>1. Len(Code(s[1], set)) \in {1, 3}
      BY CodeLength
    <3>2. Code(s[1], set)[1] = IF s[1] \in set THEN s[1] ELSE 37
      BY <2>1, CodeEnds
    <3> QED BY <3>1, <3>2
  <2>5. codes[1] = code
    BY <1>1, <2>1, <2>4
  <2>6. Len(g[1]) >= 1 /\ Len(g[1]) \in Nat /\ g[1][1] = code[1]
    BY <2>2, <2>3, <2>4, <2>5 DEF Then
  <2>7. Begins(g[1], g[Len(s)])
    BY <1>1, <1>2, <2>1, JoinPrefix
  <2>8. g[Len(s)] \in Seq(Written(set))
    BY <1>1, <1>2 DEF Joins
  <2>9. Len(g[Len(s)]) >= 1 /\ g[Len(s)][1] = code[1]
    BY <2>6, <2>7, <2>8 DEF Begins
  <2>10. g[Len(s)] # <<>>
    BY <2>9
  <2> QED BY <1>1, <1>4, <2>4, <2>9, <2>10
<1> QED BY <1>3, <1>4

\* Nothing is written of an empty string.
LEMMA EncodeEmpty ==
  ASSUME NEW s \in Seq(Byte), NEW set, s = <<>>
  PROVE  U!PercentEncode(s, set) = <<>>
BY EncodeBegins

\* It begins with two slashes only if the string does.
LEMMA EncodeSlashes ==
  ASSUME NEW s \in Seq(Byte), NEW set, NEW text, text = U!PercentEncode(s, set),
         Len(text) >= 2, text[1] = 47, text[2] = 47
  PROVE  Len(s) >= 2 /\ s[1] = 47 /\ s[2] = 47
<1>1. PICK g, codes : /\ codes \in [1 .. Len(s) -> Seq(Written(set))]
                      /\ Joins(g, codes, Len(s), Written(set))
                      /\ \A i \in 1 .. Len(s) : codes[i] = Code(s[i], set)
                      /\ text = g[Len(s)]
  BY EncodeSteps
<1>2. Len(s) \in Nat
  OBVIOUS
<1>3. s # <<>>
  <2>1. ASSUME s = <<>> PROVE FALSE
    <3>1. text = <<>>
      BY <2>1, EncodeBegins
    <3> QED BY <3>1
  <2> QED BY <2>1
<1>4. s[1] = 47 /\ 47 \in set
  BY <1>3, EncodeBegins
<1>5. 1 \in 1 .. Len(s) /\ 1 - 1 = 0
  BY <1>3
<1>6. Len(g[1]) = 1
  <2>1. Then(g[1 - 1], codes[1], g[1])
    BY <1>1, <1>2, <1>5, JoinStep
  <2>2. codes[1] = <<47>> /\ Len(codes[1]) = 1
    BY <1>1, <1>4, <1>5 DEF Code
  <2>3. g[0] = <<>> /\ Len(g[0]) = 0
    BY <1>1 DEF Joins
  <2> QED BY <1>5, <2>1, <2>2, <2>3 DEF Then
<1>7. Len(s) >= 2
  <2>1. ASSUME Len(s) = 1 PROVE FALSE
    <3>1. Len(text) = 1
      BY <1>1, <1>6, <2>1
    <3> QED BY <3>1
  <2>2. Len(s) # 1 /\ Len(s) # 0
    BY <1>5, <2>1
  <2>3. \A n \in Nat : n # 1 /\ n # 0 => n >= 2
    OBVIOUS
  <2> QED BY <1>2, <2>2, <2>3, Zenon
<1>8. 2 \in 1 .. Len(s) /\ 2 \in 0 .. Len(s) /\ 2 - 1 = 1 /\ s[2] \in Byte
  BY <1>7
<1>9. Then(g[1], codes[2], g[2])
  <2>1. Then(g[2 - 1], codes[2], g[2])
    BY <1>1, <1>2, <1>8, JoinStep
  <2> QED BY <1>8, <2>1
<1>10. PICK code : /\ code = Code(s[2], set) /\ Len(code) \in {1, 3}
                   /\ code[1] = IF s[2] \in set THEN s[2] ELSE 37
  <2>1. Len(Code(s[2], set)) \in {1, 3}
    BY CodeLength
  <2>2. Code(s[2], set)[1] = IF s[2] \in set THEN s[2] ELSE 37
    BY <1>8, CodeEnds
  <2> QED BY <2>1, <2>2
<1>11. codes[2] = code
  BY <1>1, <1>8, <1>10
<1>12. Len(g[2]) >= 2 /\ Len(g[2]) \in Nat /\ g[2][2] = code[1]
  BY <1>6, <1>9, <1>10, <1>11 DEF Then
<1>13. Begins(g[2], g[Len(s)])
  BY <1>1, <1>2, <1>8, JoinPrefix
<1>14. g[Len(s)][2] = code[1]
  BY <1>12, <1>13 DEF Begins
<1> QED BY <1>1, <1>4, <1>7, <1>10, <1>14

\* It ends with an ampersand only if the string does.
LEMMA EncodeEnds ==
  ASSUME NEW s \in Seq(Byte), NEW set, s # <<>>, NEW text, text = U!PercentEncode(s, set),
         text[Len(text)] = 38
  PROVE  s[Len(s)] = 38
<1>1. PICK g, codes : /\ codes \in [1 .. Len(s) -> Seq(Written(set))]
                      /\ Joins(g, codes, Len(s), Written(set))
                      /\ \A i \in 1 .. Len(s) : codes[i] = Code(s[i], set)
                      /\ text = g[Len(s)]
  BY EncodeSteps
<1>2. PICK n \in Nat : n = Len(s) /\ n \in 1 .. n /\ s[n] \in Byte
  <2>1. Len(s) \in Nat /\ Len(s) \in 1 .. Len(s) /\ s[Len(s)] \in Byte
    OBVIOUS
  <2> QED BY <2>1, Zenon
<1>3. Then(g[n - 1], codes[n], g[n])
  BY <1>1, <1>2, JoinStep
<1>4. PICK code : code = Code(s[n], set)
  OBVIOUS
<1>5. codes[n] = code
  BY <1>1, <1>2, <1>4
<1>6. code[Len(code)] = 38
  <2>1. Len(code) \in {1, 3}
    BY <1>4, CodeLength
  <2>2. Len(g[n]) = Len(g[n - 1]) + Len(code) /\ Len(g[n - 1]) \in Nat
        /\ g[n][Len(g[n - 1]) + Len(code)] = code[Len(code)]
    <3>1. \A m \in {1, 3} : m \in 1..m
      OBVIOUS
    <3>2. Len(code) \in 1 .. Len(code)
      BY <2>1, <3>1, Zenon
    <3> QED BY <1>3, <1>5, <3>2, Zenon DEF Then
  <2> QED BY <1>1, <1>2, <2>2
<1>7. CASE s[n] \in set
  <2>1. code = <<s[n]>>
    BY <1>2, <1>4, <1>7, CodeEnds
  <2> QED BY <1>2, <1>6, <2>1
<1>8. CASE s[n] \notin set
  <2>1. Len(code) = 3 /\ code[3] \in Hex
    BY <1>2, <1>4, <1>8, CodeEnds
  <2> QED BY <1>6, <2>1 DEF Hex
<1> QED BY <1>7, <1>8

\* A string of unreserved bytes stays as it is.
LEMMA EncodeKeeps ==
  ASSUME NEW s \in Seq(Byte), NEW set, \A i \in 1 .. Len(s) : s[i] \in set
  PROVE  U!PercentEncode(s, set) = s
<1>1. PICK g, codes : /\ codes \in [1 .. Len(s) -> Seq(Written(set))]
                      /\ Joins(g, codes, Len(s), Written(set))
                      /\ \A i \in 1 .. Len(s) : codes[i] = Code(s[i], set)
                      /\ U!PercentEncode(s, set) = g[Len(s)]
  BY EncodeSteps
<1> DEFINE n == Len(s)
           S == {i \in 0..n : g[i] = SubSeq(s, 1, i)}
<1>2. n \in Nat
  OBVIOUS
<1>3. 0 \in S
  <2>1. SubSeq(s, 1, 0) = <<>>
    OBVIOUS
  <2>2. 0 \in 0..n /\ g[0] = <<>>
    BY <1>1, <1>2 DEF Joins
  <2> QED BY <2>1, <2>2
<1>4. ASSUME NEW i \in 1..n, i - 1 \in S
      PROVE  i \in S
  <2>1. codes[i] = <<s[i]>>
    BY <1>1 DEF Code
  <2>2. g[i] = g[i - 1] \o codes[i] /\ i \in 0..n
    BY <1>1 DEF Joins
  <2>3. SubSeq(s, 1, i) = SubSeq(s, 1, i - 1) \o <<s[i]>>
    <3>1. 1 \in 1 .. Len(s) /\ i \in 1 .. Len(s)
      OBVIOUS
    <3> QED BY <3>1, SubSeqRecursiveSecond
  <2> QED BY <1>4, <2>1, <2>2, <2>3
<1>5. n \in S
  <2> HIDE DEF S
  <2>1. n \in 0..n
    BY <1>2
  <2> QED BY <1>2, <1>3, <1>4, <2>1, UpTo
<1> QED BY <1>1, <1>5, SubSeqFull

-----------------------------------------------------------------------------
(* What PercentDecode reads *)

\* HexDigitToInt reads four bits.
LEMMA HexValue ==
  ASSUME NEW c, U!IsXDigit(c)
  PROVE  U!HexDigitToInt(c) \in 0..15
<1>1. CASE c \in 48..57
  BY <1>1 DEF U!HexDigitToInt
<1>2. CASE c \in 65..70
  BY <1>2 DEF U!HexDigitToInt
<1>3. CASE c \in 97..102
  BY <1>3 DEF U!HexDigitToInt
<1> QED BY <1>1, <1>2, <1>3 DEF U!IsXDigit

\* At every position before the end decoding gives one byte and goes on later.
LEMMA DecodesByte ==
  ASSUME NEW src \in Seq(Byte), NEW f, NEW i \in 1 .. Len(src)
  PROVE  \E c \in Byte, j \in (i + 1) .. (Len(src) + 1) :
           /\ Decoded(src, f, i) = <<c>> \o f[j]
           /\ src[i] # 37 => c = src[i]
<1>0. PICK L \in Nat : L = Len(src)
  OBVIOUS
<1>1. CASE EscapeAt(src, i)
  <2>1. PICK x \in 0..15, y \in 0..15 : /\ x = U!HexDigitToInt(src[i + 1])
                                        /\ y = U!HexDigitToInt(src[i + 2])
    <3>1. U!HexDigitToInt(src[i + 1]) \in 0..15 /\ U!HexDigitToInt(src[i + 2]) \in 0..15
      BY <1>1, HexValue DEF EscapeAt
    <3> QED BY <3>1, Zenon
  <2>2. x * 16 + y \in Byte
    BY DEF Byte
  <2>3. i + 3 \in (i + 1)..(L + 1) /\ src[i] = 37 /\ ~(i > L)
    BY <1>0, <1>1 DEF EscapeAt
  <2>4. Decoded(src, f, i) = <<x * 16 + y>> \o f[i + 3]
    BY <1>0, <1>1, <2>1, <2>3, Zenon DEF Decoded
  <2> QED BY <1>0, <2>2, <2>3, <2>4, Zenon
<1>2. CASE ~EscapeAt(src, i)
  <2>1. i + 1 \in (i + 1)..(L + 1) /\ ~(i > L) /\ src[i] \in Byte
    BY <1>0
  <2>2. Decoded(src, f, i) = <<src[i]>> \o f[i + 1]
    BY <1>0, <1>2, <2>1, Zenon DEF Decoded
  <2> QED BY <1>0, <2>1, <2>2, Zenon
<1> QED BY <1>1, <1>2

\* What it gives is a string, empty only if there is nothing to decode, and begins
\* with the first byte unless that is a percent sign.
LEMMA DecodeReads ==
  ASSUME NEW src \in Seq(Byte)
  PROVE  /\ U!PercentDecode(src) \in Seq(Byte)
         /\ src = <<>> => U!PercentDecode(src) = <<>>
         /\ src # <<>> => /\ U!PercentDecode(src) # <<>>
                          /\ src[1] # 37 => U!PercentDecode(src)[1] = src[1]
<1>1. PICK L \in Nat : L = Len(src)
  OBVIOUS
<1>2. PICK f : /\ \A i \in 1..(L + 1) : f[i] = Decoded(src, f, i)
               /\ U!PercentDecode(src) = f[1]
  BY <1>1, DecodeIs
<1>3. f[L + 1] = <<>>
  <2>1. L + 1 \in 1..(L + 1) /\ L + 1 > L
    OBVIOUS
  <2> QED BY <1>1, <1>2, <2>1, Zenon DEF Decoded
<1> DEFINE S == {k \in 0..L : f[k + 1] \in Seq(Byte)}
<1>4. L \in S
  <2>1. L \in 0..L
    OBVIOUS
  <2>2. f[L + 1] \in Seq(Byte)
    BY <1>3, EmptySeq, Zenon
  <2> QED BY <2>1, <2>2
<1>5. ASSUME NEW k \in 0..(L - 1), \A j \in (k + 1)..L : j \in S
      PROVE  k \in S
  <2>1. k + 1 \in 1..L /\ k + 1 \in 1..(L + 1) /\ k \in 0..L
    OBVIOUS
  <2>2. PICK c \in Byte, j \in (k + 1 + 1)..(L + 1) : Decoded(src, f, k + 1) = <<c>> \o f[j]
    BY <1>1, <2>1, DecodesByte
  <2>3. j - 1 \in (k + 1)..L /\ j - 1 + 1 = j
    OBVIOUS
  <2>4. f[j] \in Seq(Byte)
    <3>1. j - 1 \in S
      BY <1>5, <2>3
    <3> QED BY <2>3, <3>1
  <2>5. <<c>> \o f[j] \in Seq(Byte)
    BY <2>4
  <2>6. f[k + 1] \in Seq(Byte)
    BY <1>2, <2>1, <2>2, <2>5, Zenon
  <2> QED BY <2>1, <2>6
<1> HIDE DEF S
<1>6. \A k \in 0..L : k \in S
  BY <1>4, <1>5, DownFrom
<1>7. \A j \in 1..(L + 1) : f[j] \in Seq(Byte)
  <2> SUFFICES ASSUME NEW j \in 1..(L + 1) PROVE f[j] \in Seq(Byte)
    OBVIOUS
  <2>1. j - 1 \in 0..L /\ j - 1 + 1 = j
    OBVIOUS
  <2>2. f[j - 1 + 1] \in Seq(Byte)
    BY <1>6, <2>1, Zenon DEF S
  <2> QED BY <2>1, <2>2
<1>8. f[1] \in Seq(Byte)
  BY <1>7
<1>9. CASE src = <<>>
  <2>1. L = 0 /\ L + 1 = 1
    BY <1>1, <1>9
  <2> QED BY <1>2, <1>3, <1>8, <1>9, <2>1
<1>10. CASE src # <<>>
  <2>1. 1 \in 1..L /\ 1 \in 1..(L + 1)
    BY <1>1, <1>10
  <2>2. PICK c \in Byte, j \in (1 + 1)..(L + 1) : /\ Decoded(src, f, 1) = <<c>> \o f[j]
                                                  /\ src[1] # 37 => c = src[1]
    BY <1>1, <2>1, DecodesByte
  <2>3. f[1] = <<c>> \o f[j] /\ f[j] \in Seq(Byte)
    <3>1. j \in 1..(L + 1)
      OBVIOUS
    <3> QED BY <1>2, <1>7, <2>1, <2>2, <3>1, Zenon
  <2>4. (<<c>> \o f[j])[1] = c /\ <<c>> \o f[j] # <<>>
    BY <2>3
  <2> QED BY <1>2, <1>8, <1>10, <2>2, <2>3, <2>4
<1> QED BY <1>9, <1>10

-----------------------------------------------------------------------------
(* The pairs of a query *)

PairOfStrings == Seq(Byte) \X Seq(Byte)

\* The key and the value of one field, and the field that begins at position i.
PairOf(q) ==
  <<U!PercentDecode(U!FindFirstOf(q, {61})),
    U!PercentDecode(U!RemovePrefix(q, Len(U!FindFirstOf(q, {61})) + 1))>>
FieldAt(s, i) == U!FindFirstOf(U!RemovePrefix(s, i - 1), {38})

\* The pairs from position i on, when f is those from the later ones.
Paired(s, f, i) ==
  IF i > Len(s) THEN <<>>
  ELSE <<PairOf(FieldAt(s, i))>> \o f[i + Len(FieldAt(s, i)) + 1]

\* RemovePrefix of a string is one.
LEMMA RemovePrefixIs ==
  ASSUME NEW B, NEW s \in Seq(B), NEW n \in Nat
  PROVE  /\ U!RemovePrefix(s, n) \in Seq(B)
         /\ n <= Len(s) => Len(U!RemovePrefix(s, n)) = Len(s) - n
BY DEF U!RemovePrefix

\* The fields end at the end of the text or before it.
LEMMA FieldIs ==
  ASSUME NEW s \in Seq(Byte), NEW i \in 1 .. Len(s)
  PROVE  /\ FieldAt(s, i) \in Seq(Byte)
         /\ i + Len(FieldAt(s, i)) + 1 \in (i + 1) .. (Len(s) + 2)
<1>1. PICK n \in Nat : n = i - 1 /\ n <= Len(s)
  OBVIOUS
<1>2. PICK r \in Seq(Byte) : r = U!RemovePrefix(s, n) /\ Len(r) = Len(s) - n
  BY <1>1, RemovePrefixIs
<1>3. PICK a, b \in Seq(Byte) : r = a \o b /\ U!FindFirstOf(r, {38}) = a
  <2>1. PICK a, b \in Seq(Byte) : Cut(r, {38}, a, b)
    BY CutsText
  <2> QED BY <2>1 DEF Cut
<1>4. Len(a) <= Len(r) /\ Len(a) \in Nat
  BY <1>3
<1>5. FieldAt(s, i) = a
  BY <1>1, <1>2, <1>3 DEF FieldAt
<1>6. i + Len(a) + 1 \in (i + 1) .. (Len(s) + 2)
  BY <1>1, <1>2, <1>4
<1> QED BY <1>5, <1>6

\* A field has a key and a value.
LEMMA PairIs ==
  ASSUME NEW q \in Seq(Byte)
  PROVE  PairOf(q) \in PairOfStrings
<1>1. PICK a, b \in Seq(Byte) : q = a \o b /\ U!FindFirstOf(q, {61}) = a
  <2>1. PICK a, b \in Seq(Byte) : Cut(q, {61}, a, b)
    BY CutsText
  <2> QED BY <2>1 DEF Cut
<1>2. PICK n \in Nat : n = Len(a) + 1
  OBVIOUS
<1>3. PICK v \in Seq(Byte) : v = U!RemovePrefix(q, n)
  BY RemovePrefixIs
<1>4. U!PercentDecode(a) \in Seq(Byte) /\ U!PercentDecode(v) \in Seq(Byte)
  BY DecodeReads
<1> QED BY <1>1, <1>2, <1>3, <1>4, Zenon DEF PairOf, PairOfStrings

\* The pairs depend on the later positions only.
LEMMA PairedLater ==
  ASSUME NEW s \in Seq(Byte), NEW L \in Nat, L = Len(s), NEW f, NEW g, NEW i \in 1..(L + 2),
         \A j \in (i + 1)..(L + 2) : f[j] = g[j]
  PROVE  Paired(s, f, i) = Paired(s, g, i)
<1>1. CASE i > L
  BY <1>1 DEF Paired
<1>2. CASE ~(i > L)
  <2>1. i \in 1 .. Len(s)
    BY <1>2
  <2>2. i + Len(FieldAt(s, i)) + 1 \in (i + 1)..(L + 2)
    BY <2>1, FieldIs
  <2> QED BY <1>2, <2>2, Zenon DEF Paired
<1> QED BY <1>1, <1>2

\* So there is a function that gives the pairs from every position on.
LEMMA PairingExists ==
  ASSUME NEW s \in Seq(Byte), NEW L \in Nat, L = Len(s)
  PROVE  \E g : \A i \in 1..(L + 2) : g[i] = Paired(s, g, i)
<1> DEFINE M == L + 1
           Good(k, g) == \A i \in (k + 1)..(M + 1) : g[i] = Paired(s, g, i)
           S == {k \in 0..M : \E g : Good(k, g)}
<1>0. M \in Nat /\ M + 1 = L + 2 /\ M + 1 > L
  OBVIOUS
<1> HIDE DEF M
<1>1. M \in S
  <2> DEFINE g == [i \in {M + 1} |-> <<>>]
  <2>1. ASSUME NEW i \in (M + 1)..(M + 1)
        PROVE  g[i] = Paired(s, g, i)
    <3>1. i = M + 1 /\ i > L
      BY <1>0
    <3>2. g[i] = <<>>
      BY <3>1
    <3> HIDE DEF g
    <3> QED BY <3>1, <3>2 DEF Paired
  <2> HIDE DEF g
  <2>2. M \in 0..M
    BY <1>0
  <2> QED BY <2>1, <2>2, Zenon
<1>2. ASSUME NEW k \in 0..(M - 1), \A j \in (k + 1)..M : j \in S
      PROVE  k \in S
  <2>1. PICK g : Good(k + 1, g)
    <3>1. k + 1 \in (k + 1)..M
      BY <1>0
    <3> HIDE DEF Good
    <3> QED BY <1>2, <3>1, Zenon
  <2> DEFINE h == [i \in (k + 1)..(M + 1) |-> IF i = k + 1 THEN Paired(s, g, k + 1) ELSE g[i]]
  <2>2. \A i \in (k + 2)..(M + 1) : h[i] = g[i]
    BY <1>0
  <2>3. h[k + 1] = Paired(s, g, k + 1)
    BY <1>0
  <2> HIDE DEF h
  <2>4. ASSUME NEW i \in (k + 1)..(M + 1)
        PROVE  h[i] = Paired(s, h, i)
    <3>1. Paired(s, h, i) = Paired(s, g, i)
      <4>1. i \in 1..(L + 2) /\ \A j \in (i + 1)..(L + 2) : j \in (k + 2)..(M + 1)
        BY <1>0
      <4>2. \A j \in (i + 1)..(L + 2) : h[j] = g[j]
        BY <2>2, <4>1, Zenon
      <4> QED BY <4>1, <4>2, PairedLater
    <3>2. CASE i = k + 1
      BY <2>3, <3>1, <3>2
    <3>3. CASE i # k + 1
      <4>1. i \in (k + 2)..(M + 1) /\ i \in (k + 1 + 1)..(M + 1)
        BY <1>0, <3>3
      <4> QED BY <2>1, <2>2, <3>1, <4>1, Zenon
    <3> QED BY <3>2, <3>3
  <2>5. k \in 0..M
    BY <1>0
  <2> QED BY <2>4, <2>5, Zenon
<1> HIDE DEF S
<1>3. 0 \in S
  <2>1. 0 \in 0..M
    BY <1>0
  <2> QED BY <1>0, <1>1, <1>2, <2>1, DownFrom
<1>4. PICK g : Good(0, g)
  BY <1>3, Zenon DEF S
<1>5. 0 + 1 = 1
  OBVIOUS
<1> QED BY <1>0, <1>4, <1>5

\* QueryPairs is such a function, at the first position.
LEMMA PairsAre ==
  ASSUME NEW s \in Seq(Byte), NEW L \in Nat, L = Len(s)
  PROVE  \E f : /\ \A i \in 1..(L + 2) : f[i] = Paired(s, f, i)
                /\ U!QueryPairs(s) = f[1]
<1> DEFINE F(f) == [i \in 1 .. Len(s) + 2 |-> Paired(s, f, i)]
           From == CHOOSE f : f = F(f)
<1>1. PICK g : \A i \in 1..(L + 2) : g[i] = Paired(s, g, i)
  BY PairingExists
<1> DEFINE f == [i \in 1..(L + 2) |-> g[i]]
<1>2. f = F(f)
  <2>1. ASSUME NEW i \in 1..(L + 2)
        PROVE  f[i] = Paired(s, f, i)
    <3>1. \A j \in (i + 1)..(L + 2) : f[j] = g[j]
      OBVIOUS
    <3>2. f[i] = g[i]
      OBVIOUS
    <3> HIDE DEF f
    <3> QED BY <1>1, <3>1, <3>2, PairedLater
  <2>2. f = [i \in 1..(L + 2) |-> f[i]]
    OBVIOUS
  <2> HIDE DEF f
  <2> QED BY <2>1, <2>2
<1> HIDE DEF f
<1>3. From = F(From)
  <2> HIDE DEF F
  <2> QED BY <1>2
<1>4. U!QueryPairs(s) = From[1]
  BY Zenon DEF U!QueryPairs, Paired, PairOf, FieldAt
<1> HIDE DEF From
<1>5. \A i \in 1..(L + 2) : From[i] = Paired(s, From, i)
  BY <1>3
<1> QED BY <1>4, <1>5

\* A query has pairs of strings, and at least one.
LEMMA QueryIs ==
  ASSUME NEW s \in Seq(Byte)
  PROVE  /\ U!QueryPairs(s) \in Seq(PairOfStrings)
         /\ s = <<>> => U!QueryPairs(s) = <<>>
         /\ s # <<>> => U!QueryPairs(s) # <<>>
<1>1. PICK L \in Nat : L = Len(s)
  OBVIOUS
<1>2. PICK f : /\ \A i \in 1..(L + 2) : f[i] = Paired(s, f, i)
               /\ U!QueryPairs(s) = f[1]
  BY <1>1, PairsAre
<1> DEFINE M == L + 1
           S == {k \in 0..M : f[k + 1] \in Seq(PairOfStrings)}
<1>3. M \in S
  <2>1. M + 1 \in 1..(L + 2) /\ M + 1 > L /\ M \in 0..M
    OBVIOUS
  <2>2. f[M + 1] = <<>>
    BY <1>1, <1>2, <2>1, Zenon DEF Paired
  <2>3. f[M + 1] \in Seq(PairOfStrings)
    BY <2>2, EmptySeq, Zenon
  <2> QED BY <2>1, <2>3
<1>4. ASSUME NEW k \in 0..(M - 1), \A j \in (k + 1)..M : j \in S
      PROVE  k \in S
  <2>1. k + 1 \in 1..(L + 2) /\ k \in 0..M
    OBVIOUS
  <2>2. CASE k + 1 > L
    <3>1. f[k + 1] = <<>>
      BY <1>1, <1>2, <2>1, <2>2, Zenon DEF Paired
    <3>2. f[k + 1] \in Seq(PairOfStrings)
      BY <3>1, EmptySeq, Zenon
    <3> QED BY <2>1, <3>2
  <2>3. CASE ~(k + 1 > L)
    <3>1. k + 1 \in 1..L
      BY <2>3
    <3>2. PICK p, j : /\ p = PairOf(FieldAt(s, k + 1)) /\ p \in PairOfStrings
                      /\ j = k + 1 + Len(FieldAt(s, k + 1)) + 1 /\ j \in (k + 1 + 1)..(L + 2)
      BY <1>1, <3>1, FieldIs, PairIs
    <3>3. f[k + 1] = <<p>> \o f[j]
      BY <1>1, <1>2, <2>1, <2>3, <3>2, Zenon DEF Paired
    <3>4. j - 1 \in (k + 1)..M /\ j - 1 + 1 = j
      BY <3>2
    <3>5. f[j] \in Seq(PairOfStrings)
      <4>1. j - 1 \in S
        BY <1>4, <3>4
      <4> QED BY <3>4, <4>1
    <3>6. <<p>> \o f[j] \in Seq(PairOfStrings)
      BY <3>2, <3>5
    <3> QED BY <2>1, <3>3, <3>6
  <2> QED BY <2>2, <2>3
<1> HIDE DEF S
<1>5. \A k \in 0..M : k \in S
  <2>1. M \in Nat
    OBVIOUS
  <2> HIDE DEF M
  <2> QED BY <1>3, <1>4, <2>1, DownFrom
<1>6. \A j \in 1..(L + 2) : f[j] \in Seq(PairOfStrings)
  <2> SUFFICES ASSUME NEW j \in 1..(L + 2) PROVE f[j] \in Seq(PairOfStrings)
    OBVIOUS
  <2>1. j - 1 \in 0..M /\ j - 1 + 1 = j
    OBVIOUS
  <2>2. f[j - 1 + 1] \in Seq(PairOfStrings)
    BY <1>5, <2>1, Zenon DEF S
  <2> QED BY <2>1, <2>2
<1>7. f[1] \in Seq(PairOfStrings)
  BY <1>6
<1>8. CASE s = <<>>
  <2>1. L = 0 /\ 1 > L /\ 1 \in 1..(L + 2)
    BY <1>1, <1>8
  <2>2. f[1] = <<>>
    BY <1>1, <1>2, <2>1, Zenon DEF Paired
  <2> QED BY <1>2, <1>7, <1>8, <2>2
<1>9. CASE s # <<>>
  <2>1. 1 \in 1..L /\ 1 \in 1..(L + 2) /\ ~(1 > L)
    BY <1>1, <1>9
  <2>2. PICK p, j : /\ p = PairOf(FieldAt(s, 1)) /\ p \in PairOfStrings
                    /\ j = 1 + Len(FieldAt(s, 1)) + 1 /\ j \in (1 + 1)..(L + 2)
    BY <1>1, <2>1, FieldIs, PairIs
  <2>3. f[1] = <<p>> \o f[j]
    BY <1>1, <1>2, <2>1, <2>2, Zenon DEF Paired
  <2>4. f[j] \in Seq(PairOfStrings)
    BY <1>6, <2>2
  <2>5. <<p>> \o f[j] # <<>>
    BY <2>2, <2>4
  <2> QED BY <1>2, <1>7, <1>9, <2>3, <2>5
<1> QED BY <1>8, <1>9

-----------------------------------------------------------------------------
(* Writing the pairs of a query and reading them again *)

\* What ToString may write of a query, and what Parse takes for one.
KV == U!kURIQueryKVUnreseredChars
QueryByte == U!kURIFragmentUnreseredChars \cup {37}

\* No escaped key or value holds an equals sign or an ampersand of its own.
LEMMA QueryBytes ==
  /\ Written(KV) \subseteq QueryByte /\ 61 \in QueryByte /\ 38 \in QueryByte
  /\ QueryByte \subseteq Byte
  /\ 61 \notin Written(KV) /\ 38 \notin Written(KV) /\ 37 \notin KV
BY DEF Written, Hex, KV, QueryByte, Byte, U!kURIQueryKVUnreseredChars,
       U!kURIFragmentUnreseredChars, U!kURIUnreservedChars, U!Alpha, U!Digits, U!Marks

\* A pair as ToString writes it, with the ampersand it puts after each.
Word(p) == U!PercentEncode(p[1], KV) \o (<<61>> \o U!PercentEncode(p[2], KV))
Words(q) == [i \in 1 .. Len(q) |-> Word(q[i]) \o <<38>>]

\* Bytes that are not in t.
LEMMA FreeIs ==
  ASSUME NEW B, NEW s \in Seq(B), NEW t, \A x \in t : x \notin B
  PROVE  FreeOf(s, t)
BY DEF FreeOf

\* Parse reads the pair.
LEMMA WordIs ==
  ASSUME NEW p \in PairOfStrings
  PROVE  /\ Word(p) \in Seq(QueryByte) /\ FreeOf(Word(p), {38})
         /\ Len(Word(p)) >= 1 /\ PairOf(Word(p)) = p
<1>1. PICK x, y \in Seq(Byte) : p = <<x, y>>
  BY DEF PairOfStrings
<1> DEFINE W == Written(KV) \cup {61}
<1>2. PICK k, v : /\ k = U!PercentEncode(x, KV) /\ v = U!PercentEncode(y, KV)
                  /\ k \in Seq(Written(KV)) /\ v \in Seq(Written(KV))
  BY EncodeWrites
<1>3. k \in Seq(W) /\ v \in Seq(W)
  <2>1. Written(KV) \subseteq W
    OBVIOUS
  <2> HIDE DEF W
  <2> QED BY <1>2, <2>1, SeqMonotonic
<1>4. Word(p) = k \o (<<61>> \o v)
  BY <1>1, <1>2 DEF Word
<1>5. PICK r \in Seq(W) : r = <<61>> \o v /\ Len(r) >= 1 /\ r[1] = 61
  <2>1. 61 \in W
    OBVIOUS
  <2> HIDE DEF W
  <2>2. <<61>> \o v \in Seq(W) /\ Len(<<61>> \o v) >= 1 /\ (<<61>> \o v)[1] = 61
    BY <1>3, <2>1
  <2> QED BY <2>2, Zenon
<1>6. 38 \notin W /\ W \subseteq QueryByte
  BY QueryBytes
<1>7. FreeOf(k, {61})
  BY <1>2, FreeIs, QueryBytes
<1>8. 61 \in W
  OBVIOUS
<1> HIDE DEF W
<1>9. PICK w \in Seq(W) : w = k \o r /\ Len(w) >= 1
  <2>1. k \o r \in Seq(W) /\ Len(k \o r) = Len(k) + Len(r)
    BY <1>3, ConcatProperties
  <2>2. Len(k \o r) >= 1
    BY <1>3, <1>5, <2>1
  <2> QED BY <2>1, <2>2, Zenon
<1>10. w \in Seq(QueryByte)
  BY <1>6, SeqMonotonic
<1>11. FreeOf(w, {38})
  BY <1>6, FreeIs
<1>12. PairOf(w) = <<x, y>>
  <2>1. U!FindFirstOf(w, {61}) = k
    <3>1. Delimited(r, {61})
      BY <1>5 DEF Delimited
    <3> QED BY <1>3, <1>7, <1>9, <3>1, CutsBack
  <2>2. U!RemovePrefix(w, Len(k) + 1) = v
    BY <1>3, <1>5, <1>8, <1>9, RemovesDelimiter
  <2>3. U!PercentDecode(k) = x /\ U!PercentDecode(v) = y
    BY <1>2, QueryBytes, DecodesAny
  <2> QED BY <2>1, <2>2, <2>3, Zenon DEF PairOf
<1> QED BY <1>1, <1>4, <1>5, <1>9, <1>10, <1>11, <1>12

\* The words of a query are strings that Parse takes for a query.
LEMMA WordsAre ==
  ASSUME NEW q \in Seq(PairOfStrings)
  PROVE  Words(q) \in [1 .. Len(q) -> Seq(QueryByte)]
<1>1. ASSUME NEW i \in 1 .. Len(q)
      PROVE  Word(q[i]) \o <<38>> \in Seq(QueryByte)
  <2>1. q[i] \in PairOfStrings
    OBVIOUS
  <2>2. Word(q[i]) \in Seq(QueryByte) /\ <<38>> \in Seq(QueryByte)
    <3>1. 38 \in QueryByte
      BY QueryBytes
    <3>2. <<38>> \in Seq(QueryByte)
      BY <3>1
    <3> QED BY <2>1, <3>2, WordIs
  <2> QED BY <2>2, ConcatProperties
<1> QED BY <1>1 DEF Words

\* Strings in a row.
Assoc(a, b, c) == (a \o b) \o c = a \o (b \o c)

\* Concatenation is associative.
LEMMA AssocIs ==
  ASSUME NEW B, NEW a \in Seq(B), NEW b \in Seq(B), NEW c \in Seq(B)
  PROVE  Assoc(a, b, c) /\ a \o b \in Seq(B) /\ b \o c \in Seq(B)
BY ConcatAssociative, ConcatProperties DEF Assoc

InRow(t, k, e, v, d) ==
  (((t \o k) \o e) \o v) \o d = t \o ((k \o (e \o v)) \o d)

\* A key, an equals sign, a value and an ampersand are one word.
LEMMA Reassociate ==
  ASSUME NEW B, NEW t \in Seq(B), NEW k \in Seq(B), NEW e \in Seq(B), NEW v \in Seq(B),
         NEW d \in Seq(B)
  PROVE  InRow(t, k, e, v, d)
<1>1. PICK tk, ev, kev : tk = t \o k /\ ev = e \o v /\ kev = k \o ev
  OBVIOUS
<1>2. tk \in Seq(B) /\ ev \in Seq(B) /\ kev \in Seq(B)
  BY <1>1, AssocIs, Zenon
<1>3. Assoc(tk, e, v) /\ Assoc(t, k, ev) /\ Assoc(t, kev, d)
  BY <1>2, AssocIs, Zenon
<1>4. (tk \o e) \o v = tk \o ev
  BY <1>1, <1>3, Zenon DEF Assoc
<1>5. tk \o ev = t \o kev
  BY <1>1, <1>3, Zenon DEF Assoc
<1>6. (t \o kev) \o d = t \o (kev \o d)
  BY <1>3, Zenon DEF Assoc
<1> QED BY <1>1, <1>4, <1>5, <1>6, Zenon DEF InRow

\* One step of the loop of ToString.
LEMMA QueryStep ==
  ASSUME NEW t \in Seq(QueryByte), NEW p \in PairOfStrings
  PROVE  t \o U!PercentEncode(p[1], KV) \o <<61>> \o U!PercentEncode(p[2], KV) \o <<38>>
           = t \o (Word(p) \o <<38>>)
<1>1. PICK k, v, e, d \in Seq(QueryByte) :
         /\ k = U!PercentEncode(p[1], KV) /\ v = U!PercentEncode(p[2], KV)
         /\ e = <<61>> /\ d = <<38>>
  <2>1. p[1] \in Seq(Byte) /\ p[2] \in Seq(Byte)
    BY DEF PairOfStrings
  <2>2. /\ U!PercentEncode(p[1], KV) \in Seq(Written(KV))
        /\ U!PercentEncode(p[2], KV) \in Seq(Written(KV))
    BY <2>1, EncodeWrites
  <2>3. /\ U!PercentEncode(p[1], KV) \in Seq(QueryByte)
        /\ U!PercentEncode(p[2], KV) \in Seq(QueryByte)
    BY <2>2, QueryBytes, SeqMonotonic
  <2>4. 61 \in QueryByte /\ 38 \in QueryByte
    BY QueryBytes
  <2>5. <<61>> \in Seq(QueryByte) /\ <<38>> \in Seq(QueryByte)
    BY <2>4
  <2> QED BY <2>3, <2>5, Zenon
<1>2. (((t \o k) \o e) \o v) \o d = t \o ((k \o (e \o v)) \o d)
  <2>1. InRow(t, k, e, v, d)
    BY Reassociate
  <2> QED BY <2>1, Zenon DEF InRow
<1> QED BY <1>1, <1>2, Zenon DEF Word

\* QueryText is a question mark and the words joined.
LEMMA QueryJoins ==
  ASSUME NEW q \in Seq(PairOfStrings), q # <<>>
  PROVE  \E g : /\ Joins(g, Words(q), Len(q), QueryByte)
                /\ U!QueryText(q) = <<63>> \o g[Len(q)]
<1> DEFINE n == Len(q)
           words == Words(q)
           Step(t, i) == t \o U!PercentEncode(q[i][1], KV) \o <<61>>
                           \o U!PercentEncode(q[i][2], KV) \o <<38>>
           F(f) == [i \in 0 .. Len(q) |-> IF i = 0 THEN <<>> ELSE Step(f[i - 1], i)]
           Upto == CHOOSE f : f = F(f)
<1>1. n \in Nat /\ n \in 0..n /\ words \in [1..n -> Seq(QueryByte)]
  BY WordsAre
<1>2. \A i \in 1..n : words[i] = Word(q[i]) \o <<38>>
  BY DEF Words
<1> HIDE DEF words
<1>3. PICK g : Joins(g, words, n, QueryByte)
  BY <1>1, Concatenations
<1>4. U!QueryText(q) = <<63>> \o Upto[n]
  BY Zenon DEF U!QueryText, KV
<1> HIDE DEF Step
<1>5. ASSUME NEW i \in 1..n
      PROVE  g[i] = Step(g[i - 1], i)
  <2>1. i - 1 \in 0..n
    OBVIOUS
  <2>2. g[i - 1] \in Seq(QueryByte) /\ q[i] \in PairOfStrings
    BY <1>3, <2>1 DEF Joins
  <2>3. g[i] = g[i - 1] \o words[i]
    BY <1>3, Zenon DEF Joins
  <2>4. Step(g[i - 1], i) = g[i - 1] \o (Word(q[i]) \o <<38>>)
    BY <2>2, QueryStep, Zenon DEF Step
  <2> QED BY <1>2, <2>3, <2>4, Zenon
<1>6. g = F(g)
  <2>1. \A i \in 0..n : g[i] = IF i = 0 THEN <<>> ELSE Step(g[i - 1], i)
    <3>1. \A i \in 0..n : i # 0 => i \in 1..n
      BY <1>1
    <3> QED BY <1>3, <1>5, <3>1, Zenon DEF Joins
  <2>2. g = [i \in 0..n |-> g[i]]
    BY <1>3 DEF Joins
  <2> QED BY <2>1, <2>2
<1>7. Upto = F(Upto)
  <2> HIDE DEF F
  <2> QED BY <1>6
<1> HIDE DEF Upto
<1>8. Upto[n] = g[n]
  <2> DEFINE S == {i \in 0..n : Upto[i] = g[i]}
  <2>1. 0 \in S
    BY <1>1, <1>3, <1>7 DEF Joins
  <2>2. ASSUME NEW i \in 1..n, i - 1 \in S
        PROVE  i \in S
    <3>1. Upto[i - 1] = g[i - 1] /\ i \in 0..n /\ i # 0
      BY <2>2
    <3>2. Upto[i] = Step(Upto[i - 1], i)
      BY <1>7, <3>1
    <3>3. g[i] = Step(g[i - 1], i)
      BY <1>5
    <3> QED BY <3>1, <3>2, <3>3
  <2> HIDE DEF S
  <2>3. n \in S
    BY <1>1, <2>1, <2>2, UpTo
  <2> QED BY <2>3 DEF S
<1> HIDE DEF F
<1> QED BY <1>3, <1>4, <1>8 DEF words

\* The text is one of the concatenations and something after it.
Extends(a, w, B) == \E c \in Seq(B) : w = a \o c

\* It is so after each word.
LEMMA JoinRest ==
  ASSUME NEW B, NEW n \in Nat, NEW codes \in [1..n -> Seq(B)], NEW g, Joins(g, codes, n, B),
         NEW i \in 0..n
  PROVE  Extends(g[i], g[n], B)
<1>1. PICK a, w \in Seq(B) : a = g[i] /\ w = g[n]
  <2>1. n \in 0..n
    OBVIOUS
  <2>2. g[i] \in Seq(B) /\ g[n] \in Seq(B)
    BY <2>1, Zenon DEF Joins
  <2> QED BY <2>2, Zenon
<1>2. Begins(a, w)
  BY <1>1, JoinPrefix
<1> DEFINE m == Len(a)
           c == SubSeq(w, m + 1, Len(w))
<1>3. m \in Nat /\ m <= Len(w) /\ \A k \in 1..m : w[k] = a[k]
  BY <1>2 DEF Begins
<1>4. w = SubSeq(w, 1, m) \o c
  <2>1. 1 \in 1 .. Len(w) + 1 /\ m \in 1 - 1 .. Len(w) /\ Len(w) \in m .. Len(w)
    BY <1>3
  <2>2. SubSeq(w, 1, m) \o c = SubSeq(w, 1, Len(w))
    <3> HIDE DEF m
    <3> QED BY <2>1, ConcatAdjacentSubSeq
  <2>3. SubSeq(w, 1, Len(w)) = w
    BY SubSeqFull
  <2> QED BY <2>2, <2>3, Zenon
<1>5. SubSeq(w, 1, m) = a
  <2>1. PICK e \in Seq(B) : e = SubSeq(w, 1, m) /\ Len(e) = m /\ \A k \in 1..m : e[k] = w[k]
    BY <1>3
  <2>2. \A k \in 1..m : e[k] = a[k]
    BY <1>3, <2>1
  <2> QED BY <2>1, <2>2, SeqEqual
<1>6. c \in Seq(B)
  BY <1>3
<1> HIDE DEF c
<1> QED BY <1>1, <1>4, <1>5, <1>6, Zenon DEF Extends

\* Front leaves out the last byte.
LEMMA FrontIs ==
  ASSUME NEW B, NEW s \in Seq(B), s # <<>>
  PROVE  /\ Front(s) \in Seq(B) /\ Len(Front(s)) = Len(s) - 1
         /\ \A k \in 1 .. Len(s) - 1 : Front(s)[k] = s[k]
<1>1. PICK n \in Nat : n = Len(s) - 1 /\ n <= Len(s)
  <2>1. Len(s) - 1 \in Nat /\ Len(s) - 1 <= Len(s)
    OBVIOUS
  <2> QED BY <2>1, Zenon
<1>2. /\ SubSeq(s, 1, n) \in Seq(B) /\ Len(SubSeq(s, 1, n)) = n
      /\ \A k \in 1..n : SubSeq(s, 1, n)[k] = s[k]
  BY <1>1
<1> QED BY <1>1, <1>2, Zenon DEF Front

\* The last byte of two strings is the last byte of the second.
LEMMA FrontConcat ==
  ASSUME NEW B, NEW a \in Seq(B), NEW b \in Seq(B), b # <<>>
  PROVE  Front(a \o b) = a \o Front(b) /\ a \o b # <<>> /\ Front(b) \in Seq(B)
<1>1. PICK w \in Seq(B) : w = a \o b /\ w # <<>>
  <2>1. a \o b \in Seq(B) /\ a \o b # <<>>
    BY ConcatProperties
  <2> QED BY <2>1, Zenon
<1>2. Then(a, b, w)
  BY <1>1, ThenIs
<1>3. PICK fw, fb \in Seq(B) : fw = Front(w) /\ fb = Front(b)
  BY <1>1, FrontIs
<1>4. /\ Len(fw) = Len(w) - 1 /\ \A k \in 1 .. Len(w) - 1 : fw[k] = w[k]
      /\ Len(fb) = Len(b) - 1 /\ \A k \in 1 .. Len(b) - 1 : fb[k] = b[k]
  BY <1>1, <1>3, FrontIs
<1>5. PICK v \in Seq(B) : v = a \o fb
  <2>1. a \o fb \in Seq(B)
    BY ConcatProperties
  <2> QED BY <2>1, Zenon
<1>6. Then(a, fb, v)
  BY <1>5, ThenIs
<1>7. Len(fw) = Len(v) /\ Len(b) >= 1
  BY <1>2, <1>4, <1>6 DEF Then
<1>8. ASSUME NEW k \in 1 .. Len(fw)
      PROVE  fw[k] = v[k]
  <2>1. fw[k] = w[k]
    BY <1>4
  <2>2. CASE k <= Len(a)
    BY <1>2, <1>6, <2>1, <2>2 DEF Then
  <2>3. CASE k > Len(a)
    <3>1. PICK j \in 1 .. Len(fb) : k = Len(a) + j /\ j \in 1 .. Len(b)
      <4>1. k - Len(a) \in 1 .. Len(fb) /\ k - Len(a) \in 1 .. Len(b)
            /\ k = Len(a) + (k - Len(a))
        BY <1>4, <1>6, <1>7, <2>3 DEF Then
      <4> QED BY <4>1, Zenon
    <3>2. w[k] = b[j] /\ v[k] = fb[j]
      BY <1>2, <1>6, <3>1, Zenon DEF Then
    <3>3. fb[j] = b[j]
      BY <1>4, <3>1
    <3> QED BY <2>1, <3>2, <3>3
  <2> QED BY <2>2, <2>3
<1>9. fw = v
  BY <1>7, <1>8, SeqEqual
<1> QED BY <1>1, <1>3, <1>5, <1>9, Zenon

\* The words a, the word of p and its ampersand, the words c without the last byte.
InWords(text, a, p, c) == text = Front((a \o (Word(p) \o <<38>>)) \o c)

\* The field after the first i words is the next word, and then comes its end.
LEMMA FieldBack ==
  ASSUME NEW p \in PairOfStrings, NEW a \in Seq(QueryByte), NEW c \in Seq(QueryByte),
         NEW text, InWords(text, a, p, c)
  PROVE  /\ FieldAt(text, Len(a) + 1) = Word(p)
         /\ text \in Seq(QueryByte) /\ Len(a) + 1 <= Len(text)
<1>1. PICK w \in Seq(QueryByte) : w = Word(p) /\ Len(w) >= 1 /\ FreeOf(w, {38})
  <2>1. Word(p) \in Seq(QueryByte) /\ Len(Word(p)) >= 1 /\ FreeOf(Word(p), {38})
    BY WordIs
  <2> QED BY <2>1, Zenon
<1>2. PICK d \in Seq(QueryByte) : d = <<38>>
  <2>1. 38 \in QueryByte
    BY QueryBytes
  <2>2. <<38>> \in Seq(QueryByte)
    BY <2>1
  <2> QED BY <2>2, Zenon
<1>3. PICK aw, wd, dc : aw = a \o w /\ wd = w \o d /\ dc = d \o c
  OBVIOUS
<1>4. aw \in Seq(QueryByte) /\ wd \in Seq(QueryByte) /\ dc \in Seq(QueryByte)
  BY <1>3, AssocIs, Zenon
<1>5. Assoc(a, w, d) /\ Assoc(aw, d, c)
  BY <1>4, AssocIs, Zenon
<1>6. (a \o wd) \o c = aw \o dc
  BY <1>3, <1>5, Zenon DEF Assoc
<1>7. dc # <<>> /\ dc[1] = 38
  BY <1>2, <1>3
<1>8. PICK b \in Seq(QueryByte) : b = Front(dc) /\ Delimited(b, {38})
  <2>1. /\ Front(dc) \in Seq(QueryByte) /\ Len(Front(dc)) = Len(dc) - 1
        /\ \A k \in 1 .. Len(dc) - 1 : Front(dc)[k] = dc[k]
    BY <1>4, <1>7, FrontIs
  <2>2. PICK b \in Seq(QueryByte) : b = Front(dc) /\ Len(b) = Len(dc) - 1
                                    /\ \A k \in 1 .. Len(dc) - 1 : b[k] = dc[k]
    BY <2>1, Zenon
  <2>3. b # <<>> => b[1] = dc[1]
    <3>1. b # <<>> => 1 \in 1 .. Len(b)
      OBVIOUS
    <3> QED BY <2>2, <3>1
  <2>4. Delimited(b, {38})
    BY <1>7, <2>3 DEF Delimited
  <2> QED BY <2>2, <2>4
<1>9. text = aw \o b
  <2>1. Front(aw \o dc) = aw \o Front(dc)
    BY <1>4, <1>7, FrontConcat
  <2> QED BY <1>1, <1>2, <1>3, <1>6, <1>8, <2>1, Zenon DEF InWords
<1>10. PICK wb \in Seq(QueryByte) : wb = w \o b
  BY AssocIs, Zenon
<1>11. text = a \o wb
  <2>1. Assoc(a, w, b)
    BY AssocIs
  <2> QED BY <1>3, <1>9, <1>10, <2>1, Zenon DEF Assoc
<1>12. U!RemovePrefix(text, Len(a)) = wb
  BY <1>11, Removes
<1>13. U!FindFirstOf(wb, {38}) = w
  BY <1>1, <1>8, <1>10, CutsBack
<1>14. Len(a) + 1 - 1 = Len(a)
  OBVIOUS
<1>15. FieldAt(text, Len(a) + 1) = w
  BY <1>12, <1>13, <1>14 DEF FieldAt
<1>16. text \in Seq(QueryByte) /\ Len(a) + 1 <= Len(text)
  <2>1. Then(a, wb, text) /\ Then(w, b, wb) /\ text \in Seq(QueryByte)
    BY <1>10, <1>11, ThenIs, AssocIs
  <2> QED BY <1>1, <2>1 DEF Then
<1> QED BY <1>1, <1>15, <1>16

\* Parse reads the query that ToString wrote, without the last ampersand.
LEMMA PairsBack ==
  ASSUME NEW q \in Seq(PairOfStrings), q # <<>>, NEW g,
         Joins(g, Words(q), Len(q), QueryByte), NEW text, text = Front(g[Len(q)])
  PROVE  /\ U!QueryPairs(text) = q /\ text \in Seq(QueryByte) /\ text # <<>>
         /\ g[Len(q)] \in Seq(QueryByte) /\ g[Len(q)] # <<>>
         /\ g[Len(q)][Len(g[Len(q)])] = 38
<1> DEFINE n == Len(q)
           words == Words(q)
<1>1. n \in Nat /\ n >= 1 /\ words \in [1..n -> Seq(QueryByte)]
  BY WordsAre
<1>2. \A i \in 1..n : words[i] = Word(q[i]) \o <<38>> /\ q[i] \in PairOfStrings
  BY DEF Words
<1>3. Joins(g, words, n, QueryByte) /\ text = Front(g[n])
  OBVIOUS
<1>4. SubSeq(q, 1, n) = q /\ SubSeq(q, n + 1, n) = <<>>
  OBVIOUS
<1> HIDE DEF words, n
<1>5. \A i \in 0..n : g[i] \in Seq(QueryByte) /\ Len(g[i]) \in Nat
  <2>1. \A i \in 0..n : g[i] \in Seq(QueryByte)
    BY <1>3, Zenon DEF Joins
  <2> QED BY <2>1, LenProperties
<1>6. ASSUME NEW i \in 1..n
      PROVE  /\ FieldAt(text, Len(g[i - 1]) + 1) = Word(q[i])
             /\ text \in Seq(QueryByte) /\ Len(g[i - 1]) + 1 <= Len(text)
             /\ Len(g[i]) = Len(g[i - 1]) + Len(Word(q[i])) + 1
  <2>1. PICK a \in Seq(QueryByte) : a = g[i - 1]
    <3>1. i - 1 \in 0..n
      BY <1>1
    <3> QED BY <1>5, <3>1, Zenon
  <2>2. i \in 0..n
    BY <1>1
  <2>3. PICK c \in Seq(QueryByte) : g[n] = g[i] \o c
    <3>1. Extends(g[i], g[n], QueryByte)
      BY <1>1, <1>3, <2>2, JoinRest
    <3> QED BY <3>1 DEF Extends
  <2>4. g[i] = a \o (Word(q[i]) \o <<38>>)
    BY <1>2, <1>3, <2>1, Zenon DEF Joins
  <2>5. InWords(text, a, q[i], c)
    BY <1>3, <2>3, <2>4, Zenon DEF InWords
  <2>6. q[i] \in PairOfStrings
    BY <1>2
  <2>7. /\ FieldAt(text, Len(a) + 1) = Word(q[i])
        /\ text \in Seq(QueryByte) /\ Len(a) + 1 <= Len(text)
    BY <2>5, <2>6, FieldBack
  <2>8. Len(g[i]) = Len(a) + Len(Word(q[i])) + 1
    <3>1. PICK w \in Seq(QueryByte) : w = Word(q[i])
      BY <2>6, WordIs
    <3>2. 38 \in QueryByte
      BY QueryBytes
    <3>3. Len(a \o (w \o <<38>>)) = Len(a) + Len(w) + 1
      BY <3>2
    <3> QED BY <2>4, <3>1, <3>3, Zenon
  <2> QED BY <2>1, <2>7, <2>8
<1>7. text \in Seq(QueryByte) /\ text # <<>>
  <2>1. 1 \in 1..n /\ 1 - 1 \in 0..n
    BY <1>1
  <2>2. text \in Seq(QueryByte) /\ Len(g[1 - 1]) + 1 <= Len(text) /\ Len(g[1 - 1]) \in Nat
    BY <1>5, <1>6, <2>1, Zenon
  <2>3. PICK m \in Nat : m = Len(g[1 - 1])
    BY <2>2
  <2>4. m + 1 <= Len(text)
    BY <2>2, <2>3
  <2> QED BY <2>2, <2>4
<1>8. PICK T \in Seq(QueryByte) : T = g[n]
  <2>1. n \in 0..n
    BY <1>1
  <2> QED BY <1>5, <2>1, Zenon
<1>9. T # <<>> /\ T[Len(T)] = 38
  <2>1. n \in 1..n /\ n - 1 \in 0..n
    BY <1>1
  <2>2. Then(g[n - 1], words[n], g[n])
    BY <1>1, <1>3, <2>1, JoinStep
  <2>3. PICK w \in Seq(QueryByte) : w = Word(q[n])
    BY <1>2, <2>1, WordIs
  <2>4. PICK v : v = words[n] /\ v = w \o <<38>>
    BY <1>2, <2>1, <2>3
  <2>5. Len(v) = Len(w) + 1 /\ v[Len(w) + 1] = 38 /\ Len(w) \in Nat
    <3>1. 38 \in QueryByte
      BY QueryBytes
    <3> QED BY <2>4, <3>1
  <2>6. PICK m \in Nat : m = Len(g[n - 1])
    BY <1>5, <2>1
  <2>7. Len(v) \in 1 .. Len(v)
    BY <2>5
  <2>8. Len(T) = m + Len(v) /\ T[m + Len(v)] = v[Len(v)]
    BY <1>8, <2>2, <2>4, <2>6, <2>7, Zenon DEF Then
  <2>9. T[Len(T)] = 38 /\ Len(T) # 0
    BY <2>5, <2>8
  <2> QED BY <2>9
<1>10. Len(text) = Len(T) - 1
  BY <1>3, <1>8, <1>9, FrontIs
<1>11. PICK L \in Nat : L = Len(text)
  BY <1>7
<1>12. text \in Seq(Byte)
  BY <1>7, QueryBytes, SeqMonotonic
<1>13. PICK f : /\ \A i \in 1..(L + 2) : f[i] = Paired(text, f, i)
                /\ U!QueryPairs(text) = f[1]
  BY <1>11, <1>12, PairsAre
<1> DEFINE S == {i \in 0..n : f[Len(g[i]) + 1] = SubSeq(q, i + 1, n)}
<1>14. n \in S
  <2>1. Len(g[n]) + 1 = L + 2 /\ L + 2 \in 1..(L + 2) /\ L + 2 > L /\ n \in 0..n
    BY <1>1, <1>8, <1>10, <1>11
  <2>2. f[L + 2] = <<>>
    BY <1>11, <1>13, <2>1, Zenon DEF Paired
  <2> QED BY <1>4, <2>1, <2>2
<1>15. ASSUME NEW i \in 0..(n - 1), \A j \in (i + 1)..n : j \in S
       PROVE  i \in S
  <2>1. i + 1 \in 1..n /\ i \in 0..n /\ i + 1 - 1 = i /\ i + 1 \in (i + 1)..n /\ i + 1 \in 0..n
    BY <1>1
  <2>2. f[Len(g[i + 1]) + 1] = SubSeq(q, i + 1 + 1, n)
    BY <1>15, <2>1
  <2>3. PICK k \in 1..n : k = i + 1 /\ k - 1 = i
    BY <2>1
  <2>4. /\ FieldAt(text, Len(g[i]) + 1) = Word(q[i + 1])
        /\ Len(g[i]) + 1 <= Len(text)
        /\ Len(g[i + 1]) = Len(g[i]) + Len(Word(q[i + 1])) + 1
    BY <1>6, <2>3
  <2>5. PICK m, w : m \in Nat /\ m = Len(g[i]) /\ w = Word(q[i + 1])
    BY <1>5, <2>1
  <2>6. Len(w) \in Nat /\ PairOf(w) = q[i + 1]
    <3>1. q[i + 1] \in PairOfStrings
      BY <1>2, <2>1
    <3> QED BY <2>5, <3>1, WordIs
  <2>7. m + 1 \in 1..(L + 2) /\ ~(m + 1 > L) /\ m + 1 + Len(w) + 1 = Len(g[i + 1]) + 1
    <3>1. m + 1 <= L /\ Len(g[i + 1]) = m + Len(w) + 1
      BY <1>11, <2>4, <2>5, Zenon
    <3>2. \A x, y \in Nat : x + 1 <= L => /\ x + 1 \in 1..(L + 2) /\ ~(x + 1 > L)
                                          /\ x + 1 + y + 1 = x + y + 1 + 1
      OBVIOUS
    <3> QED BY <2>5, <2>6, <3>1, <3>2, Zenon
  <2>8. f[m + 1] = <<q[i + 1]>> \o f[Len(g[i + 1]) + 1]
    <3>1. FieldAt(text, m + 1) = w
      BY <2>4, <2>5
    <3>2. Paired(text, f, m + 1) = <<PairOf(w)>> \o f[m + 1 + Len(w) + 1]
      BY <1>11, <2>7, <3>1, Zenon DEF Paired
    <3> QED BY <1>13, <2>6, <2>7, <3>2, Zenon
  <2>9. <<q[i + 1]>> \o SubSeq(q, i + 2, n) = SubSeq(q, i + 1, n)
    <3>1. i \in Nat /\ i < n
      BY <1>1
    <3> QED BY <3>1, RestBegins DEF n
  <2>10. i + 1 + 1 = i + 2
    BY <2>1
  <2>11. f[Len(g[i]) + 1] = SubSeq(q, i + 1, n)
    BY <2>2, <2>5, <2>8, <2>9, <2>10, Zenon
  <2> QED BY <2>1, <2>11
<1> HIDE DEF S
<1>16. 0 \in S
  <2>1. 0 \in 0..n
    BY <1>1
  <2> QED BY <1>1, <1>14, <1>15, <2>1, DownFrom
<1>17. f[1] = q
  <2>1. Len(g[0]) = 0
    BY <1>3 DEF Joins
  <2>2. f[Len(g[0]) + 1] = SubSeq(q, 0 + 1, n)
    BY <1>16 DEF S
  <2>3. 0 + 1 = 1
    OBVIOUS
  <2> QED BY <1>4, <2>1, <2>2, <2>3
<1> QED BY <1>7, <1>8, <1>9, <1>13, <1>17 DEF n

-----------------------------------------------------------------------------
(* The parts that Parse cuts out of a text *)

SchemeOf(t) == U!FindFirstOf(t, {58})
AfterScheme(t) == U!RemovePrefix(t, Len(SchemeOf(t)) + 1)

Slashes(r) == U!StartsWith(r, 47) /\ U!StartsWith(U!RemovePrefix(r, 1), 47)
AuthOf(r) == IF Slashes(r) THEN U!FindFirstOf(U!RemovePrefix(r, 2), {47, 63, 35}) ELSE <<>>
AfterAuth(r) == IF Slashes(r) THEN U!RemovePrefix(r, 2 + Len(AuthOf(r))) ELSE r

PathOf(r) == U!FindFirstOf(r, {63, 35})
AfterPath(r) == U!RemovePrefix(r, Len(PathOf(r)))

Asks(r) == U!StartsWith(r, 63)
QueryOf(r) == IF Asks(r) THEN U!FindFirstOf(U!RemovePrefix(r, 1), {35}) ELSE <<>>
AfterQuery(r) == IF Asks(r) THEN U!RemovePrefix(r, 1 + Len(QueryOf(r))) ELSE r

FragmentOf(r) == IF U!StartsWith(r, 35) THEN U!RemovePrefix(r, 1) ELSE <<>>

\* The parts that Parse rejects, and what it makes of the others.
Refused(t, scheme, asks, query, fragment) ==
  \/ scheme = <<>> \/ scheme = t
  \/ \E i \in 1 .. Len(scheme) : scheme[i] \notin U!kURISchemeUnreseredChars
  \/ scheme[1] \notin U!Alpha
  \/ asks /\ (query = <<>> \/ ~U!IsQueryOrFragmentString(query))
  \/ ~U!IsQueryOrFragmentString(fragment)
Made(scheme, auth, path, query, fragment) ==
  [ok |-> TRUE, scheme |-> scheme, authority |-> U!PercentDecode(auth),
   path |-> U!PercentDecode(path), query |-> U!QueryPairs(query),
   fragment |-> U!PercentDecode(fragment)]

\* The text t has these parts.
HasParts(t, scheme, auth, path, asks, query, fragment) ==
  LET r2 == AfterAuth(AfterScheme(t))
      r3 == AfterPath(r2)
  IN  /\ scheme = SchemeOf(t) /\ auth = AuthOf(AfterScheme(t)) /\ path = PathOf(r2)
      /\ asks = Asks(r3) /\ query = QueryOf(r3) /\ fragment = FragmentOf(AfterQuery(r3))

\* Parse refuses the text or makes a URI of its parts.
LEMMA ParseIs ==
  ASSUME NEW t, NEW scheme, NEW auth, NEW path, NEW asks, NEW query, NEW fragment,
         HasParts(t, scheme, auth, path, asks, query, fragment)
  PROVE  U!Parse(t) = IF Refused(t, scheme, asks, query, fragment) THEN U!Invalid
                      ELSE Made(scheme, auth, path, query, fragment)
BY Zenon DEF U!Parse, HasParts, Refused, Made, SchemeOf, AfterScheme, Slashes, AuthOf,
             AfterAuth, PathOf, AfterPath, Asks, QueryOf, AfterQuery, FragmentOf

\* A first byte, and what StartsWith says of it.
LEMMA ByteFirst ==
  ASSUME NEW c \in Byte, NEW b \in Seq(Byte), NEW r, r = <<c>> \o b
  PROVE  /\ r \in Seq(Byte) /\ r # <<>> /\ r[1] = c /\ Len(r) = Len(b) + 1
         /\ U!RemovePrefix(r, 1) = b
         /\ \A d : U!StartsWith(r, d) <=> d = c
<1>1. r \in Seq(Byte) /\ r # <<>> /\ r[1] = c /\ Len(r) = Len(b) + 1
  OBVIOUS
<1>2. PICK a \in Seq(Byte) : a = <<c>> /\ 1 = Len(a)
  <2>1. <<c>> \in Seq(Byte) /\ 1 = Len(<<c>>)
    OBVIOUS
  <2> QED BY <2>1, Zenon
<1>3. U!RemovePrefix(a \o b, 1) = b
  BY <1>2, Removes
<1>4. \A d : U!StartsWith(r, d) <=> d = c
  BY <1>1, Zenon DEF U!StartsWith
<1> QED BY <1>1, <1>2, <1>3, <1>4

\* The case of ByteFirst that the lemmas below need.
LEMMA Starts ==
  ASSUME NEW c \in Byte, NEW b \in Seq(Byte), NEW r, r = <<c>> \o b
  PROVE  U!StartsWith(r, c) /\ U!RemovePrefix(r, 1) = b
<1>1. U!StartsWith(r, c) <=> c = c
  BY ByteFirst
<1>2. U!RemovePrefix(r, 1) = b
  BY ByteFirst
<1> QED BY <1>1, <1>2

\* RemovePrefix with the whole text named.
Concat(w, a, b) == w = a \o b

\* What is left behind a prefix.
LEMMA RemovesFrom ==
  ASSUME NEW a \in Seq(Byte), NEW b \in Seq(Byte), NEW w, Concat(w, a, b)
  PROVE  U!RemovePrefix(w, Len(a)) = b
BY Removes, Zenon DEF Concat

\* The scheme is what is written before the colon.
BeforeColon(t, a, r) == t = a \o (<<58>> \o r)

\* Parse cuts the text there.
LEMMA SchemeBack ==
  ASSUME NEW a \in Seq(Byte), FreeOf(a, {58}), NEW r \in Seq(Byte), NEW t,
         BeforeColon(t, a, r)
  PROVE  SchemeOf(t) = a /\ AfterScheme(t) = r /\ a # t
<1>0. t = a \o (<<58>> \o r)
  BY Zenon DEF BeforeColon
<1>1. PICK d \in Byte, b \in Seq(Byte) : d = 58 /\ b = <<58>> \o r /\ b # <<>> /\ b[1] = 58
  <2>1. 58 \in Byte
    BY DEF Byte
  <2>2. <<58>> \o r \in Seq(Byte) /\ <<58>> \o r # <<>> /\ (<<58>> \o r)[1] = 58
    BY <2>1
  <2> QED BY <2>1, <2>2, Zenon
<1>2. SchemeOf(t) = a
  <2>1. Delimited(b, {58})
    BY <1>1 DEF Delimited
  <2> QED BY <1>0, <1>1, <2>1, CutsBack DEF SchemeOf
<1>3. PICK n : n = Len(a) + 1
  OBVIOUS
<1>4. U!RemovePrefix(t, n) = r
  BY <1>0, <1>1, <1>3, RemovesDelimiter
<1>5. a # t
  <2>1. Then(a, b, t)
    BY <1>0, <1>1, ThenIs
  <2>2. Len(b) # 0
    BY <1>1
  <2> QED BY <2>1, <2>2 DEF Then
<1> QED BY <1>2, <1>3, <1>4, <1>5, Zenon DEF AfterScheme

\* The authority is what is written between two slashes and a delimiter.
AfterSlashes(t, a, r) == t = <<47, 47>> \o (a \o r)

\* Parse cuts the text there.
LEMMA AuthBack ==
  ASSUME NEW a \in Seq(Byte), FreeOf(a, {47, 63, 35}), NEW r \in Seq(Byte),
         Delimited(r, {47, 63, 35}), NEW t, AfterSlashes(t, a, r)
  PROVE  AuthOf(t) = a /\ AfterAuth(t) = r
<1>1. PICK s \in Seq(Byte) : s = <<47, 47>> /\ Len(s) = 2 /\ s[1] = 47 /\ s[2] = 47
  <2>1. 47 \in Byte
    BY DEF Byte
  <2>2. /\ <<47, 47>> \in Seq(Byte) /\ Len(<<47, 47>>) = 2
        /\ <<47, 47>>[1] = 47 /\ <<47, 47>>[2] = 47
    BY <2>1
  <2> QED BY <2>2, Zenon
<1>2. PICK ar : ar = a \o r /\ ar \in Seq(Byte)
  BY AssocIs, Zenon
<1>3. PICK sa : sa = s \o a /\ sa \in Seq(Byte) /\ Len(sa) = 2 + Len(a)
  <2>1. s \o a \in Seq(Byte) /\ Len(s \o a) = Len(s) + Len(a)
    BY ConcatProperties
  <2> QED BY <1>1, <2>1
<1>4. t = s \o ar /\ t = sa \o r
  <2>1. Assoc(s, a, r)
    BY AssocIs
  <2> QED BY <1>1, <1>2, <1>3, <2>1, Zenon DEF Assoc, AfterSlashes
<1>5. U!RemovePrefix(t, 2) = ar
  <2>1. Concat(t, s, ar) /\ 2 = Len(s)
    BY <1>1, <1>4, Zenon DEF Concat
  <2>2. U!RemovePrefix(t, Len(s)) = ar
    BY <1>2, <2>1, RemovesFrom
  <2> QED BY <2>1, <2>2
<1>6. U!RemovePrefix(t, 2 + Len(a)) = r
  <2>1. Concat(t, sa, r) /\ 2 + Len(a) = Len(sa)
    BY <1>3, <1>4, Zenon DEF Concat
  <2>2. U!RemovePrefix(t, Len(sa)) = r
    BY <1>3, <2>1, RemovesFrom
  <2> QED BY <2>1, <2>2, Zenon
<1>7. Slashes(t)
  <2>1. Then(s, ar, t) /\ t \in Seq(Byte)
    BY <1>2, <1>4, ThenIs, AssocIs
  <2>2. Len(t) >= 2 /\ t[1] = 47 /\ t[2] = 47
    BY <1>1, <2>1 DEF Then
  <2>3. t # <<>>
    BY <2>2
  <2>4. PICK p \in Seq(Byte) : /\ p = U!RemovePrefix(t, 1) /\ Len(p) >= 1 /\ p[1] = 47
    <3>1. PICK L \in Nat : L = Len(t) /\ L >= 2
      BY <2>1, <2>2
    <3>2. /\ SubSeq(t, 2, L) \in Seq(Byte) /\ Len(SubSeq(t, 2, L)) = L - 1
          /\ SubSeq(t, 2, L)[1] = t[2]
      BY <2>1, <3>1
    <3>3. L - 1 >= 1 /\ 1 + 1 = 2
      BY <3>1
    <3> QED BY <2>2, <3>1, <3>2, <3>3, Zenon DEF U!RemovePrefix
  <2>5. p # <<>>
    BY <2>4
  <2> QED BY <2>2, <2>3, <2>4, <2>5, Zenon DEF Slashes, U!StartsWith
<1>8. U!FindFirstOf(ar, {47, 63, 35}) = a
  BY <1>2, CutsBack
<1>9. AuthOf(t) = a
  BY <1>5, <1>7, <1>8, Zenon DEF AuthOf
<1> QED BY <1>6, <1>7, <1>9, Zenon DEF AfterAuth

\* The path is what is written before a question mark or a number sign.
LEMMA PathBack ==
  ASSUME NEW a \in Seq(Byte), FreeOf(a, {63, 35}), NEW r \in Seq(Byte),
         Delimited(r, {63, 35}), NEW t, t = a \o r
  PROVE  PathOf(t) = a /\ AfterPath(t) = r
<1>1. PathOf(t) = a
  BY CutsBack DEF PathOf
<1>2. U!RemovePrefix(a \o r, Len(a)) = r
  BY Removes
<1> QED BY <1>1, <1>2, Zenon DEF AfterPath

\* The query is what is written between a question mark and a number sign.
AfterMark(t, a, r) == t = <<63>> \o (a \o r)

\* Parse cuts the text there.
LEMMA QueryBack ==
  ASSUME NEW a \in Seq(Byte), FreeOf(a, {35}), NEW r \in Seq(Byte),
         Delimited(r, {35}), NEW t, AfterMark(t, a, r)
  PROVE  Asks(t) /\ QueryOf(t) = a /\ AfterQuery(t) = r
<1>1. PICK ar : ar = a \o r /\ ar \in Seq(Byte)
  BY AssocIs, Zenon
<1>2. 63 \in Byte
  BY DEF Byte
<1>3. U!RemovePrefix(t, 1) = ar /\ Asks(t)
  <2>1. t = <<63>> \o ar
    BY <1>1, Zenon DEF AfterMark
  <2> QED BY <1>1, <1>2, <2>1, Starts, Zenon DEF Asks
<1>4. QueryOf(t) = a
  <2>1. U!FindFirstOf(ar, {35}) = a
    BY <1>1, CutsBack
  <2> QED BY <1>3, <2>1, Zenon DEF QueryOf
<1>5. U!RemovePrefix(t, 1 + Len(a)) = r
  <2>1. PICK s \in Seq(Byte) : s = <<63>> /\ Len(s) = 1
    <3>1. <<63>> \in Seq(Byte) /\ Len(<<63>>) = 1
      BY <1>2
    <3> QED BY <3>1, Zenon
  <2>2. PICK sa : sa = s \o a /\ sa \in Seq(Byte) /\ Len(sa) = 1 + Len(a)
    <3>1. s \o a \in Seq(Byte) /\ Len(s \o a) = Len(s) + Len(a)
      BY ConcatProperties
    <3> QED BY <2>1, <3>1
  <2>3. t = sa \o r
    <3>1. Assoc(s, a, r)
      BY AssocIs
    <3> QED BY <2>1, <2>2, <3>1, Zenon DEF Assoc, AfterMark
  <2>4. Concat(t, sa, r)
    BY <2>3, Zenon DEF Concat
  <2>5. U!RemovePrefix(t, Len(sa)) = r
    BY <2>2, <2>4, RemovesFrom
  <2> QED BY <2>2, <2>5, Zenon
<1> QED BY <1>3, <1>4, <1>5, Zenon DEF AfterQuery

\* Without a question mark there is no query.
LEMMA NoQuery ==
  ASSUME NEW t \in Seq(Byte), Delimited(t, {35})
  PROVE  ~Asks(t) /\ QueryOf(t) = <<>> /\ AfterQuery(t) = t
<1>1. ~Asks(t)
  BY DEF Asks, U!StartsWith, Delimited
<1> QED BY <1>1, Zenon DEF QueryOf, AfterQuery

\* The fragment is what is written after the number sign.
AfterNumberSign(t, a) == t = <<35>> \o a

\* Parse cuts the text there.
LEMMA FragmentBack ==
  ASSUME NEW a \in Seq(Byte), NEW t, AfterNumberSign(t, a)
  PROVE  FragmentOf(t) = a
<1>1. 35 \in Byte
  BY DEF Byte
<1>2. U!StartsWith(t, 35) /\ U!RemovePrefix(t, 1) = a
  BY <1>1, Starts, Zenon DEF AfterNumberSign
<1> QED BY <1>2, Zenon DEF FragmentOf

\* An empty rest has no fragment.
LEMMA NoFragment == FragmentOf(<<>>) = <<>>
BY DEF FragmentOf, U!StartsWith

-----------------------------------------------------------------------------
(* What ToString writes *)

\* Which delimiters the sets leave out.
LEMMA Charsets ==
  /\ Written(U!kURIPathUnreservedChars) \subseteq Byte
  /\ 63 \notin Written(U!kURIPathUnreservedChars) /\ 35 \notin Written(U!kURIPathUnreservedChars)
  /\ 47 \in U!kURIPathUnreservedChars /\ 37 \notin U!kURIPathUnreservedChars
  /\ Written(U!kURIAuthUnreservedChars) \subseteq Byte
  /\ 47 \notin Written(U!kURIAuthUnreservedChars) /\ 63 \notin Written(U!kURIAuthUnreservedChars)
  /\ 35 \notin Written(U!kURIAuthUnreservedChars) /\ 37 \notin U!kURIAuthUnreservedChars
  /\ 58 \notin U!kURISchemeUnreseredChars
  /\ Written(U!kURIFragmentUnreseredChars) \subseteq QueryByte
  /\ 37 \notin U!kURIFragmentUnreseredChars /\ 35 \notin QueryByte
BY DEF Written, Hex, QueryByte, Byte, U!kURIPathUnreservedChars, U!kURIAuthUnreservedChars,
       U!kURISchemeUnreseredChars, U!kURIFragmentUnreseredChars, U!kURIUnreservedChars,
       U!Alpha, U!Digits, U!Marks

\* A concatenation is a string.
LEMMA ConcatIs ==
  ASSUME NEW a \in Seq(Byte), NEW b \in Seq(Byte), NEW w, Concat(w, a, b)
  PROVE  w \in Seq(Byte)
BY ConcatProperties DEF Concat

\* The last byte of a concatenation.
LEMMA LastOf ==
  ASSUME NEW a \in Seq(Byte), NEW b \in Seq(Byte), b # <<>>, NEW w, Concat(w, a, b)
  PROVE  w[Len(w)] = b[Len(b)] /\ w # <<>>
<1>1. Then(a, b, a \o b)
  BY ThenIs
<1>2. PICK v : v = a \o b
  OBVIOUS
<1>3. Len(b) \in 1 .. Len(b)
  OBVIOUS
<1>4. v[Len(v)] = b[Len(b)]
  BY <1>1, <1>2, <1>3, Zenon DEF Then
<1>5. v # <<>>
  <2>1. Len(v) # 0
    BY <1>1, <1>2, <1>3 DEF Then
  <2> QED BY <2>1
<1> QED BY <1>2, <1>4, <1>5, Zenon DEF Concat

\* The query q in the text that ToString returns.
QueryPart(q, Q) ==
  IF q = <<>> THEN Q = <<>>
  ELSE \E body \in Seq(QueryByte) : /\ body # <<>> /\ U!QueryPairs(body) = q
                                    /\ Q = <<63>> \o body

\* It is the text of the loop without the last ampersand.
LoopText(q, T, Q) == IF q = <<>> THEN T = <<>>
                     ELSE T # <<>> /\ T[Len(T)] = 38 /\ Front(T) = Q

\* QueryText writes such a text for every list of pairs.
LEMMA QueryWritten ==
  ASSUME NEW q \in Seq(PairOfStrings)
  PROVE  \E T, Q \in Seq(Byte) : /\ T = U!QueryText(q)
                                 /\ QueryPart(q, Q) /\ LoopText(q, T, Q)
<1>1. CASE q = <<>>
  <2>1. U!QueryText(q) = <<>>
    BY <1>1, Zenon DEF U!QueryText
  <2>2. <<>> \in Seq(Byte)
    BY EmptySeq, Zenon
  <2> QED BY <1>1, <2>1, <2>2, Zenon DEF QueryPart, LoopText
<1>2. CASE q # <<>>
  <2>1. PICK g : /\ Joins(g, Words(q), Len(q), QueryByte)
                 /\ U!QueryText(q) = <<63>> \o g[Len(q)]
    BY <1>2, QueryJoins
  <2>2. PICK body : body = Front(g[Len(q)])
    OBVIOUS
  <2>3. /\ U!QueryPairs(body) = q /\ body \in Seq(QueryByte) /\ body # <<>>
        /\ g[Len(q)] \in Seq(QueryByte) /\ g[Len(q)] # <<>>
        /\ g[Len(q)][Len(g[Len(q)])] = 38
    BY <1>2, <2>1, <2>2, PairsBack
  <2>4. PICK w : w = g[Len(q)]
    OBVIOUS
  <2>5. body \in Seq(Byte) /\ w \in Seq(Byte)
    BY <2>3, <2>4, QueryBytes, SeqMonotonic
  <2>6. PICK m \in Seq(Byte) : m = <<63>>
    <3>1. 63 \in Byte
      BY DEF Byte
    <3>2. <<63>> \in Seq(Byte)
      BY <3>1
    <3> QED BY <3>2, Zenon
  <2>7. PICK T, Q : T = m \o w /\ Q = m \o body
    OBVIOUS
  <2>8. T \in Seq(Byte) /\ Q \in Seq(Byte)
    BY <2>5, <2>7, AssocIs, Zenon
  <2>9. Front(T) = Q
    BY <2>2, <2>3, <2>4, <2>5, <2>7, FrontConcat, Zenon
  <2>10. T[Len(T)] = 38 /\ T # <<>>
    <3>1. Concat(T, m, w)
      BY <2>7, Zenon DEF Concat
    <3>2. T[Len(T)] = w[Len(w)] /\ T # <<>>
      BY <2>3, <2>4, <2>5, <3>1, LastOf
    <3> QED BY <2>3, <2>4, <3>2
  <2>11. QueryPart(q, Q)
    BY <1>2, <2>3, <2>6, <2>7, Zenon DEF QueryPart
  <2>12. LoopText(q, T, Q)
    BY <1>2, <2>9, <2>10, Zenon DEF LoopText
  <2>13. T = U!QueryText(q)
    BY <2>1, <2>4, <2>6, <2>7, Zenon
  <2> QED BY <2>8, <2>11, <2>12, <2>13
<1> QED BY <1>1, <1>2

\* ToString drops the last ampersand of the query, and no other.
Dropped(w, cut) == cut = IF w[Len(w)] = 38 THEN SubSeq(w, 1, Len(w) - 1) ELSE w

\* So ToString ends in the query as Parse expects it.
LEMMA DropsAmpersand ==
  ASSUME NEW q, NEW T \in Seq(Byte), NEW Q \in Seq(Byte), LoopText(q, T, Q), QueryPart(q, Q),
         NEW a \in Seq(Byte), q = <<>> => a[Len(a)] # 38, NEW w, Concat(w, a, T),
         NEW cut, Dropped(w, cut)
  PROVE  Concat(cut, a, Q)
<1>1. CASE q = <<>>
  <2>1. T = <<>> /\ Q = <<>>
    BY <1>1, Zenon DEF LoopText, QueryPart
  <2>2. a \o <<>> = a
    BY ConcatEmptySeq
  <2>3. w = a
    BY <2>1, <2>2, Zenon DEF Concat
  <2> QED BY <1>1, <2>1, <2>2, <2>3, Zenon DEF Dropped, Concat
<1>2. CASE q # <<>>
  <2>1. T # <<>> /\ T[Len(T)] = 38 /\ Front(T) = Q
    BY <1>2, Zenon DEF LoopText
  <2>2. w[Len(w)] = 38
    BY <2>1, LastOf
  <2>3. Front(w) = a \o Q
    <3>1. Front(a \o T) = a \o Front(T)
      BY <2>1, FrontConcat, SMTT(30)
    <3> QED BY <2>1, <3>1, Zenon DEF Concat
  <2> QED BY <2>2, <2>3, Zenon DEF Front, Dropped, Concat
<1> QED BY <1>1, <1>2

\* A URI with these parts, and the text of two of them.
Uri(scheme, authority, path, query, fragment) ==
  [ok |-> TRUE, scheme |-> scheme, authority |-> authority, path |-> path,
   query |-> query, fragment |-> fragment]
AuthText(authority) ==
  IF authority = <<>> THEN <<>>
  ELSE <<47, 47>> \o U!PercentEncode(authority, U!kURIAuthUnreservedChars)
FragmentText(fragment) ==
  IF fragment = <<>> THEN <<>>
  ELSE <<35>> \o U!PercentEncode(fragment, U!kURIFragmentUnreseredChars)

\* Six strings in a row.
RowOf(a, b, c, d, e, f, w) == w = a \o (b \o (c \o (d \o (e \o f))))

\* Joined from the left or from the right, a row is the same.
LEMMA RowIs ==
  ASSUME NEW a \in Seq(Byte), NEW b \in Seq(Byte), NEW c \in Seq(Byte), NEW d \in Seq(Byte),
         NEW e \in Seq(Byte), NEW f \in Seq(Byte)
  PROVE  RowOf(a, b, c, d, e, f, ((((a \o b) \o c) \o d) \o e) \o f)
<1>1. PICK ab, abc, abcd, ef, def, cdef :
         /\ ab = a \o b /\ abc = ab \o c /\ abcd = abc \o d
         /\ ef = e \o f /\ def = d \o ef /\ cdef = c \o def
  OBVIOUS
<1>2. ab \in Seq(Byte) /\ ef \in Seq(Byte)
  BY <1>1, AssocIs, Zenon
<1>3. abc \in Seq(Byte) /\ def \in Seq(Byte)
  BY <1>1, <1>2, AssocIs, Zenon
<1>4. abcd \in Seq(Byte) /\ cdef \in Seq(Byte)
  BY <1>1, <1>3, AssocIs, Zenon
<1>5. /\ Assoc(abcd, e, f) /\ Assoc(abc, d, ef) /\ Assoc(ab, c, def) /\ Assoc(a, b, cdef)
  BY <1>2, <1>3, <1>4, AssocIs, Zenon
<1>6. (abcd \o e) \o f = abcd \o ef
  BY <1>1, <1>5, Zenon DEF Assoc
<1>7. abcd \o ef = abc \o def
  BY <1>1, <1>5, Zenon DEF Assoc
<1>8. abc \o def = ab \o cdef
  BY <1>1, <1>5, Zenon DEF Assoc
<1>9. ab \o cdef = a \o (b \o cdef)
  BY <1>1, <1>5, Zenon DEF Assoc
<1> QED BY <1>1, <1>6, <1>7, <1>8, <1>9, Zenon DEF RowOf

\* The strings that ToString joins.
LEMMA PartsWritten ==
  ASSUME NEW au \in Seq(Byte), NEW pa \in Seq(Byte), NEW fr \in Seq(Byte)
  PROVE  /\ AuthText(au) \in Seq(Byte) /\ FragmentText(fr) \in Seq(Byte)
         /\ U!PercentEncode(pa, U!kURIPathUnreservedChars) \in Seq(Byte)
         /\ U!PercentEncode(au, U!kURIAuthUnreservedChars) \in Seq(Byte)
         /\ U!PercentEncode(fr, U!kURIFragmentUnreseredChars) \in Seq(QueryByte)
         /\ U!PercentEncode(fr, U!kURIFragmentUnreseredChars) \in Seq(Byte)
<1>1. U!PercentEncode(pa, U!kURIPathUnreservedChars) \in Seq(Byte)
  BY EncodeWrites, Charsets, SeqMonotonic
<1>2. U!PercentEncode(au, U!kURIAuthUnreservedChars) \in Seq(Byte)
  BY EncodeWrites, Charsets, SeqMonotonic
<1>3. U!PercentEncode(fr, U!kURIFragmentUnreseredChars) \in Seq(QueryByte)
  BY EncodeWrites, Charsets, SeqMonotonic
<1>4. U!PercentEncode(fr, U!kURIFragmentUnreseredChars) \in Seq(Byte)
  BY <1>3, QueryBytes, SeqMonotonic
<1>5. <<47, 47>> \in Seq(Byte) /\ <<35>> \in Seq(Byte) /\ <<>> \in Seq(Byte)
  <2>1. 47 \in Byte /\ 35 \in Byte
    BY DEF Byte
  <2> QED BY <2>1
<1>6. <<47, 47>> \o U!PercentEncode(au, U!kURIAuthUnreservedChars) \in Seq(Byte)
  BY <1>2, <1>5, AssocIs, Zenon
<1>7. <<35>> \o U!PercentEncode(fr, U!kURIFragmentUnreseredChars) \in Seq(Byte)
  BY <1>4, <1>5, AssocIs, Zenon
<1> QED BY <1>1, <1>2, <1>3, <1>4, <1>5, <1>6, <1>7, Zenon DEF AuthText, FragmentText

\* Before the query there is an ampersand at the end only in the ambiguous URIs.
LEMMA NoAmpersand ==
  ASSUME NEW sc \in Seq(Byte), NEW au \in Seq(Byte), NEW pa \in Seq(Byte),
         NEW A \in Seq(Byte), A = AuthText(au),
         NEW P \in Seq(Byte), P = U!PercentEncode(pa, U!kURIPathUnreservedChars),
         NEW c \in Seq(Byte), c # <<>>, c[Len(c)] = 58,
         pa # <<>> => pa[Len(pa)] # 38,
         pa = <<>> /\ au # <<>> => au[Len(au)] # 38,
         NEW x, NEW y, NEW w, Concat(x, sc, c), Concat(y, x, A), Concat(w, y, P)
  PROVE  w[Len(w)] # 38
<1>2. x \in Seq(Byte)
  BY ConcatIs
<1>3. y \in Seq(Byte)
  BY <1>2, ConcatIs
<1>5. CASE pa # <<>>
  <2>1. P # <<>>
    BY <1>5, EncodeBegins
  <2>2. w[Len(w)] = P[Len(P)]
    BY <1>3, <2>1, LastOf
  <2>3. P[Len(P)] # 38
    BY <1>5, EncodeEnds
  <2> QED BY <2>2, <2>3
<1>6. ASSUME pa = <<>>
      PROVE  w = y
  <2>1. P = <<>>
    <3>1. U!PercentEncode(pa, U!kURIPathUnreservedChars) = <<>>
      BY <1>6, EncodeEmpty, Zenon
    <3> QED BY <3>1, Zenon
  <2>2. y \o <<>> = y
    BY <1>3, ConcatEmptySeq
  <2> QED BY <2>1, <2>2, Zenon DEF Concat
<1>7. CASE pa = <<>> /\ au # <<>>
  <2>1. PICK s, ea : s = <<47, 47>> /\ ea = U!PercentEncode(au, U!kURIAuthUnreservedChars)
    OBVIOUS
  <2>2. s \in Seq(Byte) /\ ea \in Seq(Byte)
    <3>1. 47 \in Byte
      BY DEF Byte
    <3>2. s \in Seq(Byte)
      BY <2>1, <3>1
    <3> QED BY <2>1, <3>2, PartsWritten
  <2>3. Concat(A, s, ea)
    BY <1>7, <2>1, Zenon DEF Concat, AuthText
  <2>4. ea # <<>>
    BY <1>7, <2>1, EncodeBegins
  <2>5. A[Len(A)] = ea[Len(ea)] /\ A # <<>>
    BY <2>2, <2>3, <2>4, LastOf
  <2>6. y[Len(y)] = A[Len(A)]
    BY <1>2, <1>3, <2>5, LastOf
  <2>7. ea[Len(ea)] # 38
    BY <1>7, <2>1, EncodeEnds
  <2> QED BY <1>6, <1>7, <2>5, <2>6, <2>7
<1>8. CASE pa = <<>> /\ au = <<>>
  <2>1. A = <<>>
    BY <1>8, Zenon DEF AuthText
  <2>2. x \o <<>> = x
    BY <1>2, ConcatEmptySeq
  <2>3. y = x
    BY <2>1, <2>2, Zenon DEF Concat
  <2>5. x[Len(x)] = 58
    BY LastOf
  <2>6. w[Len(w)] = 58
    BY <1>6, <1>8, <2>3, <2>5
  <2> QED BY <2>6
<1> QED BY <1>5, <1>7, <1>8

\* The text of a URI that is not ambiguous.
LEMMA ToStringIs ==
  ASSUME NEW sc \in Seq(Byte), NEW au \in Seq(Byte), NEW pa \in Seq(Byte),
         NEW qu \in Seq(PairOfStrings), NEW fr \in Seq(Byte),
         \A i \in 1 .. Len(sc) : sc[i] \in U!kURISchemeUnreseredChars,
         NEW u, u = Uri(sc, au, pa, qu, fr), ~U!Ambiguous(u)
  PROVE  \E Q \in Seq(Byte) :
           /\ QueryPart(qu, Q)
           /\ RowOf(sc, <<58>>, AuthText(au), U!PercentEncode(pa, U!kURIPathUnreservedChars),
                    Q, FragmentText(fr), U!ToString(u))
<1>1. PICK A, P, F \in Seq(Byte) : /\ A = AuthText(au) /\ F = FragmentText(fr)
                                   /\ P = U!PercentEncode(pa, U!kURIPathUnreservedChars)
  BY PartsWritten
<1>2. PICK T, Q \in Seq(Byte) : T = U!QueryText(qu) /\ QueryPart(qu, Q) /\ LoopText(qu, T, Q)
  BY QueryWritten
<1>3. PICK c, h \in Seq(Byte) : c = <<58>> /\ h = <<35>>
  <2>1. 58 \in Byte /\ 35 \in Byte
    BY DEF Byte
  <2>2. <<58>> \in Seq(Byte) /\ <<35>> \in Seq(Byte)
    BY <2>1
  <2> QED BY <2>2, Zenon
<1>4. /\ u.scheme = sc /\ u.authority = au /\ u.path = pa /\ u.query = qu /\ u.fragment = fr
  BY DEF Uri
<1>5. PICK x, y, a : x = sc \o c /\ y = x \o A /\ a = y \o P
  OBVIOUS
<1>6. a \in Seq(Byte)
  <2>1. x \in Seq(Byte)
    BY <1>5, AssocIs, Zenon
  <2>2. y \in Seq(Byte)
    BY <1>5, <2>1, AssocIs, Zenon
  <2> QED BY <1>5, <2>2, AssocIs, Zenon
<1>7. qu = <<>> => a[Len(a)] # 38
  <2> SUFFICES ASSUME qu = <<>> PROVE a[Len(a)] # 38
    OBVIOUS
  <2>1. pa # <<>> => pa[Len(pa)] # 38
    BY <1>4 DEF U!Ambiguous
  <2>2. pa = <<>> /\ au # <<>> => au[Len(au)] # 38
    BY <1>4 DEF U!Ambiguous
  <2>3. Concat(x, sc, c) /\ Concat(y, x, A) /\ Concat(a, y, P)
    BY <1>5, Zenon DEF Concat
  <2>4. c # <<>> /\ c[Len(c)] = 58
    BY <1>3
  <2> QED BY <1>1, <2>1, <2>2, <2>3, <2>4, NoAmpersand
<1>8. PICK w, cut : w = a \o T /\ Dropped(w, cut)
  BY DEF Dropped
<1>9. cut = a \o Q
  <2>1. Concat(w, a, T)
    BY <1>8, Zenon DEF Concat
  <2>2. Concat(cut, a, Q)
    BY <1>2, <1>6, <1>7, <1>8, <2>1, DropsAmpersand
  <2> QED BY <2>2, Zenon DEF Concat
<1>10. U!PercentEncode(sc, U!kURISchemeUnreseredChars) = sc
  BY EncodeKeeps
<1>11. PICK ef : ef = U!PercentEncode(fr, U!kURIFragmentUnreseredChars)
  OBVIOUS
<1>12. U!ToString(u) = IF fr = <<>> THEN cut ELSE (cut \o h) \o ef
  <2> DEFINE text == U!PercentEncode(u.scheme, U!kURISchemeUnreseredChars) \o <<58>>
               \o (IF u.authority = <<>> THEN <<>>
                   ELSE <<47, 47>> \o U!PercentEncode(u.authority, U!kURIAuthUnreservedChars))
               \o U!PercentEncode(u.path, U!kURIPathUnreservedChars) \o U!QueryText(u.query)
             rest == IF text[Len(text)] = 38 THEN SubSeq(text, 1, Len(text) - 1) ELSE text
  <2>1. w = text
    BY <1>1, <1>2, <1>3, <1>4, <1>5, <1>8, <1>10, Zenon DEF AuthText
  <2>2. U!ToString(u) = IF u.fragment = <<>> THEN rest
                        ELSE rest \o <<35>> \o U!PercentEncode(u.fragment,
                                                               U!kURIFragmentUnreseredChars)
    BY Zenon DEF U!ToString
  <2> HIDE DEF text
  <2>3. rest = cut
    BY <1>8, <2>1, Zenon DEF Dropped
  <2> QED BY <1>3, <1>4, <1>11, <2>2, <2>3, Zenon
<1>13. U!ToString(u) = (a \o Q) \o F
  <2>1. PICK aQ : aQ = a \o Q /\ aQ \in Seq(Byte)
    BY <1>6, AssocIs, Zenon
  <2>2. CASE fr = <<>>
    <3>1. F = <<>>
      BY <1>1, <2>2, Zenon DEF FragmentText
    <3>2. aQ \o <<>> = aQ
      BY <2>1, ConcatEmptySeq
    <3> QED BY <1>9, <1>12, <2>1, <2>2, <3>1, <3>2, Zenon
  <2>3. CASE fr # <<>>
    <3>1. F = h \o ef
      BY <1>1, <1>3, <1>11, <2>3, Zenon DEF FragmentText
    <3>2. ef \in Seq(Byte)
      BY <1>11, PartsWritten
    <3>3. Assoc(aQ, h, ef)
      BY <2>1, <3>2, AssocIs
    <3> QED BY <1>9, <1>12, <2>1, <2>3, <3>1, <3>3, Zenon DEF Assoc
  <2> QED BY <2>2, <2>3
<1>14. RowOf(sc, c, A, P, Q, F, ((((sc \o c) \o A) \o P) \o Q) \o F)
  BY RowIs
<1>15. RowOf(sc, c, A, P, Q, F, U!ToString(u))
  BY <1>5, <1>13, <1>14, Zenon
<1> QED BY <1>1, <1>2, <1>3, <1>15, Zenon

-----------------------------------------------------------------------------
(* Parse reads what ToString wrote *)

\* What Parse takes for a query or a fragment.
LEMMA QueryString ==
  ASSUME NEW s \in Seq(QueryByte)
  PROVE  U!IsQueryOrFragmentString(s)
BY DEF U!IsQueryOrFragmentString, QueryByte

\* The fragment.
LEMMA FragmentParsed ==
  ASSUME NEW fr \in Seq(Byte), NEW F, F = FragmentText(fr)
  PROVE  /\ F \in Seq(Byte) /\ Delimited(F, {35})
         /\ U!IsQueryOrFragmentString(FragmentOf(F))
         /\ U!PercentDecode(FragmentOf(F)) = fr
<1>1. F \in Seq(Byte)
  BY PartsWritten
<1>2. CASE fr = <<>>
  <2>1. F = <<>> /\ FragmentOf(F) = <<>>
    <3>1. F = <<>>
      BY <1>2, Zenon DEF FragmentText
    <3> QED BY <3>1, NoFragment, Zenon
  <2>2. PICK e \in Seq(Byte) : e = <<>>
    BY EmptySeq, Zenon
  <2>3. U!PercentDecode(e) = <<>>
    BY <2>2, DecodeReads
  <2>4. U!IsQueryOrFragmentString(<<>>)
    BY DEF U!IsQueryOrFragmentString
  <2> QED BY <1>1, <1>2, <2>1, <2>2, <2>3, <2>4, Zenon DEF Delimited
<1>3. CASE fr # <<>>
  <2>1. PICK ef : ef = U!PercentEncode(fr, U!kURIFragmentUnreseredChars)
    OBVIOUS
  <2>2. ef \in Seq(QueryByte) /\ ef \in Seq(Byte)
    BY <2>1, PartsWritten
  <2>3. F = <<35>> \o ef
    BY <1>3, <2>1, Zenon DEF FragmentText
  <2>4. FragmentOf(F) = ef
    <3>1. AfterNumberSign(F, ef)
      BY <2>3, Zenon DEF AfterNumberSign
    <3> QED BY <2>2, <3>1, FragmentBack
  <2>5. U!PercentDecode(ef) = fr
    BY <2>1, Charsets, DecodesAny
  <2>6. Delimited(F, {35})
    <3>1. 35 \in Byte
      BY DEF Byte
    <3>2. F[1] = 35
      BY <2>2, <2>3, <3>1, ByteFirst
    <3> QED BY <3>2 DEF Delimited
  <2>7. U!IsQueryOrFragmentString(ef)
    BY <2>2, QueryString
  <2> QED BY <1>1, <2>4, <2>5, <2>6, <2>7
<1> QED BY <1>2, <1>3

\* The query, with the fragment behind it.
LEMMA QueryParsed ==
  ASSUME NEW qu \in Seq(PairOfStrings), NEW Q \in Seq(Byte), QueryPart(qu, Q),
         NEW F \in Seq(Byte), Delimited(F, {35}), NEW r, Concat(r, Q, F)
  PROVE  /\ r \in Seq(Byte) /\ Delimited(r, {63, 35}) /\ AfterQuery(r) = F
         /\ U!QueryPairs(QueryOf(r)) = qu
         /\ Asks(r) => QueryOf(r) # <<>> /\ U!IsQueryOrFragmentString(QueryOf(r))
<1>1. r \in Seq(Byte)
  BY ConcatIs
<1>2. CASE qu = <<>>
  <2>1. Q = <<>>
    BY <1>2, Zenon DEF QueryPart
  <2>2. <<>> \o F = F
    BY ConcatEmptySeq
  <2>3. r = F
    BY <2>1, <2>2, Zenon DEF Concat
  <2>4. ~Asks(F) /\ QueryOf(F) = <<>> /\ AfterQuery(F) = F
    BY NoQuery
  <2>5. PICK e \in Seq(Byte) : e = <<>>
    BY EmptySeq, Zenon
  <2>6. U!QueryPairs(e) = <<>>
    BY <2>5, QueryIs
  <2>7. Delimited(F, {63, 35})
    BY DEF Delimited
  <2> QED BY <1>1, <1>2, <2>3, <2>4, <2>5, <2>6, <2>7, Zenon
<1>3. CASE qu # <<>>
  <2>1. PICK body \in Seq(QueryByte) : /\ body # <<>> /\ U!QueryPairs(body) = qu
                                       /\ Q = <<63>> \o body
    BY <1>3, Zenon DEF QueryPart
  <2>2. body \in Seq(Byte)
    BY QueryBytes, SeqMonotonic
  <2>3. FreeOf(body, {35})
    BY Charsets, FreeIs
  <2>4. PICK m \in Seq(Byte) : m = <<63>>
    <3>1. 63 \in Byte
      BY DEF Byte
    <3>2. <<63>> \in Seq(Byte)
      BY <3>1
    <3> QED BY <3>2, Zenon
  <2>5. Assoc(m, body, F)
    BY <2>2, AssocIs
  <2>6. AfterMark(r, body, F)
    BY <2>1, <2>4, <2>5, Zenon DEF Assoc, Concat, AfterMark
  <2>7. Asks(r) /\ QueryOf(r) = body /\ AfterQuery(r) = F
    BY <2>2, <2>3, <2>6, QueryBack
  <2>8. Delimited(r, {63, 35})
    BY <2>7 DEF Asks, U!StartsWith, Delimited
  <2>9. U!IsQueryOrFragmentString(body)
    BY QueryString
  <2> QED BY <1>1, <2>1, <2>7, <2>8, <2>9, Zenon
<1> QED BY <1>2, <1>3

\* The path.
LEMMA PathParsed ==
  ASSUME NEW pa \in Seq(Byte), NEW P \in Seq(Byte),
         P = U!PercentEncode(pa, U!kURIPathUnreservedChars),
         NEW r3 \in Seq(Byte), Delimited(r3, {63, 35}), NEW r, Concat(r, P, r3)
  PROVE  /\ r \in Seq(Byte) /\ PathOf(r) = P /\ AfterPath(r) = r3
         /\ U!PercentDecode(P) = pa
<1>1. r \in Seq(Byte)
  BY ConcatIs
<1>2. FreeOf(P, {63, 35})
  <2>1. P \in Seq(Written(U!kURIPathUnreservedChars))
    BY EncodeWrites
  <2> QED BY <2>1, Charsets, FreeIs
<1>3. PathOf(r) = P /\ AfterPath(r) = r3
  BY <1>2, PathBack DEF Concat
<1>4. U!PercentDecode(P) = pa
  BY Charsets, DecodesAny
<1> QED BY <1>1, <1>3, <1>4

\* A path alone is not taken for an authority unless it begins with two slashes.
LEMMA NoAuthority ==
  ASSUME NEW pa \in Seq(Byte), ~(Len(pa) >= 2 /\ pa[1] = 47 /\ pa[2] = 47),
         NEW P \in Seq(Byte), P = U!PercentEncode(pa, U!kURIPathUnreservedChars),
         NEW r3 \in Seq(Byte), Delimited(r3, {63, 35}), NEW r \in Seq(Byte), Concat(r, P, r3)
  PROVE  ~Slashes(r)
<1> SUFFICES ASSUME Slashes(r) PROVE FALSE
  OBVIOUS
<1>1. Then(P, r3, r)
  BY ThenIs, Zenon DEF Concat
<1>2. r # <<>> /\ r[1] = 47
  BY Zenon DEF Slashes, U!StartsWith
<1>3. Len(r) >= 2 /\ r[2] = 47
  <2>1. PICK p : p = U!RemovePrefix(r, 1) /\ p # <<>> /\ p[1] = 47
    BY Zenon DEF Slashes, U!StartsWith
  <2>2. PICK L \in Nat : L = Len(r)
    OBVIOUS
  <2>3. p = SubSeq(r, 2, L)
    <3>1. 1 + 1 = 2
      OBVIOUS
    <3> QED BY <2>1, <2>2, <3>1, Zenon DEF U!RemovePrefix
  <2>4. L >= 2
    <3>1. ASSUME L < 2 PROVE FALSE
      <4>1. SubSeq(r, 2, L) = <<>>
        BY <3>1, SubSeqEmpty
      <4> QED BY <2>1, <2>3, <4>1
    <3> QED BY <3>1
  <2>5. SubSeq(r, 2, L)[1] = r[2]
    BY <2>2, <2>4
  <2> QED BY <2>1, <2>2, <2>3, <2>4, <2>5
<1>4. CASE Len(P) >= 2
  <2>1. P[1] = 47 /\ P[2] = 47
    BY <1>1, <1>2, <1>3, <1>4 DEF Then
  <2> QED BY <1>4, <2>1, EncodeSlashes
<1>5. CASE Len(P) < 2
  <2>1. PICK n \in Nat : n = Len(P)
    OBVIOUS
  <2>2. PICK m \in Nat : m = Len(r3)
    OBVIOUS
  <2>3. n < 2 /\ n + m >= 2 /\ \A k \in 1..m : r[n + k] = r3[k]
    BY <1>1, <1>3, <1>5, <2>1, <2>2, Zenon DEF Then
  <2>4. 1 \in 1..m /\ (n + 1 = 1 \/ n + 1 = 2)
    BY <2>3
  <2>5. r3[1] = 47
    BY <1>2, <1>3, <2>3, <2>4, Zenon
  <2>6. r3 # <<>>
    BY <2>2, <2>4
  <2> QED BY <2>5, <2>6 DEF Delimited
<1> QED BY <1>4, <1>5

\* The authority.
LEMMA AuthParsed ==
  ASSUME NEW au \in Seq(Byte), NEW pa \in Seq(Byte),
         au = <<>> => ~(Len(pa) >= 2 /\ pa[1] = 47 /\ pa[2] = 47),
         au # <<>> /\ pa # <<>> => pa[1] = 47,
         NEW P \in Seq(Byte), P = U!PercentEncode(pa, U!kURIPathUnreservedChars),
         NEW r3 \in Seq(Byte), Delimited(r3, {63, 35}), NEW r2 \in Seq(Byte), Concat(r2, P, r3),
         NEW A \in Seq(Byte), A = AuthText(au), NEW r, Concat(r, A, r2)
  PROVE  /\ r \in Seq(Byte) /\ AfterAuth(r) = r2
         /\ U!PercentDecode(AuthOf(r)) = au
<1>1. r \in Seq(Byte)
  BY ConcatIs
<1>2. CASE au = <<>>
  <2>1. A = <<>>
    BY <1>2, Zenon DEF AuthText
  <2>2. <<>> \o r2 = r2
    BY ConcatEmptySeq
  <2>3. r = r2
    BY <2>1, <2>2, Zenon DEF Concat
  <2>4. ~Slashes(r2)
    BY <1>2, NoAuthority
  <2>5. AuthOf(r) = <<>> /\ AfterAuth(r) = r2
    BY <2>3, <2>4, Zenon DEF AuthOf, AfterAuth
  <2>6. PICK e \in Seq(Byte) : e = <<>>
    BY EmptySeq, Zenon
  <2>7. U!PercentDecode(e) = <<>>
    BY <2>6, DecodeReads
  <2> QED BY <1>1, <1>2, <2>5, <2>6, <2>7, Zenon
<1>3. CASE au # <<>>
  <2>1. PICK s, ea : s = <<47, 47>> /\ ea = U!PercentEncode(au, U!kURIAuthUnreservedChars)
    OBVIOUS
  <2>2. s \in Seq(Byte) /\ ea \in Seq(Byte)
    <3>1. 47 \in Byte
      BY DEF Byte
    <3>2. s \in Seq(Byte)
      BY <2>1, <3>1
    <3> QED BY <2>1, <3>2, PartsWritten
  <2>3. A = s \o ea
    BY <1>3, <2>1, Zenon DEF AuthText
  <2>4. Assoc(s, ea, r2)
    BY <2>2, AssocIs
  <2>5. AfterSlashes(r, ea, r2)
    BY <2>1, <2>3, <2>4, Zenon DEF Assoc, Concat, AfterSlashes
  <2>6. FreeOf(ea, {47, 63, 35})
    <3>1. ea \in Seq(Written(U!kURIAuthUnreservedChars))
      BY <2>1, EncodeWrites
    <3>2. \A x \in {47, 63, 35} : x \notin Written(U!kURIAuthUnreservedChars)
      BY Charsets
    <3> QED BY <3>1, <3>2, FreeIs
  <2>7. Delimited(r2, {47, 63, 35})
    <3>1. CASE pa = <<>>
      <4>1. P = <<>>
        BY <3>1, EncodeEmpty, Zenon
      <4>2. <<>> \o r3 = r3
        BY ConcatEmptySeq
      <4>3. r2 = r3
        BY <4>1, <4>2, Zenon DEF Concat
      <4> QED BY <4>3 DEF Delimited
    <3>2. CASE pa # <<>>
      <4>1. P # <<>> /\ P[1] = IF pa[1] \in U!kURIPathUnreservedChars THEN pa[1] ELSE 37
        BY <3>2, EncodeBegins
      <4>2. P[1] = 47
        BY <1>3, <3>2, <4>1, Charsets
      <4>3. Then(P, r3, r2)
        BY ThenIs, Zenon DEF Concat
      <4>4. 1 \in 1 .. Len(P)
        BY <4>1
      <4>5. r2[1] = 47
        BY <4>2, <4>3, <4>4, Zenon DEF Then
      <4> QED BY <4>5 DEF Delimited
    <3> QED BY <3>1, <3>2
  <2>8. AuthOf(r) = ea /\ AfterAuth(r) = r2
    BY <2>2, <2>5, <2>6, <2>7, AuthBack
  <2>9. U!PercentDecode(ea) = au
    BY <2>1, Charsets, DecodesAny
  <2> QED BY <1>1, <2>8, <2>9
<1> QED BY <1>2, <1>3

\* The parts of a URI that Parse may return or Create may make of a valid scheme.
ValidParts(sc, au, pa, qu, fr) ==
  /\ sc \in Seq(Byte) /\ au \in Seq(Byte) /\ pa \in Seq(Byte) /\ fr \in Seq(Byte)
  /\ qu \in Seq(PairOfStrings)
  /\ sc # <<>> /\ sc[1] \in U!Alpha
  /\ \A i \in 1 .. Len(sc) : sc[i] \in U!kURISchemeUnreseredChars
  /\ au # <<>> /\ pa # <<>> => pa[1] = 47

(***************************************************************************)
(* Parse of ToString of a URI is that URI, for all strings in its parts:   *)
(* whatever bytes they hold, ToString escapes those that Parse would take  *)
(* for a delimiter, and PercentDecode restores them.  The two forms that   *)
(* Ambiguous names are the only exceptions.                                *)
(***************************************************************************)
THEOREM WrittenAndRead ==
  ASSUME NEW sc, NEW au, NEW pa, NEW qu, NEW fr, ValidParts(sc, au, pa, qu, fr),
         NEW u, u = Uri(sc, au, pa, qu, fr), ~U!Ambiguous(u)
  PROVE  U!Parse(U!ToString(u)) = u
<1>1. /\ sc \in Seq(Byte) /\ au \in Seq(Byte) /\ pa \in Seq(Byte) /\ fr \in Seq(Byte)
      /\ qu \in Seq(PairOfStrings) /\ sc # <<>> /\ sc[1] \in U!Alpha
      /\ \A i \in 1 .. Len(sc) : sc[i] \in U!kURISchemeUnreseredChars
      /\ au # <<>> /\ pa # <<>> => pa[1] = 47
  BY Zenon DEF ValidParts
<1>2. au = <<>> => ~(Len(pa) >= 2 /\ pa[1] = 47 /\ pa[2] = 47)
  <2>1. u.authority = au /\ u.path = pa
    BY DEF Uri
  <2> QED BY <2>1, Zenon DEF U!Ambiguous
<1>3. PICK t, A, P, F : /\ t = U!ToString(u) /\ A = AuthText(au) /\ F = FragmentText(fr)
                        /\ P = U!PercentEncode(pa, U!kURIPathUnreservedChars)
  OBVIOUS
<1>4. PICK Q \in Seq(Byte) : QueryPart(qu, Q) /\ RowOf(sc, <<58>>, A, P, Q, F, t)
  BY <1>1, <1>3, ToStringIs
<1>5. A \in Seq(Byte) /\ P \in Seq(Byte)
  BY <1>1, <1>3, PartsWritten
<1>6. PICK r3, r2, r1 : /\ Concat(r3, Q, F) /\ Concat(r2, P, r3) /\ Concat(r1, A, r2)
                        /\ BeforeColon(t, sc, r1)
  BY <1>4, Zenon DEF RowOf, Concat, BeforeColon
<1>7. /\ F \in Seq(Byte) /\ Delimited(F, {35})
      /\ U!IsQueryOrFragmentString(FragmentOf(F)) /\ U!PercentDecode(FragmentOf(F)) = fr
  BY <1>1, <1>3, FragmentParsed
<1>8. /\ r3 \in Seq(Byte) /\ Delimited(r3, {63, 35}) /\ AfterQuery(r3) = F
      /\ U!QueryPairs(QueryOf(r3)) = qu
      /\ Asks(r3) => QueryOf(r3) # <<>> /\ U!IsQueryOrFragmentString(QueryOf(r3))
  BY <1>1, <1>4, <1>6, <1>7, QueryParsed
<1>9. /\ r2 \in Seq(Byte) /\ PathOf(r2) = P /\ AfterPath(r2) = r3
      /\ U!PercentDecode(P) = pa
  BY <1>1, <1>3, <1>5, <1>6, <1>8, PathParsed
<1>10. r1 \in Seq(Byte) /\ AfterAuth(r1) = r2 /\ U!PercentDecode(AuthOf(r1)) = au
  BY <1>1, <1>2, <1>3, <1>5, <1>6, <1>8, <1>9, AuthParsed
<1>11. SchemeOf(t) = sc /\ AfterScheme(t) = r1 /\ sc # t
  <2>1. FreeOf(sc, {58})
    BY <1>1, Charsets DEF FreeOf
  <2> QED BY <1>1, <1>6, <1>10, <2>1, SchemeBack
<1>12. HasParts(t, sc, AuthOf(r1), P, Asks(r3), QueryOf(r3), FragmentOf(F))
  BY <1>8, <1>9, <1>10, <1>11, Zenon DEF HasParts
<1>13. ~Refused(t, sc, Asks(r3), QueryOf(r3), FragmentOf(F))
  BY <1>1, <1>7, <1>8, <1>11, Zenon DEF Refused
<1>14. U!Parse(t) = Made(sc, AuthOf(r1), P, QueryOf(r3), FragmentOf(F))
  BY <1>12, <1>13, ParseIs, Zenon
<1>15. Made(sc, AuthOf(r1), P, QueryOf(r3), FragmentOf(F)) = u
  BY <1>7, <1>8, <1>9, <1>10, Zenon DEF Made, Uri
<1> QED BY <1>3, <1>14, <1>15, Zenon

\* The parts that Parse cuts out of any text are strings, and a path behind an
\* authority begins with a slash.
LEMMA PartsAre ==
  ASSUME NEW t \in Seq(Byte)
  PROVE  \E sc, au, pa, asks, qu, fr :
           /\ HasParts(t, sc, au, pa, asks, qu, fr)
           /\ sc \in Seq(Byte) /\ au \in Seq(Byte) /\ pa \in Seq(Byte)
           /\ qu \in Seq(Byte) /\ fr \in Seq(Byte)
           /\ au # <<>> /\ pa # <<>> => pa[1] = 47
<1>1. PICK sc \in Seq(Byte) : sc = SchemeOf(t)
  <2>1. PICK a, b \in Seq(Byte) : Cut(t, {58}, a, b)
    BY CutsText
  <2> QED BY <2>1 DEF Cut, SchemeOf
<1>2. PICK r1 \in Seq(Byte) : r1 = AfterScheme(t)
  <2>1. PICK n \in Nat : n = Len(sc) + 1
    OBVIOUS
  <2>2. U!RemovePrefix(t, n) \in Seq(Byte)
    BY RemovePrefixIs
  <2> QED BY <1>1, <2>1, <2>2, Zenon DEF AfterScheme
<1>3. PICK au, r2 \in Seq(Byte) : /\ au = AuthOf(r1) /\ r2 = AfterAuth(r1)
                                  /\ au # <<>> => Delimited(r2, {47, 63, 35})
  <2>1. CASE ~Slashes(r1)
    <3>1. AuthOf(r1) = <<>> /\ AfterAuth(r1) = r1 /\ <<>> \in Seq(Byte)
      BY <2>1, EmptySeq, Zenon DEF AuthOf, AfterAuth
    <3> QED BY <3>1
  <2>2. CASE Slashes(r1)
    <3>1. PICK p \in Seq(Byte) : p = U!RemovePrefix(r1, 2)
      BY RemovePrefixIs
    <3>2. PICK a, b \in Seq(Byte) : Cut(p, {47, 63, 35}, a, b)
      BY CutsText
    <3>3. /\ U!FindFirstOf(p, {47, 63, 35}) = a /\ Concat(p, a, b)
          /\ Delimited(b, {47, 63, 35})
      BY <3>2, Zenon DEF Cut, Concat
    <3>4. AuthOf(r1) = a
      BY <2>2, <3>1, <3>3, Zenon DEF AuthOf
    <3>5. AfterAuth(r1) = b
      <4>1. PICK L \in Nat : L = Len(r1) /\ L >= 2
        <5>1. r1 # <<>> /\ U!RemovePrefix(r1, 1) # <<>>
          BY <2>2, Zenon DEF Slashes, U!StartsWith
        <5>2. PICK L \in Nat : L = Len(r1)
          OBVIOUS
        <5>3. L >= 2
          <6>1. ASSUME L < 2 PROVE FALSE
            <7>1. SubSeq(r1, 1 + 1, L) = <<>>
              BY <6>1, SubSeqEmpty
            <7> QED BY <5>1, <5>2, <7>1, Zenon DEF U!RemovePrefix
          <6> QED BY <6>1
        <5> QED BY <5>2, <5>3
      <4>2. PICK s \in Seq(Byte) : /\ s = SubSeq(r1, 1, 2) /\ Len(s) = 2
        <5>1. SubSeq(r1, 1, 2) \in Seq(Byte) /\ Len(SubSeq(r1, 1, 2)) = 2
          BY <4>1
        <5> QED BY <5>1, Zenon
      <4>3. Concat(r1, s, p)
        <5>1. 1 \in 1 .. Len(r1) + 1 /\ 2 \in 1 - 1 .. Len(r1) /\ Len(r1) \in 2 .. Len(r1)
          BY <4>1
        <5>2. SubSeq(r1, 1, 2) \o SubSeq(r1, 2 + 1, Len(r1)) = SubSeq(r1, 1, Len(r1))
          BY <5>1, ConcatAdjacentSubSeq
        <5>3. SubSeq(r1, 1, Len(r1)) = r1
          BY SubSeqFull
        <5> QED BY <3>1, <4>2, <5>2, <5>3, Zenon DEF U!RemovePrefix, Concat
      <4>4. PICK sa : sa = s \o a /\ sa \in Seq(Byte) /\ Len(sa) = 2 + Len(a)
        <5>1. s \o a \in Seq(Byte) /\ Len(s \o a) = Len(s) + Len(a)
          BY ConcatProperties
        <5> QED BY <4>2, <5>1, Zenon
      <4>5. Concat(r1, sa, b)
        <5>1. Assoc(s, a, b)
          BY AssocIs
        <5> QED BY <3>3, <4>3, <4>4, <5>1, Zenon DEF Assoc, Concat
      <4>6. U!RemovePrefix(r1, Len(sa)) = b
        BY <4>4, <4>5, RemovesFrom
      <4> QED BY <2>2, <3>4, <4>4, <4>6, Zenon DEF AfterAuth
    <3> QED BY <3>3, <3>4, <3>5
  <2> QED BY <2>1, <2>2
<1>4. PICK pa, x \in Seq(Byte) : /\ pa = PathOf(r2) /\ Concat(r2, pa, x)
                                 /\ FreeOf(pa, {63, 35})
  <2>1. PICK a, b \in Seq(Byte) : Cut(r2, {63, 35}, a, b)
    BY CutsText
  <2> QED BY <2>1, Zenon DEF Cut, PathOf, Concat
<1>5. PICK r3 \in Seq(Byte) : r3 = AfterPath(r2)
  <2>1. PICK n \in Nat : n = Len(pa)
    OBVIOUS
  <2>2. U!RemovePrefix(r2, n) \in Seq(Byte)
    BY RemovePrefixIs
  <2> QED BY <1>4, <2>1, <2>2, Zenon DEF AfterPath
<1>6. PICK qu, r4 \in Seq(Byte) : qu = QueryOf(r3) /\ r4 = AfterQuery(r3)
  <2>1. CASE ~Asks(r3)
    <3>1. QueryOf(r3) = <<>> /\ AfterQuery(r3) = r3 /\ <<>> \in Seq(Byte)
      BY <2>1, EmptySeq, Zenon DEF QueryOf, AfterQuery
    <3> QED BY <3>1
  <2>2. CASE Asks(r3)
    <3>1. PICK p \in Seq(Byte) : p = U!RemovePrefix(r3, 1)
      BY RemovePrefixIs
    <3>2. PICK a, b \in Seq(Byte) : Cut(p, {35}, a, b)
      BY CutsText
    <3>3. QueryOf(r3) = a
      BY <2>2, <3>1, <3>2, Zenon DEF Cut, QueryOf
    <3>4. PICK n \in Nat : n = 1 + Len(a)
      OBVIOUS
    <3>5. U!RemovePrefix(r3, n) \in Seq(Byte)
      BY RemovePrefixIs
    <3>6. AfterQuery(r3) = U!RemovePrefix(r3, n)
      BY <2>2, <3>3, <3>4, Zenon DEF AfterQuery
    <3> QED BY <3>3, <3>5, <3>6
  <2> QED BY <2>1, <2>2
<1>7. PICK fr \in Seq(Byte) : fr = FragmentOf(r4)
  <2>1. U!RemovePrefix(r4, 1) \in Seq(Byte) /\ <<>> \in Seq(Byte)
    BY RemovePrefixIs, EmptySeq
  <2> QED BY <2>1, Zenon DEF FragmentOf
<1>8. ASSUME au # <<>>, pa # <<>>
      PROVE  pa[1] = 47
  <2>1. Then(pa, x, r2)
    BY <1>4, ThenIs, Zenon DEF Concat
  <2>2. 1 \in 1 .. Len(pa)
    BY <1>8
  <2>3. r2[1] = pa[1]
    BY <2>1, <2>2, Zenon DEF Then
  <2>4. r2 # <<>>
    <3>1. Len(r2) # 0
      BY <2>1, <2>2 DEF Then
    <3> QED BY <3>1
  <2>5. pa[1] \notin {63, 35}
    BY <1>4, <2>2, Zenon DEF FreeOf
  <2>6. r2[1] \in {47, 63, 35}
    BY <1>3, <1>8, <2>4, Zenon DEF Delimited
  <2> QED BY <2>3, <2>5, <2>6
<1>9. HasParts(t, sc, au, pa, Asks(r3), qu, fr)
  BY <1>1, <1>2, <1>3, <1>4, <1>5, <1>6, <1>7, Zenon DEF HasParts
<1> QED BY <1>8, <1>9

\* What Parse returns is well formed.
LEMMA ParsedIs ==
  ASSUME NEW t \in Seq(Byte), U!Parse(t).ok
  PROVE  \E sc, au, pa, qu, fr : /\ ValidParts(sc, au, pa, qu, fr)
                                 /\ U!Parse(t) = Uri(sc, au, pa, qu, fr)
<1>1. PICK sc, a, p, asks, q, f :
         /\ HasParts(t, sc, a, p, asks, q, f)
         /\ sc \in Seq(Byte) /\ a \in Seq(Byte) /\ p \in Seq(Byte)
         /\ q \in Seq(Byte) /\ f \in Seq(Byte)
         /\ a # <<>> /\ p # <<>> => p[1] = 47
  BY PartsAre
<1>2. ~Refused(t, sc, asks, q, f)
  <2>1. ASSUME Refused(t, sc, asks, q, f) PROVE FALSE
    <3>1. U!Parse(t) = U!Invalid
      BY <1>1, <2>1, ParseIs, Zenon
    <3>2. ~U!Invalid.ok
      BY DEF U!Invalid
    <3> QED BY <3>1, <3>2, Zenon
  <2> QED BY <2>1
<1>3. U!Parse(t) = Made(sc, a, p, q, f)
  BY <1>1, <1>2, ParseIs, Zenon
<1>4. PICK au, pa, qu, fr : /\ au = U!PercentDecode(a) /\ pa = U!PercentDecode(p)
                            /\ qu = U!QueryPairs(q) /\ fr = U!PercentDecode(f)
  OBVIOUS
<1>5. /\ au \in Seq(Byte) /\ pa \in Seq(Byte) /\ fr \in Seq(Byte)
      /\ a = <<>> => au = <<>>
      /\ p = <<>> => pa = <<>>
      /\ p # <<>> /\ p[1] # 37 => pa[1] = p[1]
  BY <1>1, <1>4, DecodeReads
<1>6. qu \in Seq(PairOfStrings)
  BY <1>1, <1>4, QueryIs
<1>7. au # <<>> /\ pa # <<>> => pa[1] = 47
  <2>1. 47 # 37
    OBVIOUS
  <2> QED BY <1>1, <1>5, <2>1, Zenon
<1>8. /\ sc # <<>> /\ sc[1] \in U!Alpha
      /\ \A i \in 1 .. Len(sc) : sc[i] \in U!kURISchemeUnreseredChars
  BY <1>2, Zenon DEF Refused
<1>9. ValidParts(sc, au, pa, qu, fr)
  BY <1>1, <1>5, <1>6, <1>7, <1>8, Zenon DEF ValidParts
<1>10. U!Parse(t) = Uri(sc, au, pa, qu, fr)
  BY <1>3, <1>4, Zenon DEF Made, Uri
<1> QED BY <1>9, <1>10

(***************************************************************************)
(* Whatever text URI::Parse accepts, of any length and any bytes, Create   *)
(* takes the parts, and unless it is ambiguous the URI survives ToString   *)
(* and Parse.                                                              *)
(***************************************************************************)
THEOREM ParsedSurvives ==
  ASSUME NEW t \in Seq(Byte)
  PROVE  U!ParsesBack(U!Parse(t))
<1> SUFFICES ASSUME U!Parse(t).ok
             PROVE  U!ParsesBack(U!Parse(t))
  BY DEF U!ParsesBack
<1>1. PICK sc, au, pa, qu, fr : /\ ValidParts(sc, au, pa, qu, fr)
                                /\ U!Parse(t) = Uri(sc, au, pa, qu, fr)
  BY ParsedIs
<1>2. PICK u : u = U!Parse(t)
  OBVIOUS
<1>3. /\ u.scheme = sc /\ u.authority = au /\ u.path = pa /\ u.query = qu /\ u.fragment = fr
  BY <1>1, <1>2 DEF Uri
<1>4. U!Create(sc, au, pa, qu, fr) = u
  <2>1. ~(au # <<>> /\ pa # <<>> /\ pa[1] # 47)
    BY <1>1, Zenon DEF ValidParts
  <2> QED BY <1>1, <1>2, <2>1, Zenon DEF U!Create, Uri
<1>5. ~U!Ambiguous(u) => U!Parse(U!ToString(u)) = u
  BY <1>1, <1>2, WrittenAndRead
<1>6. U!ParsesBack(u)
  BY <1>3, <1>4, <1>5, Zenon DEF U!ParsesBack
<1> QED BY <1>2, <1>6

-----------------------------------------------------------------------------
(* The lines of a message *)

\* The least of a set of numbers.
LEMMA LeastIs ==
  ASSUME NEW S \in SUBSET Nat
  PROVE  /\ S # {} => Least(S) \in S /\ \A j \in S : Least(S) <= j
         /\ \A i \in S : (\A j \in S : i <= j) => Least(S) = i
<1>1. ASSUME S # {}
      PROVE  Least(S) \in S /\ \A j \in S : Least(S) <= j
  <2>1. \E i \in S : \A j \in S : i <= j
    BY <1>1, LeastNatural
  <2> QED BY <2>1, Zenon DEF Least
<1>2. ASSUME NEW i \in S, \A j \in S : i <= j
      PROVE  Least(S) = i
  <2>1. Least(S) \in S /\ Least(S) <= i
    BY <1>1, <1>2
  <2>2. i <= Least(S) /\ i \in Nat /\ Least(S) \in Nat
    BY <1>2, <2>1
  <2> QED BY <2>1, <2>2
<1> QED BY <1>1, <1>2

\* The line from i to the lf at j.
IsLine(msg, i, j) ==
  /\ i \in 1 .. Len(msg) /\ j \in i .. Len(msg) /\ msg[j] = "lf"
  /\ \A k \in i .. (j - 1) : msg[k] # "lf"
  /\ i = 1 \/ msg[i - 1] = "lf"

\* The pairs of Lines are these.
LEMMA LinesAre ==
  ASSUME NEW msg \in Seq(Bytes)
  PROVE  /\ \A l \in Lines(msg) : /\ l = <<l[1], l[2]>> /\ IsLine(msg, l[1], l[2])
         /\ \A i, j : IsLine(msg, i, j) => <<i, j>> \in Lines(msg)
<1>1. ASSUME NEW i \in 1 .. Len(msg)
      PROVE  Positions(msg, i, {"lf"}) \in SUBSET Nat
  BY DEF Positions
<1>2. ASSUME NEW l \in Lines(msg)
      PROVE  l = <<l[1], l[2]>> /\ IsLine(msg, l[1], l[2])
  <2>1. /\ l \in (1 .. Len(msg)) \X Positions(msg, 1, {"lf"})
        /\ l[1] = 1 \/ (l[1] > 1 /\ msg[l[1] - 1] = "lf")
        /\ Positions(msg, l[1], {"lf"}) # {}
        /\ l[2] = Least(Positions(msg, l[1], {"lf"}))
    BY <1>2, Zenon DEF Lines
  <2>2. PICK i, j : l = <<i, j>> /\ i = l[1] /\ j = l[2] /\ i \in 1 .. Len(msg)
    BY <2>1
  <2>3. j \in Positions(msg, i, {"lf"}) /\ \A k \in Positions(msg, i, {"lf"}) : j <= k
    BY <1>1, <2>1, <2>2, LeastIs
  <2>4. j \in i .. Len(msg) /\ msg[j] = "lf"
    BY <2>3 DEF Positions
  <2>5. ASSUME NEW k \in i .. (j - 1)
        PROVE  msg[k] # "lf"
    <3>1. k \in i .. Len(msg) /\ k < j /\ k \in Int /\ j \in Int
      BY <2>2, <2>4
    <3>2. ASSUME msg[k] = "lf" PROVE FALSE
      <4>1. k \in Positions(msg, i, {"lf"})
        BY <3>1, <3>2 DEF Positions
      <4>2. j <= k
        BY <2>3, <4>1
      <4> QED BY <3>1, <4>2
    <3> QED BY <3>2
  <2> QED BY <2>1, <2>2, <2>4, <2>5 DEF IsLine
<1>3. ASSUME NEW i, NEW j, IsLine(msg, i, j)
      PROVE  <<i, j>> \in Lines(msg)
  <2>1. /\ i \in 1 .. Len(msg) /\ j \in i .. Len(msg) /\ msg[j] = "lf"
        /\ \A k \in i .. (j - 1) : msg[k] # "lf"
        /\ i = 1 \/ msg[i - 1] = "lf"
    BY <1>3, Zenon DEF IsLine
  <2>2. j \in Positions(msg, 1, {"lf"}) /\ j \in Positions(msg, i, {"lf"})
    BY <2>1 DEF Positions
  <2>3. \A k \in Positions(msg, i, {"lf"}) : j <= k
    BY <2>1 DEF Positions
  <2>4. Least(Positions(msg, i, {"lf"})) = j
    BY <1>1, <2>1, <2>2, <2>3, LeastIs
  <2>5. i = 1 \/ (i > 1 /\ msg[i - 1] = "lf")
    BY <2>1
  <2> DEFINE l == <<i, j>>
  <2>6. l \in (1 .. Len(msg)) \X Positions(msg, 1, {"lf"}) /\ l[1] = i /\ l[2] = j
    BY <2>1, <2>2
  <2> HIDE DEF l
  <2>7. l \in Lines(msg)
    BY <2>2, <2>4, <2>5, <2>6, Zenon DEF Lines
  <2> QED BY <2>7 DEF l
<1> QED BY <1>2, <1>3

\* Where the line begins that is not yet ended.
OpenAt(msg) == IF Positions(msg, 1, {"lf"}) = {} THEN 0
               ELSE CHOOSE i \in Positions(msg, 1, {"lf"}) :
                      \A j \in Positions(msg, 1, {"lf"}) : j <= i
IsOpen(msg, o) ==
  /\ o \in 0 .. Len(msg) /\ (o = 0 \/ msg[o] = "lf")
  /\ \A k \in (o + 1) .. Len(msg) : msg[k] # "lf"

\* There is one such position.
LEMMA OpenIs ==
  ASSUME NEW msg \in Seq(Bytes), NEW o, IsOpen(msg, o)
  PROVE  OpenAt(msg) = o
<1>1. /\ o \in 0 .. Len(msg) /\ (o = 0 \/ msg[o] = "lf")
      /\ \A k \in (o + 1) .. Len(msg) : msg[k] # "lf"
  BY Zenon DEF IsOpen
<1>2. CASE o = 0
  <2>1. Positions(msg, 1, {"lf"}) = {}
    BY <1>1, <1>2 DEF Positions
  <2> QED BY <1>2, <2>1, Zenon DEF OpenAt
<1>3. CASE o # 0
  <2>1. o \in Positions(msg, 1, {"lf"})
    BY <1>1, <1>3 DEF Positions
  <2>2. \A j \in Positions(msg, 1, {"lf"}) : j \in Int /\ j <= o
    BY <1>1 DEF Positions
  <2>3. PICK i : i = OpenAt(msg)
    OBVIOUS
  <2>4. i \in Positions(msg, 1, {"lf"}) /\ \A j \in Positions(msg, 1, {"lf"}) : j <= i
    BY <2>1, <2>2, <2>3, Zenon DEF OpenAt
  <2>5. i <= o /\ o <= i /\ i \in Int /\ o \in Int
    BY <1>1, <2>1, <2>2, <2>4
  <2> QED BY <2>3, <2>5
<1> QED BY <1>2, <1>3

-----------------------------------------------------------------------------
(* The lines of a message that grows by a byte *)

Grows(msg, c, w) ==
  /\ Len(w) = Len(msg) + 1 /\ w[Len(msg) + 1] = c
  /\ \A k \in 1 .. Len(msg) : w[k] = msg[k]

\* That is what Append does.
LEMMA AppendGrows ==
  ASSUME NEW msg \in Seq(Bytes), NEW c \in Bytes
  PROVE  Append(msg, c) \in Seq(Bytes) /\ Grows(msg, c, Append(msg, c))
BY DEF Grows

\* The message ends with the line that begins at i.
Ended(w, i) == <<i, Len(w)>>

\* The lines that end before the byte stay, and it ends one if it is an lf.
LEMMA LineGrows ==
  ASSUME NEW msg \in Seq(Bytes), NEW c \in Bytes, NEW w \in Seq(Bytes), Grows(msg, c, w),
         NEW o, IsOpen(msg, o), NEW i, NEW j
  PROVE  IsLine(w, i, j) <=> \/ IsLine(msg, i, j)
                             \/ c = "lf" /\ i = o + 1 /\ j = Len(w)
<1>1. PICK n \in Nat : /\ n = Len(msg) /\ Len(w) = n + 1 /\ w[n + 1] = c
                       /\ \A k \in 1 .. n : w[k] = msg[k]
  BY DEF Grows
<1>2. /\ o \in 0 .. n /\ (o = 0 \/ msg[o] = "lf")
      /\ \A k \in (o + 1) .. n : msg[k] # "lf"
  BY <1>1 DEF IsOpen
<1>3. ASSUME IsLine(msg, i, j) PROVE IsLine(w, i, j)
  BY <1>1, <1>3 DEF IsLine
<1>4. ASSUME c = "lf", i = o + 1, j = n + 1 PROVE IsLine(w, i, j)
  <2>1. i \in 1 .. n + 1 /\ j \in i .. n + 1 /\ w[j] = "lf"
    BY <1>1, <1>2, <1>4
  <2>2. \A k \in i .. (j - 1) : w[k] # "lf"
    BY <1>1, <1>2, <1>4
  <2>3. i = 1 \/ w[i - 1] = "lf"
    BY <1>1, <1>2, <1>4
  <2> QED BY <1>1, <2>1, <2>2, <2>3 DEF IsLine
<1>5. ASSUME IsLine(w, i, j)
      PROVE  IsLine(msg, i, j) \/ (c = "lf" /\ i = o + 1 /\ j = n + 1)
  <2>1. /\ i \in 1 .. n + 1 /\ j \in i .. n + 1 /\ w[j] = "lf"
        /\ \A k \in i .. (j - 1) : w[k] # "lf"
        /\ i = 1 \/ w[i - 1] = "lf"
    BY <1>1, <1>5 DEF IsLine
  <2>2. CASE j <= n
    BY <1>1, <2>1, <2>2 DEF IsLine
  <2>3. CASE j = n + 1
    <3>1. c = "lf"
      BY <1>1, <2>1, <2>3
    <3>2. ~(o + 1 < i)
      <4>1. ASSUME o + 1 < i PROVE FALSE
        <5>1. i - 1 \in (o + 1) .. n /\ i - 1 \in 1 .. n /\ i # 1
          BY <1>2, <2>1, <4>1
        <5> QED BY <1>1, <1>2, <2>1, <5>1
      <4> QED BY <4>1
    <3>3. ~(i < o + 1)
      <4>1. ASSUME i < o + 1 PROVE FALSE
        <5>1. o \in i .. (j - 1) /\ o \in 1 .. n /\ o # 0
          BY <1>2, <2>1, <2>3, <4>1
        <5> QED BY <1>1, <1>2, <2>1, <5>1
      <4> QED BY <4>1
    <3> QED BY <1>2, <2>1, <2>3, <3>1, <3>2, <3>3
  <2> QED BY <2>1, <2>2, <2>3
<1> QED BY <1>1, <1>3, <1>4, <1>5

\* The same for the sets.
LEMMA LinesGrow ==
  ASSUME NEW msg \in Seq(Bytes), NEW c \in Bytes, NEW w \in Seq(Bytes), Grows(msg, c, w),
         NEW o, IsOpen(msg, o)
  PROVE  Lines(w) = IF c = "lf" THEN Lines(msg) \cup {Ended(w, o + 1)} ELSE Lines(msg)
<1>1. ASSUME NEW l \in Lines(w)
      PROVE  l \in Lines(msg) \/ (c = "lf" /\ l = Ended(w, o + 1))
  <2>1. l = <<l[1], l[2]>> /\ IsLine(w, l[1], l[2])
    BY <1>1, LinesAre
  <2>2. IsLine(msg, l[1], l[2]) \/ (c = "lf" /\ l[1] = o + 1 /\ l[2] = Len(w))
    BY <2>1, LineGrows
  <2>3. IsLine(msg, l[1], l[2]) => <<l[1], l[2]>> \in Lines(msg)
    BY LinesAre
  <2> QED BY <2>1, <2>2, <2>3 DEF Ended
<1>2. ASSUME NEW l \in Lines(msg)
      PROVE  l \in Lines(w)
  <2>1. l = <<l[1], l[2]>> /\ IsLine(msg, l[1], l[2])
    BY <1>2, LinesAre
  <2>2. IsLine(w, l[1], l[2])
    BY <2>1, LineGrows
  <2>3. <<l[1], l[2]>> \in Lines(w)
    BY <2>2, LinesAre
  <2> QED BY <2>1, <2>3
<1>3. ASSUME c = "lf"
      PROVE  Ended(w, o + 1) \in Lines(w)
  <2>1. IsLine(w, o + 1, Len(w))
    BY <1>3, LineGrows
  <2> QED BY <2>1, LinesAre DEF Ended
<1> QED BY <1>1, <1>2, <1>3

\* So does the place where a line is open.
LEMMA OpenGrows ==
  ASSUME NEW msg \in Seq(Bytes), NEW c \in Bytes, NEW w \in Seq(Bytes), Grows(msg, c, w),
         NEW o, IsOpen(msg, o)
  PROVE  IsOpen(w, IF c = "lf" THEN Len(w) ELSE o)
<1>1. PICK n \in Nat : /\ n = Len(msg) /\ Len(w) = n + 1 /\ w[n + 1] = c
                       /\ \A k \in 1 .. n : w[k] = msg[k]
  BY DEF Grows
<1>2. /\ o \in 0 .. n /\ (o = 0 \/ msg[o] = "lf")
      /\ \A k \in (o + 1) .. n : msg[k] # "lf"
  BY <1>1 DEF IsOpen
<1>3. CASE c = "lf"
  BY <1>1, <1>3 DEF IsOpen
<1>4. CASE c # "lf"
  <2>1. \A k \in (o + 1) .. (n + 1) : w[k] # "lf"
    BY <1>1, <1>2, <1>4
  <2>2. o \in 0 .. n + 1 /\ (o = 0 \/ w[o] = "lf")
    BY <1>1, <1>2
  <2> QED BY <1>1, <1>4, <2>1, <2>2 DEF IsOpen
<1> QED BY <1>3, <1>4

\* The string a is what s has from i to m.
Piece(s, i, m, a) ==
  /\ a \in Seq(Bytes) /\ Len(a) = IF i <= m THEN m - i + 1 ELSE 0
  /\ \A k \in 1 .. (m - i + 1) : a[k] = s[i + k - 1]

\* That is what SubSeq takes.
LEMMA PieceIs ==
  ASSUME NEW s \in Seq(Bytes), NEW i \in 1 .. Len(s) + 1, NEW m \in 0 .. Len(s)
  PROVE  Piece(s, i, m, SubSeq(s, i, m))
<1>1. i \in Int /\ m \in Int /\ \A k \in i .. m : s[k] \in Bytes
  OBVIOUS
<1> QED BY <1>1, SubSeqProperties DEF Piece

\* What a line of msg is in w.
WithCR(msg, j) == j > 1 /\ msg[j - 1] = "cr"
Stays(msg, w, l) ==
  /\ l[1] \in 1 .. Len(msg) /\ l[2] \in l[1] .. Len(msg)
  /\ Line(w, l[1], l[2]) = Line(msg, l[1], l[2])
  /\ WithCR(w, l[2]) = WithCR(msg, l[2])

\* Nothing else than in msg.
LEMMA LineStays ==
  ASSUME NEW msg \in Seq(Bytes), NEW c \in Bytes, NEW w \in Seq(Bytes), Grows(msg, c, w),
         NEW l \in Lines(msg)
  PROVE  Stays(msg, w, l)
<1>1. PICK n \in Nat : /\ n = Len(msg) /\ Len(w) = n + 1
                       /\ \A k \in 1 .. n : w[k] = msg[k]
  BY DEF Grows
<1>2. PICK i, j : i = l[1] /\ j = l[2] /\ i \in 1 .. n /\ j \in i .. n
  BY <1>1, LinesAre DEF IsLine
<1>3. WithCR(w, j) = WithCR(msg, j)
  BY <1>1, <1>2 DEF WithCR
<1>4. ASSUME NEW m \in 0 .. n
      PROVE  SubSeq(w, i, m) = SubSeq(msg, i, m)
  <2>1. Piece(w, i, m, SubSeq(w, i, m)) /\ Piece(msg, i, m, SubSeq(msg, i, m))
    <3>1. i \in 1 .. Len(w) /\ m \in 0 .. Len(w) /\ i \in 1 .. Len(msg) /\ m \in 0 .. Len(msg)
      BY <1>1, <1>2
    <3> QED BY <3>1, PieceIs
  <2>2. PICK a, b : /\ a = SubSeq(w, i, m) /\ b = SubSeq(msg, i, m)
                    /\ Piece(w, i, m, a) /\ Piece(msg, i, m, b)
    BY <2>1
  <2>3. ASSUME NEW k \in 1 .. (m - i + 1)
        PROVE  a[k] = b[k]
    <3>1. i + k - 1 \in 1 .. n
      BY <1>2
    <3>2. a[k] = w[i + k - 1] /\ b[k] = msg[i + k - 1]
      BY <2>2 DEF Piece
    <3> QED BY <1>1, <3>1, <3>2
  <2>4. a \in Seq(Bytes) /\ b \in Seq(Bytes) /\ Len(a) = Len(b)
    BY <2>2, Zenon DEF Piece
  <2>5. Len(a) = IF i <= m THEN m - i + 1 ELSE 0
    BY <2>2, Zenon DEF Piece
  <2>6. \A k \in 1 .. Len(a) : a[k] = b[k]
    BY <1>2, <2>3, <2>5
  <2> QED BY <2>2, <2>4, <2>6, SeqEqual
<1>5. Line(w, i, j) = Line(msg, i, j)
  <2>1. j > i => (w[j - 1] = "cr" <=> msg[j - 1] = "cr") /\ j - 2 \in 0 .. n
    BY <1>1, <1>2
  <2>2. j - 1 \in 0 .. n
    BY <1>2
  <2> QED BY <1>4, <2>1, <2>2 DEF Line
<1> QED BY <1>1, <1>2, <1>3, <1>5 DEF Stays

-----------------------------------------------------------------------------
(* The reference definition, by name *)

EndOf(msg) == IF Blank(msg) = {} THEN 0 ELSE Least({b[2] : b \in Blank(msg)})
HeadOf(msg) == {l[2] : l \in Header(msg)}
TextOf(msg, l) == <<Cardinality({j \in HeadOf(msg) : j <= l[2]}), Line(msg, l[1], l[2])>>
Texts(msg) == {TextOf(msg, l) : l \in Header(msg)}
TooLong(msg) == \/ \E l \in Lines(msg) : (EndOf(msg) = 0 \/ l[2] <= EndOf(msg))
                                          /\ l[2] - l[1] + 1 > kMaxHeaderLength
                \/ EndOf(msg) = 0 /\ Len(msg) - OpenAt(msg) > kMaxHeaderLength
Malformed(msg) == TooLong(msg) \/ \E t \in Texts(msg) : ~WellFormed(t[2])

\* The lines that must end alike.
Capped(msg) == {l \in Lines(msg) : \A b \in Blank(msg) : l[2] <= b[2]}

\* That is what Uniform says.
LEMMA UniformIs ==
  ASSUME NEW msg
  PROVE  Uniform(msg) <=> \A l, m \in Capped(msg) : WithCR(msg, l[2]) = WithCR(msg, m[2])
BY Zenon DEF Uniform, Capped, WithCR

\* The lines and the empty lines after a byte, new being the line it may end.
Adds(msg, w, new) ==
  /\ Lines(msg) \subseteq Lines(w) /\ Lines(w) \subseteq Lines(msg) \cup {new}
  /\ Blank(msg) \subseteq Blank(w) /\ Blank(w) \subseteq Blank(msg) \cup {new}
  /\ new[2] = Len(w) /\ Len(msg) \in Nat /\ Len(w) = Len(msg) + 1
  /\ \A l \in Lines(msg) : Stays(msg, w, l)

\* A byte adds no other line.
LEMMA AddsLine ==
  ASSUME NEW msg \in Seq(Bytes), NEW c \in Bytes, NEW w \in Seq(Bytes), Grows(msg, c, w),
         NEW o, IsOpen(msg, o)
  PROVE  Adds(msg, w, Ended(w, o + 1))
<1>1. PICK new : new = Ended(w, o + 1) /\ new[2] = Len(w)
  <2>1. Ended(w, o + 1)[2] = Len(w)
    BY DEF Ended
  <2> QED BY <2>1, Zenon
<1>2. Lines(msg) \subseteq Lines(w) /\ Lines(w) \subseteq Lines(msg) \cup {new}
  BY <1>1, LinesGrow
<1>3. \A l \in Lines(msg) : Stays(msg, w, l)
  BY LineStays
<1>4. \A l \in Lines(msg) : l \in Blank(w) <=> l \in Blank(msg)
  BY <1>2, <1>3, Zenon DEF Stays, Blank
<1>5. Blank(w) \subseteq Lines(w) /\ Blank(msg) \subseteq Lines(msg)
  BY Zenon DEF Blank
<1>6. Len(msg) \in Nat /\ Len(w) = Len(msg) + 1
  BY DEF Grows
<1> QED BY <1>1, <1>2, <1>3, <1>4, <1>5, <1>6 DEF Adds

\* A line of msg ends in msg.
LEMMA EndsBefore ==
  ASSUME NEW msg, NEW w, NEW new, Adds(msg, w, new), NEW l \in Lines(msg)
  PROVE  l[2] \in Nat /\ l[2] < new[2] /\ l[1] \in Nat /\ new[2] \in Nat /\ l # new
<1>1. Stays(msg, w, l)
  BY DEF Adds
<1>2. new[2] = Len(w) /\ Len(msg) \in Nat /\ Len(w) = Len(msg) + 1
  BY Zenon DEF Adds
<1>3. l[1] \in 1 .. Len(msg) /\ l[2] \in l[1] .. Len(msg)
  BY <1>1, Zenon DEF Stays
<1> QED BY <1>2, <1>3

\* The text of a header stays, if the line that is added ends after it.
LEMMA TextStays ==
  ASSUME NEW msg, NEW w, NEW new, Adds(msg, w, new), NEW l \in Lines(msg),
         HeadOf(msg) \subseteq HeadOf(w), HeadOf(w) \subseteq HeadOf(msg) \cup {new[2]}
  PROVE  TextOf(w, l) = TextOf(msg, l)
<1>1. Line(w, l[1], l[2]) = Line(msg, l[1], l[2])
  BY Zenon DEF Adds, Stays
<1>2. l[2] \in Nat /\ new[2] \in Nat /\ l[2] < new[2]
  BY EndsBefore
<1>3. ~(new[2] <= l[2])
  BY <1>2
<1>4. {j \in HeadOf(w) : j <= l[2]} = {j \in HeadOf(msg) : j <= l[2]}
  BY <1>3
<1> QED BY <1>1, <1>4, Zenon DEF TextOf

\* A byte that ends no line, or comes behind the empty line, changes nothing.
SameHead(msg, w) ==
  /\ Header(w) = Header(msg) /\ Capped(w) = Capped(msg) /\ EndOf(w) = EndOf(msg)
  /\ Texts(w) = Texts(msg) /\ HeadOf(w) = HeadOf(msg)

\* That is what stays.
LEMMA HeadStays ==
  ASSUME NEW msg, NEW w, NEW new, Adds(msg, w, new),
         new \in Lines(w) => Blank(msg) # {}
  PROVE  SameHead(msg, w)
<1>1. /\ Lines(msg) \subseteq Lines(w) /\ Lines(w) \subseteq Lines(msg) \cup {new}
      /\ Blank(msg) \subseteq Blank(w) /\ Blank(w) \subseteq Blank(msg) \cup {new}
      /\ Blank(w) \subseteq Lines(w) /\ Blank(msg) \subseteq Lines(msg)
  BY Zenon DEF Adds, Blank
<1>2. \A l \in Lines(msg) : /\ l[2] \in Nat /\ l[2] < new[2] /\ l[2] <= new[2]
                            /\ ~(new[2] < l[2]) /\ ~(new[2] <= l[2])
  BY EndsBefore
<1>3. Header(w) = Header(msg)
  BY <1>1, <1>2, Zenon DEF Header
<1>4. Capped(w) = Capped(msg)
  BY <1>1, <1>2, Zenon DEF Capped
<1>5. HeadOf(w) = HeadOf(msg)
  BY <1>3, Zenon DEF HeadOf
<1>6. Texts(w) = Texts(msg)
  <2>1. \A l \in Header(msg) : TextOf(w, l) = TextOf(msg, l)
    <3>1. Header(msg) \subseteq Lines(msg)
      BY Zenon DEF Header
    <3> QED BY <1>5, <3>1, TextStays
  <2> QED BY <1>3, <2>1, Zenon DEF Texts
<1>7. EndOf(w) = EndOf(msg)
  <2>1. CASE Blank(msg) = {}
    BY <1>1, <2>1 DEF EndOf
  <2>2. CASE Blank(msg) # {}
    <3> DEFINE S == {b[2] : b \in Blank(msg)}
               T == {b[2] : b \in Blank(w)}
    <3>1. S \in SUBSET Nat /\ S # {} /\ S \subseteq T /\ T \subseteq S \cup {new[2]}
      BY <1>1, <1>2, <2>2
    <3>2. new[2] \in Nat
      BY <1>1, <2>2, EndsBefore
    <3>3. \A k \in S : k < new[2]
      BY <1>1, <1>2
    <3>4. EndOf(msg) = Least(S) /\ EndOf(w) = Least(T)
      <4>1. Blank(w) # {}
        BY <1>1, <2>2
      <4> QED BY <2>2, <4>1, Zenon DEF EndOf
    <3> HIDE DEF S, T
    <3>5. PICK i : i = Least(S) /\ i \in S /\ \A j \in S : i <= j
      BY <3>1, LeastIs
    <3>6. T \in SUBSET Nat /\ i \in T /\ \A j \in T : i <= j
      BY <3>1, <3>2, <3>3, <3>5
    <3>7. Least(T) = i
      BY <3>6, LeastIs
    <3> QED BY <3>4, <3>5, <3>7
  <2> QED BY <2>1, <2>2
<1> QED BY <1>3, <1>4, <1>5, <1>6, <1>7, Zenon DEF SameHead

\* The first line of a message is not a header.
FirstEnds(msg, w, new) ==
  /\ Blank(msg) = {} /\ Blank(w) = {} /\ Header(msg) = {} /\ Header(w) = {}
  /\ Texts(msg) = {} /\ Texts(w) = {} /\ HeadOf(w) = {} /\ HeadOf(msg) = {}
  /\ Lines(msg) = {} /\ Lines(w) = {new}
  /\ Capped(w) = Lines(w) /\ Capped(msg) = Lines(msg) /\ EndOf(w) = 0 /\ EndOf(msg) = 0

\* An lf in it ends it.
LEMMA FirstLineEnds ==
  ASSUME NEW msg \in Seq(Bytes), NEW w, NEW new, Adds(msg, w, new),
         IsOpen(msg, 0), new \in Lines(w), new[1] = 1
  PROVE  FirstEnds(msg, w, new)
<1>1. Lines(msg) = {}
  <2>1. ASSUME NEW l \in Lines(msg) PROVE FALSE
    <3>1. IsLine(msg, l[1], l[2])
      BY LinesAre
    <3> QED BY <3>1 DEF IsLine, IsOpen
  <2> QED BY <2>1
<1>2. Lines(w) = {new}
  BY <1>1 DEF Adds
<1>3. ~(1 > 1)
  OBVIOUS
<1>4. Blank(msg) = {} /\ Header(msg) = {}
  BY <1>1, Zenon DEF Blank, Header
<1>5. Blank(w) = {} /\ Header(w) = {}
  BY <1>2, <1>3, Zenon DEF Blank, Header
<1>6. Texts(w) = {} /\ HeadOf(w) = {} /\ Texts(msg) = {} /\ HeadOf(msg) = {}
  BY <1>4, <1>5, Zenon DEF Texts, HeadOf
<1>7. Capped(w) = Lines(w) /\ EndOf(w) = 0 /\ Capped(msg) = Lines(msg) /\ EndOf(msg) = 0
  BY <1>4, <1>5, Zenon DEF Capped, EndOf
<1> QED BY <1>1, <1>2, <1>4, <1>5, <1>6, <1>7, Zenon DEF FirstEnds

\* An empty line ends the headers.
BlankEnds(msg, w) ==
  /\ Texts(w) = Texts(msg) /\ HeadOf(w) = HeadOf(msg)
  /\ Capped(w) = Lines(w) /\ Capped(msg) = Lines(msg) /\ EndOf(w) = Len(w) /\ EndOf(msg) = 0

\* The first of them.
LEMMA BlankLineEnds ==
  ASSUME NEW msg, NEW w, NEW new, Adds(msg, w, new), Blank(msg) = {},
         new \in Lines(w), new[1] > 1, Line(w, new[1], new[2]) = <<>>
  PROVE  BlankEnds(msg, w)
<1>1. /\ Lines(msg) \subseteq Lines(w) /\ Lines(w) \subseteq Lines(msg) \cup {new}
      /\ Blank(w) \subseteq Blank(msg) \cup {new} /\ new[2] = Len(w)
      /\ Len(msg) \in Nat /\ Len(w) = Len(msg) + 1
  BY Zenon DEF Adds
<1>2. \A l \in Lines(msg) : /\ l[2] \in Nat /\ l[2] < new[2] /\ l[2] <= new[2] /\ l # new
  BY EndsBefore
<1>3. new \in Blank(w)
  BY Zenon DEF Blank
<1>4. Blank(w) = {new}
  BY <1>1, <1>3
<1>5. new[2] \in Nat /\ new[2] <= new[2] /\ ~(new[2] < new[2])
  BY <1>1
<1>6. Header(w) = Header(msg)
  BY <1>1, <1>2, <1>4, <1>5, Zenon DEF Header
<1>7. HeadOf(w) = HeadOf(msg)
  BY <1>6, Zenon DEF HeadOf
<1>8. Texts(w) = Texts(msg)
  <2>1. \A l \in Header(msg) : TextOf(w, l) = TextOf(msg, l)
    <3>1. Header(msg) \subseteq Lines(msg)
      BY Zenon DEF Header
    <3> QED BY <1>7, <3>1, TextStays
  <2> QED BY <1>6, <2>1, Zenon DEF Texts
<1>9. Capped(w) = Lines(w)
  BY <1>1, <1>2, <1>4, <1>5, Zenon DEF Capped
<1>10. Capped(msg) = Lines(msg) /\ EndOf(msg) = 0
  BY Zenon DEF Capped, EndOf
<1>11. EndOf(w) = Len(w)
  <2>1. {b[2] : b \in Blank(w)} = {new[2]}
    BY <1>4
  <2>2. Least({new[2]}) = new[2]
    BY <1>5, LeastIs
  <2> QED BY <1>1, <1>3, <2>1, <2>2, Zenon DEF EndOf
<1> QED BY <1>7, <1>8, <1>9, <1>10, <1>11, Zenon DEF BlankEnds

\* Any other line is a header.
HeaderEnds(msg, w, new) ==
  /\ HeadOf(w) = HeadOf(msg) \cup {Len(w)}
  /\ Cardinality(HeadOf(msg)) \in Nat
  /\ Cardinality(HeadOf(w)) = Cardinality(HeadOf(msg)) + 1
  /\ Texts(w) = Texts(msg) \cup {<<Cardinality(HeadOf(msg)) + 1, Line(w, new[1], new[2])>>}
  /\ Capped(w) = Lines(w) /\ Capped(msg) = Lines(msg) /\ EndOf(w) = 0 /\ EndOf(msg) = 0

\* It is the last one.
LEMMA HeaderLineEnds ==
  ASSUME NEW msg, NEW w, NEW new, Adds(msg, w, new), Blank(msg) = {},
         new \in Lines(w), new[1] > 1, Line(w, new[1], new[2]) # <<>>
  PROVE  HeaderEnds(msg, w, new)
<1>1. /\ Lines(msg) \subseteq Lines(w) /\ Lines(w) \subseteq Lines(msg) \cup {new}
      /\ Blank(w) \subseteq Blank(msg) \cup {new} /\ new[2] = Len(w)
      /\ Len(msg) \in Nat /\ Len(w) = Len(msg) + 1
  BY Zenon DEF Adds
<1>2. \A l \in Lines(msg) : l[2] \in Nat /\ l[2] < new[2]
  BY EndsBefore
<1>3. Blank(w) = {}
  <2>1. new \notin Blank(w)
    BY Zenon DEF Blank
  <2> QED BY <1>1, <2>1
<1>4. Header(w) = Header(msg) \cup {new}
  BY <1>1, <1>3, Zenon DEF Header
<1>5. HeadOf(w) = HeadOf(msg) \cup {Len(w)}
  <2>1. \A x \in HeadOf(w) : x \in HeadOf(msg) \cup {Len(w)}
    BY <1>1, <1>4 DEF HeadOf
  <2>2. \A x \in HeadOf(msg) \cup {Len(w)} : x \in HeadOf(w)
    BY <1>1, <1>4 DEF HeadOf
  <2> QED BY <2>1, <2>2
<1>6. Header(msg) \subseteq Lines(msg)
  BY Zenon DEF Header
<1>7. HeadOf(msg) \subseteq 1 .. Len(msg)
  <2>1. \A l \in Lines(msg) : l[1] \in 1 .. Len(msg) /\ l[2] \in l[1] .. Len(msg)
    BY Zenon DEF Adds, Stays
  <2>2. \A l \in Lines(msg) : l[2] \in 1 .. Len(msg)
    BY <2>1
  <2> QED BY <1>6, <2>2, Zenon DEF HeadOf
<1>8. IsFiniteSet(HeadOf(msg)) /\ Cardinality(HeadOf(msg)) \in Nat
  <2>1. IsFiniteSet(1 .. Len(msg))
    BY <1>1, FS_Interval
  <2> QED BY <1>7, <2>1, FS_Subset, FS_CardinalityType
<1>9. Len(w) \notin HeadOf(msg)
  BY <1>1, <1>7
<1>10. Cardinality(HeadOf(w)) = Cardinality(HeadOf(msg)) + 1
  BY <1>5, <1>8, <1>9, FS_AddElement
<1>11. TextOf(w, new) = <<Cardinality(HeadOf(msg)) + 1, Line(w, new[1], new[2])>>
  <2>1. {j \in HeadOf(w) : j <= new[2]} = HeadOf(w)
    BY <1>1, <1>5, <1>7
  <2> QED BY <1>10, <2>1, Zenon DEF TextOf
<1>12. Texts(w) = Texts(msg) \cup {TextOf(w, new)}
  <2>1. \A l \in Header(msg) : TextOf(w, l) = TextOf(msg, l)
    BY <1>1, <1>5, <1>6, TextStays
  <2> QED BY <1>4, <2>1, Zenon DEF Texts
<1>13. Capped(w) = Lines(w) /\ EndOf(w) = 0 /\ Capped(msg) = Lines(msg) /\ EndOf(msg) = 0
  BY <1>3, Zenon DEF Capped, EndOf
<1> QED BY <1>5, <1>8, <1>10, <1>11, <1>12, <1>13, Zenon DEF HeaderEnds

\* The headers are ended when there is an empty line, by its lf.
LEMMA EndIs ==
  ASSUME NEW msg \in Seq(Bytes)
  PROVE  /\ EndOf(msg) \in 0 .. Len(msg)
         /\ EndOf(msg) = 0 <=> Blank(msg) = {}
<1>1. CASE Blank(msg) = {}
  <2>1. EndOf(msg) = 0
    BY <1>1, Zenon DEF EndOf
  <2> QED BY <1>1, <2>1
<1>2. CASE Blank(msg) # {}
  <2> DEFINE S == {b[2] : b \in Blank(msg)}
  <2>1. \A b \in Blank(msg) : b[2] \in 1 .. Len(msg)
    <3>1. \A b \in Blank(msg) : IsLine(msg, b[1], b[2])
      BY LinesAre DEF Blank
    <3> QED BY <3>1 DEF IsLine
  <2>2. S \in SUBSET Nat /\ S # {} /\ S \subseteq 1 .. Len(msg)
    BY <1>2, <2>1
  <2>3. EndOf(msg) = Least(S)
    BY <1>2, Zenon DEF EndOf
  <2> HIDE DEF S
  <2>4. EndOf(msg) \in S
    BY <2>2, <2>3, LeastIs
  <2>5. EndOf(msg) \in 1 .. Len(msg)
    BY <2>2, <2>4
  <2>6. PICK e : e = EndOf(msg)
    OBVIOUS
  <2>7. e \in 0 .. Len(msg) /\ e # 0
    BY <2>5, <2>6
  <2> QED BY <1>2, <2>6, <2>7, Zenon
<1> QED BY <1>1, <1>2

\* What a byte may do to the lines of a message.
ByteCases(msg, c, w, o) ==
  \/ SameHead(msg, w) /\ (c # "lf" \/ EndOf(msg) # 0)
  \/ c = "lf" /\ o = 0 /\ FirstEnds(msg, w, Ended(w, o + 1))
  \/ c = "lf" /\ o > 0 /\ Line(w, o + 1, Len(w)) = <<>> /\ BlankEnds(msg, w)
  \/ c = "lf" /\ o > 0 /\ Line(w, o + 1, Len(w)) # <<>> /\ HeaderEnds(msg, w, Ended(w, o + 1))

\* There is nothing else.
LEMMA ByteDoes ==
  ASSUME NEW msg \in Seq(Bytes), NEW c \in Bytes, NEW w \in Seq(Bytes), Grows(msg, c, w),
         NEW o, IsOpen(msg, o)
  PROVE  ByteCases(msg, c, w, o)
<1>1. PICK new : new = Ended(w, o + 1) /\ new[1] = o + 1 /\ new[2] = Len(w)
  <2>1. Ended(w, o + 1)[1] = o + 1 /\ Ended(w, o + 1)[2] = Len(w)
    BY DEF Ended
  <2> QED BY <2>1, Zenon
<1>2. Adds(msg, w, new)
  BY <1>1, AddsLine
<1>3. Lines(w) = IF c = "lf" THEN Lines(msg) \cup {new} ELSE Lines(msg)
  BY <1>1, LinesGrow
<1>4. c # "lf" => new \notin Lines(w)
  BY <1>2, <1>3, EndsBefore
<1>5. CASE c # "lf" \/ Blank(msg) # {}
  <2>1. SameHead(msg, w)
    BY <1>2, <1>4, <1>5, HeadStays
  <2> QED BY <1>5, <2>1, EndIs DEF ByteCases
<1>6. CASE c = "lf" /\ Blank(msg) = {} /\ o = 0
  <2>1. new[1] = 1 /\ new \in Lines(w) /\ IsOpen(msg, 0)
    BY <1>1, <1>3, <1>6
  <2>2. FirstEnds(msg, w, new)
    BY <1>2, <2>1, FirstLineEnds
  <2> QED BY <1>1, <1>6, <2>2, Zenon DEF ByteCases
<1>7. CASE c = "lf" /\ Blank(msg) = {} /\ o # 0
  <2>1. o > 0 /\ new[1] > 1
    BY <1>1, <1>7 DEF IsOpen
  <2>2. new \in Lines(w) /\ Line(w, new[1], new[2]) = Line(w, o + 1, Len(w))
    BY <1>1, <1>3, <1>7
  <2>3. CASE Line(w, o + 1, Len(w)) = <<>>
    <3>1. BlankEnds(msg, w)
      BY <1>2, <1>7, <2>1, <2>2, <2>3, BlankLineEnds
    <3> QED BY <1>7, <2>1, <2>3, <3>1, Zenon DEF ByteCases
  <2>4. CASE Line(w, o + 1, Len(w)) # <<>>
    <3>1. HeaderEnds(msg, w, new)
      BY <1>2, <1>7, <2>1, <2>2, <2>4, HeaderLineEnds
    <3> QED BY <1>1, <1>7, <2>1, <2>4, <3>1, Zenon DEF ByteCases
  <2> QED BY <2>3, <2>4
<1> QED BY <1>5, <1>6, <1>7

\* A message whose lines end alike began with such a message.
LEMMA UniformBack ==
  ASSUME NEW msg \in Seq(Bytes), NEW c \in Bytes, NEW w \in Seq(Bytes), Grows(msg, c, w),
         NEW o, IsOpen(msg, o), Uniform(w)
  PROVE  Uniform(msg)
<1>1. PICK new : Adds(msg, w, new)
  BY AddsLine
<1>2. \A l \in Lines(msg) : WithCR(w, l[2]) = WithCR(msg, l[2])
  BY <1>1, Zenon DEF Adds, Stays
<1>3. Capped(msg) \subseteq Lines(msg)
  BY Zenon DEF Capped
<1>4. Capped(msg) \subseteq Capped(w)
  <2>1. \A l \in Lines(msg) : l[2] <= new[2]
    BY <1>1, EndsBefore
  <2> QED BY <1>1, <2>1, Zenon DEF Capped, Adds
<1> QED BY <1>2, <1>3, <1>4, UniformIs

\* A line gets too long with the byte that is one too many.
LEMMA LengthGrows ==
  ASSUME NEW msg \in Seq(Bytes), NEW c \in Bytes, NEW w \in Seq(Bytes), Grows(msg, c, w),
         NEW o, IsOpen(msg, o)
  PROVE  TooLong(w) <=> \/ TooLong(msg)
                        \/ EndOf(msg) = 0 /\ Len(w) - o > kMaxHeaderLength
<1>1. PICK new : new = Ended(w, o + 1) /\ new[1] = o + 1 /\ new[2] = Len(w)
  <2>1. Ended(w, o + 1)[1] = o + 1 /\ Ended(w, o + 1)[2] = Len(w)
    BY DEF Ended
  <2> QED BY <2>1, Zenon
<1>2. Lines(w) = IF c = "lf" THEN Lines(msg) \cup {new} ELSE Lines(msg)
  BY <1>1, LinesGrow
<1>3. Adds(msg, w, new)
  BY <1>1, AddsLine
<1>4. \A l \in Lines(msg) : l[1] \in Nat /\ l[2] \in Nat /\ l[2] < new[2]
  BY <1>3, EndsBefore
<1>5. PICK n \in Nat : n = Len(msg) /\ Len(w) = n + 1
  BY DEF Grows
<1>6. o \in 0 .. n
  BY <1>5 DEF IsOpen
<1>7. OpenAt(msg) = o /\ OpenAt(w) = IF c = "lf" THEN Len(w) ELSE o
  BY OpenIs, OpenGrows
<1>8. kMaxHeaderLength \in Nat \ {0}
  BY HeaderAssumption
<1>9. EndOf(msg) \in 0 .. n /\ EndOf(w) \in 0 .. n + 1
  BY <1>5, EndIs
<1>10. EndOf(w) = EndOf(msg) \/ (EndOf(msg) = 0 /\ EndOf(w) = Len(w))
  BY ByteDoes DEF ByteCases, SameHead, FirstEnds, BlankEnds, HeaderEnds
<1>11. c # "lf" => EndOf(w) = EndOf(msg)
  BY ByteDoes DEF ByteCases, SameHead
<1>12. CASE EndOf(msg) # 0
  <2>1. EndOf(w) = EndOf(msg) /\ ~(new[2] <= EndOf(msg))
    BY <1>1, <1>5, <1>9, <1>10, <1>12
  <2> QED BY <1>2, <1>12, <2>1, Zenon DEF TooLong
<1>13. CASE EndOf(msg) = 0
  <2>1. TooLong(msg) <=> \/ \E l \in Lines(msg) : l[2] - l[1] + 1 > kMaxHeaderLength
                         \/ n - o > kMaxHeaderLength
    BY <1>5, <1>7, <1>13, Zenon DEF TooLong
  <2>2. \A l \in Lines(w) : EndOf(w) = 0 \/ l[2] <= EndOf(w)
    BY <1>1, <1>2, <1>4, <1>5, <1>10, <1>13
  <2>3. TooLong(w) <=> \/ \E l \in Lines(w) : l[2] - l[1] + 1 > kMaxHeaderLength
                       \/ EndOf(w) = 0 /\ Len(w) - OpenAt(w) > kMaxHeaderLength
    BY <2>2, Zenon DEF TooLong
  <2>4. n - o > kMaxHeaderLength => Len(w) - o > kMaxHeaderLength
    BY <1>5, <1>6, <1>8
  <2>5. CASE c = "lf"
    <3>1. ~(Len(w) - OpenAt(w) > kMaxHeaderLength)
      BY <1>5, <1>7, <1>8, <2>5
    <3>2. new[2] - new[1] + 1 = Len(w) - o
      BY <1>1, <1>5, <1>6
    <3>3. TooLong(w) <=> \/ \E l \in Lines(msg) : l[2] - l[1] + 1 > kMaxHeaderLength
                         \/ Len(w) - o > kMaxHeaderLength
      BY <1>2, <2>3, <2>5, <3>1, <3>2, Zenon
    <3> QED BY <1>13, <2>1, <2>4, <3>3, Zenon
  <2>6. CASE c # "lf"
    <3>1. TooLong(w) <=> \/ \E l \in Lines(msg) : l[2] - l[1] + 1 > kMaxHeaderLength
                         \/ Len(w) - o > kMaxHeaderLength
      BY <1>2, <1>7, <1>11, <1>13, <2>3, <2>6, Zenon
    <3> QED BY <1>13, <2>1, <2>4, <3>1, Zenon
  <2> QED BY <2>5, <2>6
<1> QED BY <1>12, <1>13

-----------------------------------------------------------------------------
(* What the parser makes of a line *)

\* Two strings that agree up to n have the same pieces up to there.
LEMMA SamePiece ==
  ASSUME NEW a \in Seq(Bytes), NEW b \in Seq(Bytes), NEW n \in Nat,
         n <= Len(a), n <= Len(b), \A k \in 1 .. n : a[k] = b[k],
         NEW i \in 1 .. n, NEW m \in 0 .. n
  PROVE  SubSeq(a, i, m) = SubSeq(b, i, m)
<1>1. Piece(a, i, m, SubSeq(a, i, m)) /\ Piece(b, i, m, SubSeq(b, i, m))
  <2>1. i \in 1 .. Len(a) /\ m \in 0 .. Len(a) /\ i \in 1 .. Len(b) /\ m \in 0 .. Len(b)
    OBVIOUS
  <2> QED BY <2>1, PieceIs
<1>2. PICK s, t : /\ s = SubSeq(a, i, m) /\ t = SubSeq(b, i, m)
                  /\ Piece(a, i, m, s) /\ Piece(b, i, m, t)
  BY <1>1
<1>3. ASSUME NEW k \in 1 .. (m - i + 1)
      PROVE  s[k] = t[k]
  <2>1. i + k - 1 \in 1 .. n
    OBVIOUS
  <2>2. s[k] = a[i + k - 1] /\ t[k] = b[i + k - 1]
    BY <1>2 DEF Piece
  <2> QED BY <2>1, <2>2
<1>4. s \in Seq(Bytes) /\ t \in Seq(Bytes) /\ Len(s) = Len(t)
  BY <1>2, Zenon DEF Piece
<1>5. Len(s) = IF i <= m THEN m - i + 1 ELSE 0
  BY <1>2, Zenon DEF Piece
<1>6. \A k \in 1 .. Len(s) : s[k] = t[k]
  BY <1>3, <1>5
<1> QED BY <1>2, <1>4, <1>6, SeqEqual

\* The line is its text and the e bytes that end it.
Cuts(line, e, text) ==
  /\ line \in Seq(Bytes) /\ text \in Seq(Bytes) /\ e \in {1, 2}
  /\ Len(line) = Len(text) + e
  /\ \A k \in 1 .. Len(text) : line[k] = text[k]
  /\ \A k \in (Len(text) + 1) .. Len(line) : line[k] \in {"cr", "lf"}

\* What CheckLine looks at.
EndsCR(line) == Len(line) >= 2 /\ line[Len(line) - 1] = "cr"

\* The line that an lf ends, and its text in the reference.
LEMMA LineCut ==
  ASSUME NEW w \in Seq(Bytes), NEW i, IsLine(w, i, Len(w)), NEW line,
         line = SubSeq(w, i, Len(w))
  PROVE  /\ Cuts(line, IF EndsCR(line) THEN 2 ELSE 1, Line(w, i, Len(w)))
         /\ EndsCR(line) = WithCR(w, Len(w))
         /\ line # <<>> /\ line[1] = w[i]
<1>1. PICK N \in Nat : N = Len(w) /\ i \in 1 .. N /\ w[N] = "lf"
  BY DEF IsLine
<1>2. Piece(w, i, N, line)
  BY <1>1, PieceIs
<1>3. /\ line \in Seq(Bytes) /\ Len(line) = N - i + 1
      /\ \A k \in 1 .. (N - i + 1) : line[k] = w[i + k - 1]
  BY <1>1, <1>2 DEF Piece
<1>4. line # <<>> /\ line[1] = w[i]
  <2>1. 1 \in 1 .. (N - i + 1) /\ i + 1 - 1 = i /\ N - i + 1 # 0
    BY <1>1
  <2>2. line[1] = w[i + 1 - 1]
    BY <1>3, <2>1, Zenon
  <2>3. line # <<>>
    BY <1>3, <2>1
  <2> QED BY <2>1, <2>2, <2>3
<1>5. EndsCR(line) <=> N > i /\ w[N - 1] = "cr"
  <2>1. CASE N > i
    <3>1. N - i \in 1 .. (N - i + 1) /\ i + (N - i) - 1 = N - 1
      BY <1>1, <2>1
    <3>2. line[N - i] = w[N - 1]
      BY <1>3, <3>1
    <3>3. Len(line) >= 2 /\ Len(line) - 1 = N - i
      BY <1>1, <1>3, <2>1
    <3> QED BY <2>1, <3>2, <3>3 DEF EndsCR
  <2>2. CASE ~(N > i)
    BY <1>1, <1>3, <2>2 DEF EndsCR
  <2> QED BY <2>1, <2>2
<1>6. WithCR(w, N) <=> N > i /\ w[N - 1] = "cr"
  <2>1. ASSUME ~(N > i), N > 1
        PROVE  w[N - 1] = "lf"
    BY <1>1, <2>1 DEF IsLine
  <2>2. N > i => N > 1
    BY <1>1
  <2> QED BY <2>1, <2>2 DEF WithCR
<1>7. PICK e : e = IF EndsCR(line) THEN 2 ELSE 1
  OBVIOUS
<1>8. e \in {1, 2} /\ N - e \in 0 .. N /\ Line(w, i, N) = SubSeq(w, i, N - e)
  <2>1. CASE EndsCR(line)
    <3>1. e = 2 /\ N - e \in 0 .. N
      BY <1>1, <1>5, <1>7, <2>1
    <3> QED BY <1>5, <2>1, <3>1 DEF Line
  <2>2. CASE ~EndsCR(line)
    <3>1. e = 1 /\ N - e \in 0 .. N
      BY <1>1, <1>7, <2>2
    <3> QED BY <1>5, <2>2, <3>1 DEF Line
  <2> QED BY <2>1, <2>2
<1>9. PICK text : text = Line(w, i, N) /\ Piece(w, i, N - e, text)
  <2>1. i \in 1 .. Len(w) + 1 /\ N - e \in 0 .. Len(w)
    BY <1>1, <1>8
  <2>2. Piece(w, i, N - e, SubSeq(w, i, N - e))
    BY <2>1, PieceIs
  <2> QED BY <1>8, <2>2, Zenon
<1>10. /\ text \in Seq(Bytes) /\ Len(text) = IF i <= N - e THEN N - e - i + 1 ELSE 0
       /\ \A k \in 1 .. (N - e - i + 1) : text[k] = w[i + k - 1]
  BY <1>9, Zenon DEF Piece
<1>11. Len(text) = N - e - i + 1
  <2>1. EndsCR(line) => N > i
    BY <1>5
  <2>2. e = 2 => N > i
    BY <1>7, <2>1
  <2> QED BY <1>1, <1>8, <1>10, <2>2
<1>12. Len(line) = Len(text) + e
  BY <1>1, <1>3, <1>8, <1>11
<1>13. ASSUME NEW k \in 1 .. Len(text)
       PROVE  line[k] = text[k]
  <2>1. k \in 1 .. (N - i + 1) /\ k \in 1 .. (N - e - i + 1)
    BY <1>1, <1>8, <1>11
  <2> QED BY <1>3, <1>10, <2>1
<1>14. ASSUME NEW k \in (Len(text) + 1) .. Len(line)
       PROVE  line[k] \in {"cr", "lf"}
  <2>1. k \in 1 .. (N - i + 1) /\ (i + k - 1 = N \/ (e = 2 /\ i + k - 1 = N - 1))
    BY <1>1, <1>3, <1>8, <1>11
  <2>2. line[k] = w[i + k - 1]
    BY <1>3, <2>1
  <2>3. e = 2 => w[N - 1] = "cr"
    BY <1>5, <1>7
  <2> QED BY <1>1, <2>1, <2>2, <2>3
<1>15. Cuts(line, e, text)
  BY <1>3, <1>8, <1>10, <1>12, <1>13, <1>14, Zenon DEF Cuts
<1>16. EndsCR(line) = WithCR(w, N)
  BY <1>5, <1>6 DEF EndsCR, WithCR
<1> QED BY <1>1, <1>4, <1>7, <1>9, <1>15, <1>16

\* What AddHeader looks for in a line, and what it then takes for key and value.
Seeks(line, colons, colon, start) ==
  /\ colons = Positions(line, 1, {"colon"}) /\ colon = Least(colons)
  /\ start = Least(Positions(line, colon + 1, Bytes \ {"sp"}))
Reads(line, e, text, colons, colon, start) ==
  /\ (line[1] = "sp" \/ colons = {}) <=> ~WellFormed(text)
  /\ WellFormed(text) => /\ SubSeq(line, 1, colon - 1) = KeyOf(text)
                         /\ SubSeq(line, start, Len(line) - e) = ValueOf(text)

\* They are where the reference has them.
LEMMA HeaderRead ==
  ASSUME NEW line, NEW e, NEW text, Cuts(line, e, text), text # <<>>,
         NEW colons, NEW colon, NEW start, Seeks(line, colons, colon, start)
  PROVE  Reads(line, e, text, colons, colon, start)
<1>0. /\ colons = Positions(line, 1, {"colon"}) /\ colon = Least(colons)
      /\ start = Least(Positions(line, colon + 1, Bytes \ {"sp"}))
  BY Zenon DEF Seeks
<1>1. /\ line \in Seq(Bytes) /\ text \in Seq(Bytes) /\ e \in {1, 2}
      /\ Len(line) = Len(text) + e
      /\ \A k \in 1 .. Len(text) : line[k] = text[k]
      /\ \A k \in (Len(text) + 1) .. Len(line) : line[k] \in {"cr", "lf"}
  BY Zenon DEF Cuts
<1>2. PICK n \in Nat : n = Len(text) /\ n >= 1 /\ Len(line) = n + e /\ Len(line) - e = n
  BY <1>1
<1>3. colons = Positions(text, 1, {"colon"})
  <2>1. \A k \in colons : k \in 1 .. n
    BY <1>0, <1>1, <1>2 DEF Positions
  <2> QED BY <1>0, <1>1, <1>2, <2>1 DEF Positions
<1>4. line[1] = text[1]
  BY <1>1, <1>2
<1>5. (line[1] = "sp" \/ colons = {}) <=> ~WellFormed(text)
  BY <1>3, <1>4, Zenon DEF WellFormed
<1>6. ASSUME WellFormed(text)
      PROVE  SubSeq(line, 1, colon - 1) = KeyOf(text) /\ colon \in 1 .. n
  <2>1. colons # {} /\ colons \in SUBSET Nat /\ \A k \in colons : k \in 1 .. n
    BY <1>2, <1>3, <1>6 DEF WellFormed, Positions
  <2>2. colon \in 1 .. n
    BY <1>0, <2>1, LeastIs
  <2>3. n <= Len(line) /\ n <= Len(text) /\ 1 \in 1 .. n /\ colon - 1 \in 0 .. n
    BY <1>1, <1>2, <2>2
  <2>4. SubSeq(line, 1, colon - 1) = SubSeq(text, 1, colon - 1)
    BY <1>1, <1>2, <2>3, SamePiece
  <2>5. KeyOf(text) = SubSeq(text, 1, colon - 1)
    BY <1>0, <1>3, Zenon DEF KeyOf
  <2> QED BY <2>2, <2>4, <2>5
<1>7. ASSUME WellFormed(text)
      PROVE  SubSeq(line, start, n) = ValueOf(text)
  <2>1. colon \in 1 .. n
    BY <1>6, <1>7
  <2> DEFINE S == Positions(line, colon + 1, Bytes \ {"sp"})
             T == Positions(text, colon + 1, Bytes \ {"sp"})
  <2>2. \A k : k \in T <=> k \in S /\ k <= n
    BY <1>1, <1>2, <2>1 DEF Positions
  <2>3. S \in SUBSET Nat /\ T \in SUBSET Nat
    BY <1>1, <1>2, <2>1 DEF Positions
  <2>4. S # {}
    <3>1. Len(line) \in (colon + 1) .. Len(line) /\ Len(line) \in (n + 1) .. Len(line)
      BY <1>1, <1>2, <2>1
    <3>2. line[Len(line)] \in Bytes \ {"sp"}
      BY <1>1, <1>2, <3>1 DEF Bytes
    <3>3. Len(line) \in S
      BY <3>1, <3>2 DEF Positions
    <3> QED BY <3>3
  <2>5. ValueOf(text) = IF T = {} THEN <<>> ELSE SubSeq(text, Least(T), n)
    BY <1>0, <1>2, <1>3, Zenon DEF ValueOf
  <2>6. \A k \in T : k \in 1 .. n
    BY <1>2, <2>1 DEF Positions
  <2> HIDE DEF S, T
  <2>7. start \in S /\ \A k \in S : start <= k
    <3>1. start = Least(S)
      BY <1>0, Zenon DEF S
    <3> QED BY <2>3, <2>4, <3>1, LeastIs
  <2>8. CASE T = {}
    <3>1. start \in Nat /\ ~(start <= n)
      BY <2>2, <2>3, <2>7, <2>8
    <3>2. SubSeq(line, start, n) = <<>>
      <4>1. start \in Int /\ n \in Int /\ n < start
        BY <3>1
      <4> QED BY <4>1, SubSeqEmpty
    <3> QED BY <2>5, <2>8, <3>2, Zenon
  <2>9. CASE T # {}
    <3>1. PICK first : first = Least(T) /\ first \in T /\ \A k \in T : first <= k
      BY <2>3, <2>9, LeastIs
    <3>2. first \in S /\ first \in 1 .. n /\ start <= first /\ start \in Nat
      BY <2>2, <2>3, <2>6, <2>7, <3>1
    <3>3. start \in T
      <4>1. start <= n
        BY <3>2
      <4> QED BY <2>2, <2>7, <4>1
    <3>4. first <= start
      BY <3>1, <3>3
    <3>5. start = first
      BY <3>2, <3>4
    <3>6. n <= Len(line) /\ n <= Len(text) /\ n \in 0 .. n
      BY <1>1, <1>2
    <3>7. SubSeq(line, start, n) = SubSeq(text, start, n)
      BY <1>1, <1>2, <3>2, <3>5, <3>6, SamePiece
    <3> QED BY <2>5, <2>9, <3>1, <3>5, <3>7, Zenon
  <2> QED BY <2>8, <2>9
<1> QED BY <1>2, <1>5, <1>6, <1>7, Zenon DEF Reads

\* AddHeader stores them or refuses the line.
LEMMA HeaderAdded ==
  ASSUME NEW p, NEW text, Cuts(p.cur_line_, p.cur_line_end_length_, text), text # <<>>
  PROVE  AddHeader(p) = IF WellFormed(text) THEN StoreHeader(p, KeyOf(text), ValueOf(text))
                        ELSE [p EXCEPT !.ok = FALSE]
<1>1. PICK line, e, colons, colon, start :
         /\ line = p.cur_line_ /\ e = p.cur_line_end_length_
         /\ Seeks(line, colons, colon, start)
  BY Zenon DEF Seeks
<1>2. Cuts(line, e, text)
  BY <1>1, Zenon
<1>3. Reads(line, e, text, colons, colon, start)
  BY <1>1, <1>2, HeaderRead
<1>4. AddHeader(p) = IF line[1] = "sp" \/ colons = {} THEN [p EXCEPT !.ok = FALSE]
                     ELSE StoreHeader(p, SubSeq(line, 1, colon - 1),
                                      SubSeq(line, start, Len(line) - e))
  BY <1>1, Zenon DEF AddHeader, Seeks
<1> QED BY <1>3, <1>4, Zenon DEF Reads

-----------------------------------------------------------------------------
(* AddByte, case by case *)

\* A parser with these fields.
Parser(st, line, e, n, h, b, ok) ==
  [parse_state_ |-> st, cur_line_ |-> line, cur_line_end_length_ |-> e,
   content_length_ |-> n, headers |-> h, body |-> b, ok |-> ok]
Is(p, st, line, e, n, h, b, ok) == p = Parser(st, line, e, n, h, b, ok)

\* A byte of the body.
LEMMA BodyByte ==
  ASSUME NEW st, st = "kParseBody", NEW line, NEW e, NEW n, NEW h, NEW b, NEW c,
         NEW p, Is(p, st, line, e, n, h, b, TRUE)
  PROVE  Is(AddByte(p, c), st, line, e, n, h, Append(b, c), TRUE)
<1>1. p.parse_state_ = "kParseBody" /\ p.body = b
  BY DEF Parser, Is
<1>2. PICK v : v = Append(b, c)
  OBVIOUS
<1>3. PICK r : r = [p EXCEPT !.body = v]
  OBVIOUS
<1>4. AddByte(p, c) = r
  BY <1>1, <1>2, <1>3, Zenon DEF AddByte
<1>5. r = Parser(st, line, e, n, h, v, TRUE)
  BY <1>3 DEF Parser, Is
<1> QED BY <1>2, <1>4, <1>5, Zenon DEF Is

\* A byte too many.
LEMMA LongByte ==
  ASSUME NEW st, st # "kParseBody", NEW line, Len(line) >= kMaxHeaderLength,
         NEW e, NEW n, NEW h, NEW b, NEW c,
         NEW p, Is(p, st, line, e, n, h, b, TRUE)
  PROVE  Is(AddByte(p, c), st, line, e, n, h, b, FALSE)
<1>1. p.parse_state_ = st /\ p.cur_line_ = line
  BY DEF Parser, Is
<1>2. AddByte(p, c) = [p EXCEPT !.ok = FALSE]
  BY <1>1, Zenon DEF AddByte
<1> QED BY <1>2 DEF Parser, Is

\* A byte of a line.
LEMMA LineByte ==
  ASSUME NEW st, st # "kParseBody", NEW line \in Seq(Bytes), ~(Len(line) >= kMaxHeaderLength),
         NEW e, NEW n, NEW h, NEW b, NEW c \in Bytes, c # "lf",
         NEW p, Is(p, st, line, e, n, h, b, TRUE)
  PROVE  Is(AddByte(p, c), st, Append(line, c), e, n, h, b, TRUE)
<1>1. p.parse_state_ = st /\ p.cur_line_ = line
  BY DEF Parser, Is
<1>2. PICK q : q = [p EXCEPT !.cur_line_ = Append(line, c)]
  OBVIOUS
<1>3. q = Parser(st, Append(line, c), e, n, h, b, TRUE)
  BY <1>2 DEF Parser, Is
<1>4. ~EndsLine(q.cur_line_)
  <2>1. q.cur_line_ = Append(line, c)
    BY <1>3 DEF Parser, Is
  <2>2. Append(line, c)[Len(Append(line, c))] = c
    OBVIOUS
  <2> QED BY <2>1, <2>2 DEF EndsLine
<1>5. AddByte(p, c) = q
  BY <1>1, <1>2, <1>4, Zenon DEF AddByte
<1> QED BY <1>3, <1>5, Zenon DEF Is

\* The line that an lf ends, and what is known of its end; CheckLine then leaves q.
Ending(cur, e, line) == line = Append(cur, "lf") /\ (EndsCR(line) => e = 2)
Checked(p, q, st, line, n, h, b) ==
  \E m : /\ AddByte(p, "lf") = FinishLine(q) /\ Is(q, st, line, m, n, h, b, TRUE)
         /\ m = IF EndsCR(line) THEN 2 ELSE 1

\* The lf that ends a line: CheckLine knows how the line ends.
LEMMA LastByte ==
  ASSUME NEW st, st # "kParseBody", NEW cur \in Seq(Bytes), ~(Len(cur) >= kMaxHeaderLength),
         NEW e, NEW n, NEW h, NEW b,
         NEW p, Is(p, st, cur, e, n, h, b, TRUE),
         NEW line, Ending(cur, e, line)
  PROVE  \E q : Checked(p, q, st, line, n, h, b)
<1> USE DEF Ending
<1>1. p.parse_state_ = st /\ p.cur_line_ = cur
  BY DEF Parser, Is
<1>2. PICK r : r = [p EXCEPT !.cur_line_ = Append(cur, "lf")]
  OBVIOUS
<1>3. r = Parser(st, line, e, n, h, b, TRUE)
  BY <1>2 DEF Parser, Is
<1>4. r.cur_line_ = line
  BY <1>3 DEF Parser, Is
<1>5. EndsLine(r.cur_line_)
  <2>1. "lf" \in Bytes
    BY DEF Bytes
  <2>2. line[Len(line)] = "lf"
    BY <2>1
  <2> QED BY <1>4, <2>2 DEF EndsLine
<1>6. AddByte(p, "lf") = FinishLine(CheckLine(r))
  BY <1>1, <1>2, <1>5, Zenon DEF AddByte
<1>7. CheckLine(r) = IF EndsCR(line) THEN r ELSE [r EXCEPT !.cur_line_end_length_ = 1]
  BY <1>4, Zenon DEF CheckLine, EndsCR
<1>8. CASE EndsCR(line)
  <2>1. AddByte(p, "lf") = FinishLine(r) /\ r = Parser(st, line, 2, n, h, b, TRUE)
    BY <1>3, <1>6, <1>7, <1>8, Zenon
  <2> QED BY <1>8, <2>1, Zenon DEF Is, Checked
<1>9. CASE ~EndsCR(line)
  <2>1. PICK q : q = [r EXCEPT !.cur_line_end_length_ = 1]
    OBVIOUS
  <2>2. q = Parser(st, line, 1, n, h, b, TRUE)
    BY <1>3, <2>1 DEF Parser, Is
  <2>3. AddByte(p, "lf") = FinishLine(q)
    BY <1>6, <1>7, <1>9, <2>1, Zenon
  <2> QED BY <1>9, <2>2, <2>3, Zenon DEF Is, Checked
<1> QED BY <1>8, <1>9

\* FinishLine after the first line.
LEMMA FirstFinished ==
  ASSUME NEW line, NEW e, NEW n, NEW h, NEW b,
         NEW q, Is(q, "kParseFirstLine", line, e, n, h, b, TRUE), line[1] = "first"
  PROVE  Is(FinishLine(q), "kParseHeaders", <<>>, e, n, h, b, TRUE)
<1>1. q.parse_state_ = "kParseFirstLine" /\ q.cur_line_[1] = "first"
  BY DEF Parser, Is
<1>2. PICK r : r = HandleFirstLine(q)
  OBVIOUS
<1>3. r = [q EXCEPT !.ok = TRUE, !.parse_state_ = "kParseHeaders"]
  BY <1>1, <1>2 DEF HandleFirstLine
<1>4. r = Parser("kParseHeaders", line, e, n, h, b, TRUE)
  BY <1>3 DEF Parser, Is
<1>5. FinishLine(q) = [r EXCEPT !.cur_line_ = <<>>]
  BY <1>1, <1>2, Zenon DEF FinishLine
<1> QED BY <1>4, <1>5 DEF Parser, Is

\* After an empty line.
LEMMA BlankFinished ==
  ASSUME NEW line, NEW e, NEW n, NEW h, NEW b, Len(line) = e,
         NEW q, Is(q, "kParseHeaders", line, e, n, h, b, TRUE)
  PROVE  Is(FinishLine(q), "kParseBody", <<>>, e, n, h, b, TRUE)
<1>1. q.parse_state_ # "kParseFirstLine" /\ Len(q.cur_line_) = q.cur_line_end_length_
  <2>1. /\ q.parse_state_ = "kParseHeaders" /\ q.cur_line_ = line
        /\ q.cur_line_end_length_ = e
    BY DEF Parser, Is
  <2> QED BY <2>1
<1>2. PICK r : r = [q EXCEPT !.parse_state_ = "kParseBody"]
  OBVIOUS
<1>3. r = Parser("kParseBody", line, e, n, h, b, TRUE)
  BY <1>2 DEF Parser, Is
<1>4. FinishLine(q) = [r EXCEPT !.cur_line_ = <<>>]
  BY <1>1, <1>2, Zenon DEF FinishLine
<1> QED BY <1>3, <1>4 DEF Parser, Is

IsLengthKey(key) == key # <<>> /\ key[1] = "key"

\* After any other.
LEMMA HeaderFinished ==
  ASSUME NEW line, NEW e, NEW n, NEW h, NEW b, NEW text, Cuts(line, e, text), text # <<>>,
         NEW q, Is(q, "kParseHeaders", line, e, n, h, b, TRUE)
  PROVE  /\ ~WellFormed(text) =>
              Is(FinishLine(q), "kParseHeaders", <<>>, e, n, h, b, FALSE)
         /\ WellFormed(text) =>
              Is(FinishLine(q), "kParseHeaders", <<>>, e,
                                     IF n = -1 /\ IsLengthKey(KeyOf(text))
                                     THEN ToInt(ValueOf(text)) ELSE n,
                                     Append(h, <<KeyOf(text), ValueOf(text)>>), b, TRUE)
<1>1. /\ q.parse_state_ = "kParseHeaders" /\ q.cur_line_ = line
      /\ q.cur_line_end_length_ = e /\ q.content_length_ = n /\ q.headers = h
  BY DEF Parser, Is
<1>2. q.parse_state_ # "kParseFirstLine"
  BY <1>1
<1>3. Len(q.cur_line_) # q.cur_line_end_length_
  <2>1. Len(line) # e
    BY DEF Cuts
  <2> QED BY <1>1, <2>1
<1>4. FinishLine(q) = [AddHeader(q) EXCEPT !.cur_line_ = <<>>]
  BY <1>2, <1>3, Zenon DEF FinishLine
<1>5. AddHeader(q) = IF WellFormed(text) THEN StoreHeader(q, KeyOf(text), ValueOf(text))
                     ELSE [q EXCEPT !.ok = FALSE]
  BY <1>1, HeaderAdded, Zenon
<1>6. ASSUME ~WellFormed(text)
      PROVE  Is(FinishLine(q), "kParseHeaders", <<>>, e, n, h, b, FALSE)
  <2>1. PICK r : r = [q EXCEPT !.ok = FALSE]
    OBVIOUS
  <2>2. FinishLine(q) = [r EXCEPT !.cur_line_ = <<>>]
    BY <1>4, <1>5, <1>6, <2>1, Zenon
  <2>3. r = Parser("kParseHeaders", line, e, n, h, b, FALSE)
    BY <2>1 DEF Parser, Is
  <2> QED BY <2>2, <2>3 DEF Parser, Is
<1>7. ASSUME WellFormed(text)
      PROVE  Is(FinishLine(q), "kParseHeaders", <<>>, e,
                                     IF n = -1 /\ IsLengthKey(KeyOf(text))
                                     THEN ToInt(ValueOf(text)) ELSE n,
                                     Append(h, <<KeyOf(text), ValueOf(text)>>), b, TRUE)
  <2>1. PICK hs, m : /\ hs = Append(h, <<KeyOf(text), ValueOf(text)>>)
                     /\ m = IF n = -1 /\ IsLengthKey(KeyOf(text))
                            THEN ToInt(ValueOf(text)) ELSE n
    OBVIOUS
  <2>2. PICK r : r = [q EXCEPT !.headers = hs, !.content_length_ = m]
    OBVIOUS
  <2>3. StoreHeader(q, KeyOf(text), ValueOf(text)) = r
    BY <1>1, <2>1, <2>2, Zenon DEF StoreHeader, IsLengthKey
  <2>4. FinishLine(q) = [r EXCEPT !.cur_line_ = <<>>]
    BY <1>4, <1>5, <1>7, <2>3, Zenon
  <2>5. r = Parser("kParseHeaders", line, e, m, hs, b, TRUE)
    BY <2>2 DEF Parser, Is
  <2>6. FinishLine(q) = Parser("kParseHeaders", <<>>, e, m, hs, b, TRUE)
    BY <2>4, <2>5 DEF Parser, Is
  <2> QED BY <2>1, <2>6, Zenon DEF Is
<1> QED BY <1>6, <1>7, Zenon

-----------------------------------------------------------------------------
(* The parser follows the lines, byte by byte *)

\* A line is open somewhere.
LEMMA OpenExists ==
  ASSUME NEW msg \in Seq(Bytes)
  PROVE  \E o : IsOpen(msg, o)
<1>1. PICK n \in Nat : n = Len(msg)
  OBVIOUS
<1> DEFINE T == {k \in 0 .. n : n - k = 0 \/ msg[n - k] = "lf"}
<1>2. T \in SUBSET Nat /\ n \in T
  OBVIOUS
<1>3. PICK k \in T : \A j \in T : k <= j
  BY <1>2, LeastNatural
<1>4. k \in 0 .. n /\ (n - k = 0 \/ msg[n - k] = "lf")
  OBVIOUS
<1>5. ASSUME NEW i \in (n - k + 1) .. n, msg[i] = "lf"
      PROVE  FALSE
  <2>1. n - i \in 0 .. n /\ n - (n - i) = i /\ ~(k <= n - i)
    BY <1>4
  <2>2. n - i \in T
    BY <1>5, <2>1
  <2> QED BY <1>3, <2>1, <2>2
<1>6. IsOpen(msg, n - k)
  <2>1. n - k \in 0 .. n
    BY <1>4
  <2> QED BY <1>1, <1>4, <1>5, <2>1 DEF IsOpen
<1> QED BY <1>6

\* What msg has from i on, and what w has from there when c comes.
RestIs(msg, c, w, i) ==
  /\ SubSeq(msg, i, Len(msg)) \in Seq(Bytes)
  /\ Len(SubSeq(msg, i, Len(msg))) = Len(msg) - i + 1
  /\ Append(SubSeq(msg, i, Len(msg)), c) = SubSeq(w, i, Len(w))

\* What is taken from a place to the end grows with the message.
LEMMA RestGrows ==
  ASSUME NEW msg \in Seq(Bytes), NEW c \in Bytes, NEW w \in Seq(Bytes), Grows(msg, c, w),
         NEW i \in 1 .. Len(msg) + 1
  PROVE  RestIs(msg, c, w, i)
<1>1. PICK n \in Nat : /\ n = Len(msg) /\ Len(w) = n + 1 /\ w[n + 1] = c
                       /\ \A k \in 1 .. n : w[k] = msg[k]
  BY DEF Grows
<1>2. Piece(msg, i, n, SubSeq(msg, i, n)) /\ Piece(w, i, n + 1, SubSeq(w, i, n + 1))
  <2>1. i \in 1 .. Len(msg) + 1 /\ n \in 0 .. Len(msg)
    BY <1>1
  <2>2. i \in 1 .. Len(w) + 1 /\ n + 1 \in 0 .. Len(w)
    BY <1>1
  <2> QED BY <2>1, <2>2, PieceIs
<1>3. PICK a, b : /\ a = SubSeq(msg, i, n) /\ b = SubSeq(w, i, n + 1)
                  /\ Piece(msg, i, n, a) /\ Piece(w, i, n + 1, b)
  BY <1>2
<1>4. /\ a \in Seq(Bytes) /\ Len(a) = n - i + 1
      /\ \A k \in 1 .. (n - i + 1) : a[k] = msg[i + k - 1]
  BY <1>1, <1>3 DEF Piece
<1>5. /\ b \in Seq(Bytes) /\ Len(b) = n - i + 2
      /\ \A k \in 1 .. (n - i + 2) : b[k] = w[i + k - 1]
  BY <1>1, <1>3 DEF Piece
<1>6. PICK d \in Seq(Bytes) : /\ d = Append(a, c) /\ Len(d) = Len(a) + 1 /\ d[Len(a) + 1] = c
                              /\ \A k \in 1 .. Len(a) : d[k] = a[k]
  <2>1. Append(a, c) \in Seq(Bytes) /\ Grows(a, c, Append(a, c))
    BY <1>4, AppendGrows
  <2> QED BY <2>1, Zenon DEF Grows
<1>7. Len(d) = Len(b)
  BY <1>1, <1>4, <1>5, <1>6
<1>8. ASSUME NEW k \in 1 .. Len(d)
      PROVE  d[k] = b[k]
  <2>1. k \in 1 .. (n - i + 2) /\ Len(a) + 1 = n - i + 2
    BY <1>1, <1>4, <1>6
  <2>2. CASE k <= n - i + 1
    <3>1. k \in 1 .. (n - i + 1) /\ i + k - 1 \in 1 .. n /\ k \in 1 .. Len(a)
      BY <1>1, <1>4, <2>1, <2>2
    <3> QED BY <1>1, <1>4, <1>5, <1>6, <2>1, <3>1
  <2>3. CASE k = n - i + 2
    <3>1. i + k - 1 = n + 1
      BY <1>1, <2>3
    <3> QED BY <1>1, <1>5, <1>6, <2>1, <2>3, <3>1
  <2> QED BY <1>1, <2>1, <2>2, <2>3
<1>9. d = b
  BY <1>5, <1>6, <1>7, <1>8, SeqEqual
<1> QED BY <1>1, <1>3, <1>4, <1>6, <1>9 DEF RestIs

\* The open line and how lines end, as the parser knows them.
EndsAlike(msg, e) == \A l \in Lines(msg) : e = IF WithCR(msg, l[2]) THEN 2 ELSE 1
OpenLine(msg, o, st, cur, e) ==
  /\ IsOpen(msg, o) /\ cur = SubSeq(msg, o + 1, Len(msg))
  /\ st = IF o = 0 THEN "kParseFirstLine" ELSE "kParseHeaders"
  /\ o = 0 => e = 2
  /\ o # 0 => Lines(msg) # {}
  /\ EndsAlike(msg, e)
Position(msg, st, cur, e, b) ==
  \/ EndOf(msg) # 0 /\ st = "kParseBody" /\ b = SubSeq(msg, EndOf(msg) + 1, Len(msg))
  \/ EndOf(msg) = 0 /\ b = <<>> /\ \E o : OpenLine(msg, o, st, cur, e)

\* The headers and the first content-length among them.
Graph(h) == {<<i, h[i]>> : i \in 1 .. Len(h)}
PairsOf(msg) == {<<t[1], <<KeyOf(t[2]), ValueOf(t[2])>>>> : t \in Texts(msg)}
Counts(h, n) ==
  \/ n = -1 /\ \A i \in 1 .. Len(h) : ~IsLengthKey(h[i][1])
  \/ \E i \in 1 .. Len(h) : /\ IsLengthKey(h[i][1]) /\ n = ToInt(h[i][2])
                            /\ \A k \in 1 .. (i - 1) : ~IsLengthKey(h[k][1])
HeadersAre(msg, n, h) ==
  /\ h \in Seq(Seq(Bytes) \X Seq(Bytes)) /\ Counts(h, n)
  /\ Graph(h) = PairsOf(msg) /\ Len(h) = Cardinality(HeadOf(msg))

\* What the parser knows of a message whose lines end alike: the inductive form of
\* FollowsLines.
Follows(msg, p) ==
  \/ Malformed(msg) /\ p.ok = FALSE
  \/ ~Malformed(msg) /\ \E st, cur, e, n, h, b : /\ Is(p, st, cur, e, n, h, b, TRUE)
                                                 /\ HeadersAre(msg, n, h)
                                                 /\ Position(msg, st, cur, e, b)
Tracks(msg, p) == Uniform(msg) => Follows(msg, p)

HeaderPair == Seq(Bytes) \X Seq(Bytes)

\* The key and the value of a line are strings.
LEMMA PairTyped ==
  ASSUME NEW text \in Seq(Bytes), text # <<>>, WellFormed(text)
  PROVE  <<KeyOf(text), ValueOf(text)>> \in HeaderPair
<1>1. PICK n \in Nat : n = Len(text) /\ n >= 1
  OBVIOUS
<1>2. PICK colon : colon = Least(Positions(text, 1, {"colon"})) /\ colon \in 1 .. n
  <2>1. /\ Positions(text, 1, {"colon"}) # {} /\ Positions(text, 1, {"colon"}) \in SUBSET Nat
        /\ \A k \in Positions(text, 1, {"colon"}) : k \in 1 .. n
    BY <1>1 DEF WellFormed, Positions
  <2> QED BY <2>1, LeastIs
<1>3. KeyOf(text) \in Seq(Bytes)
  <2>1. 1 \in 1 .. Len(text) + 1 /\ colon - 1 \in 0 .. Len(text)
    BY <1>1, <1>2
  <2>2. Piece(text, 1, colon - 1, SubSeq(text, 1, colon - 1))
    BY <2>1, PieceIs
  <2> QED BY <1>2, <2>2, Zenon DEF KeyOf, Piece
<1>4. ValueOf(text) \in Seq(Bytes)
  <2>1. PICK rest : rest = Positions(text, colon + 1, Bytes \ {"sp"})
    OBVIOUS
  <2>2. ValueOf(text) = IF rest = {} THEN <<>> ELSE SubSeq(text, Least(rest), n)
    BY <1>1, <1>2, <2>1, Zenon DEF ValueOf
  <2>3. CASE rest = {}
    BY <2>2, <2>3
  <2>4. CASE rest # {}
    <3>1. rest \in SUBSET Nat /\ \A k \in rest : k \in 1 .. n
      <4>1. \A k \in rest : k \in (colon + 1) .. n
        BY <1>1, <2>1, Zenon DEF Positions
      <4>2. colon \in 1 .. n
        BY <1>2
      <4> QED BY <4>1, <4>2
    <3>2. PICK start : start = Least(rest) /\ start \in 1 .. n
      BY <2>4, <3>1, LeastIs
    <3>3. start \in 1 .. Len(text) + 1 /\ n \in 0 .. Len(text)
      BY <1>1, <3>2
    <3>4. Piece(text, start, n, SubSeq(text, start, n))
      BY <3>3, PieceIs
    <3> QED BY <2>2, <2>4, <3>2, <3>4, Zenon DEF Piece
  <2> QED BY <2>3, <2>4
<1> QED BY <1>3, <1>4 DEF HeaderPair

\* The fields of a list of headers to which one is added.
AppendsTo(h, pair, g) ==
  /\ Len(h) \in Nat /\ Len(g) = Len(h) + 1 /\ g[Len(h) + 1] = pair
  /\ \A k \in 1 .. Len(h) : g[k] = h[k]

\* That is what Append does.
LEMMA AppendsHeader ==
  ASSUME NEW h \in Seq(HeaderPair), NEW pair \in HeaderPair
  PROVE  Append(h, pair) \in Seq(HeaderPair) /\ AppendsTo(h, pair, Append(h, pair))
BY DEF AppendsTo

\* The lists and the lengths before and after AddHeader.
Stores(h, n, key, value, g, m) ==
  /\ AppendsTo(h, <<key, value>>, g)
  /\ m = IF n = -1 /\ IsLengthKey(key) THEN ToInt(value) ELSE n

\* content_length_ stays that of the first content-length.
LEMMA CountGrows ==
  ASSUME NEW h, NEW n, Counts(h, n), NEW key, NEW value, NEW g, NEW m,
         Stores(h, n, key, value, g, m)
  PROVE  Counts(g, m)
<1> USE DEF Stores
<1>1. PICK L \in Nat : /\ L = Len(h) /\ Len(g) = L + 1 /\ g[L + 1] = <<key, value>>
                       /\ \A k \in 1 .. L : g[k] = h[k]
  BY DEF AppendsTo
<1>2. g[L + 1][1] = key /\ g[L + 1][2] = value
  BY <1>1
<1>3. CASE n = -1 /\ \A i \in 1 .. L : ~IsLengthKey(h[i][1])
  <2>1. \A i \in 1 .. L : ~IsLengthKey(g[i][1])
    BY <1>1, <1>3, Zenon
  <2>2. CASE IsLengthKey(key)
    <3>0. PICK i : i = L + 1
      OBVIOUS
    <3>1. m = ToInt(g[i][2]) /\ IsLengthKey(g[i][1])
      BY <1>2, <1>3, <2>2, <3>0, Zenon
    <3>2. i \in 1 .. Len(g) /\ i - 1 = L
      BY <1>1, <3>0
    <3>3. \A k \in 1 .. (i - 1) : ~IsLengthKey(g[k][1])
      BY <2>1, <3>2, Zenon
    <3> QED BY <3>1, <3>2, <3>3, Zenon DEF Counts
  <2>3. CASE ~IsLengthKey(key)
    <3>1. \A i \in 1 .. L + 1 : i \in 1 .. L \/ i = L + 1
      BY <1>1
    <3>2. \A i \in 1 .. Len(g) : ~IsLengthKey(g[i][1])
      BY <1>1, <1>2, <2>1, <2>3, <3>1, Zenon
    <3> QED BY <1>3, <2>3, <3>2, Zenon DEF Counts
  <2> QED BY <2>2, <2>3
<1>4. ASSUME NEW i \in 1 .. L, IsLengthKey(h[i][1]), n = ToInt(h[i][2]),
             \A k \in 1 .. (i - 1) : ~IsLengthKey(h[k][1])
      PROVE  Counts(g, m)
  <2>1. n # -1
    BY <1>4 DEF ToInt
  <2>2. m = n
    BY <2>1, Zenon
  <2>3. g[i] = h[i] /\ i \in 1 .. Len(g)
    BY <1>1, <1>4
  <2>4. \A k \in 1 .. (i - 1) : g[k] = h[k]
    BY <1>1, <1>4
  <2> QED BY <1>4, <2>2, <2>3, <2>4, Zenon DEF Counts
<1> QED BY <1>1, <1>3, <1>4, Zenon DEF Counts

\* AddHeader keeps the headers those of the lines.
LEMMA HeaderTracked ==
  ASSUME NEW msg, NEW w, NEW new, HeaderEnds(msg, w, new),
         NEW n, NEW h, HeadersAre(msg, n, h),
         NEW text, text = Line(w, new[1], new[2]),
         text \in Seq(Bytes), text # <<>>, WellFormed(text), NEW m,
         m = IF n = -1 /\ IsLengthKey(KeyOf(text)) THEN ToInt(ValueOf(text)) ELSE n
  PROVE  HeadersAre(w, m, Append(h, <<KeyOf(text), ValueOf(text)>>))
<1>1. PICK key, value, pair : /\ key = KeyOf(text) /\ value = ValueOf(text)
                              /\ pair = <<key, value>> /\ pair \in HeaderPair
  BY PairTyped
<1>2. PICK g : g = Append(h, pair)
  OBVIOUS
<1>3. /\ h \in Seq(HeaderPair) /\ Counts(h, n) /\ Graph(h) = PairsOf(msg)
      /\ Len(h) = Cardinality(HeadOf(msg))
  BY Zenon DEF HeadersAre, HeaderPair
<1>4. g \in Seq(HeaderPair) /\ AppendsTo(h, pair, g)
  BY <1>1, <1>2, <1>3, AppendsHeader
<1>5. Counts(g, m)
  <2>1. Stores(h, n, key, value, g, m)
    BY <1>1, <1>4, Zenon DEF Stores
  <2> QED BY <1>3, <2>1, CountGrows
<1>6. PICK L \in Nat : /\ L = Len(h) /\ Len(g) = L + 1 /\ g[L + 1] = pair
                       /\ \A k \in 1 .. L : g[k] = h[k]
  BY <1>4, Zenon DEF AppendsTo
<1>7. Len(g) = Cardinality(HeadOf(w))
  BY <1>3, <1>6 DEF HeaderEnds
<1>8. PICK t : t = <<L + 1, text>> /\ t[1] = L + 1 /\ t[2] = text
  <2>1. <<L + 1, text>>[1] = L + 1 /\ <<L + 1, text>>[2] = text
    OBVIOUS
  <2> QED BY <2>1, Zenon
<1>9. Texts(w) = Texts(msg) \cup {t}
  BY <1>3, <1>6, <1>8, Zenon DEF HeaderEnds
<1>10. PairsOf(w) = PairsOf(msg) \cup {<<L + 1, pair>>}
  <2> DEFINE P(u) == <<u[1], <<KeyOf(u[2]), ValueOf(u[2])>>>>
  <2>1. P(t) = <<L + 1, pair>>
    BY <1>1, <1>8, Zenon
  <2>2. PairsOf(w) = {P(u) : u \in Texts(w)} /\ PairsOf(msg) = {P(u) : u \in Texts(msg)}
    BY Zenon DEF PairsOf
  <2> HIDE DEF P
  <2>3. {P(u) : u \in Texts(w)} = {P(u) : u \in Texts(msg)} \cup {P(t)}
    BY <1>9
  <2> QED BY <2>1, <2>2, <2>3
<1>11. Graph(g) = Graph(h) \cup {<<L + 1, pair>>}
  <2>1. 1 .. Len(g) = (1 .. L) \cup {L + 1}
    BY <1>6
  <2>2. \A i \in 1 .. L : <<i, g[i]>> = <<i, h[i]>>
    BY <1>6, Zenon
  <2>3. <<L + 1, g[L + 1]>> = <<L + 1, pair>>
    BY <1>6, Zenon
  <2> DEFINE G(i) == <<i, g[i]>>
             H(i) == <<i, h[i]>>
  <2>4. Graph(g) = {G(i) : i \in 1 .. Len(g)} /\ Graph(h) = {H(i) : i \in 1 .. L}
    BY <1>6, Zenon DEF Graph
  <2>5. \A i \in 1 .. L : G(i) = H(i)
    BY <2>2, Zenon
  <2>6. G(L + 1) = <<L + 1, pair>>
    BY <2>3, Zenon
  <2> HIDE DEF G, H
  <2>7. {G(i) : i \in (1 .. L) \cup {L + 1}} = {H(i) : i \in 1 .. L} \cup {G(L + 1)}
    BY <2>5
  <2> QED BY <2>1, <2>4, <2>6, <2>7
<1>12. Graph(g) = PairsOf(w)
  BY <1>3, <1>10, <1>11, Zenon
<1> QED BY <1>1, <1>2, <1>4, <1>5, <1>7, <1>12, Zenon DEF HeadersAre, HeaderPair

\* The other bytes leave them as they are.
LEMMA HeadersStay ==
  ASSUME NEW msg, NEW w, Texts(w) = Texts(msg), HeadOf(w) = HeadOf(msg),
         NEW n, NEW h, HeadersAre(msg, n, h)
  PROVE  HeadersAre(w, n, h)
BY Zenon DEF HeadersAre, PairsOf

\* The next byte of a message and of the parser.
NextByte(msg, c, w) == msg \in Seq(Bytes) /\ c \in Bytes /\ w \in Seq(Bytes) /\ Grows(msg, c, w)

\* A byte of the body.
LEMMA BodyTracked ==
  ASSUME NEW msg, NEW c, NEW w, NextByte(msg, c, w), NEW o, IsOpen(msg, o),
         ~Malformed(msg), EndOf(msg) # 0,
         NEW st, NEW cur, NEW e, NEW n, NEW h, NEW b,
         NEW p, Is(p, st, cur, e, n, h, b, TRUE),
         HeadersAre(msg, n, h), Position(msg, st, cur, e, b)
  PROVE  ~Malformed(w) /\ \E d : /\ Is(AddByte(p, c), st, cur, e, n, h, d, TRUE)
                                 /\ HeadersAre(w, n, h) /\ Position(w, st, cur, e, d)
<1>1. msg \in Seq(Bytes) /\ c \in Bytes /\ w \in Seq(Bytes) /\ Grows(msg, c, w)
  BY Zenon DEF NextByte
<1>2. SameHead(msg, w)
  BY <1>1, ByteDoes DEF ByteCases, FirstEnds, BlankEnds, HeaderEnds
<1>3. EndOf(w) = EndOf(msg) /\ Texts(w) = Texts(msg) /\ HeadOf(w) = HeadOf(msg)
  BY <1>2, Zenon DEF SameHead
<1>4. ~Malformed(w)
  <2>1. ~TooLong(w)
    BY <1>1, LengthGrows DEF Malformed
  <2> QED BY <1>3, <2>1, Zenon DEF Malformed
<1>5. st = "kParseBody" /\ b = SubSeq(msg, EndOf(msg) + 1, Len(msg))
  BY Zenon DEF Position
<1>6. Is(AddByte(p, c), st, cur, e, n, h, Append(b, c), TRUE)
  BY <1>5, BodyByte, Zenon
<1>7. Append(b, c) = SubSeq(w, EndOf(w) + 1, Len(w))
  <2>1. EndOf(msg) \in 0 .. Len(msg) /\ Len(msg) \in Nat
    BY <1>1, EndIs
  <2>2. PICK i : i = EndOf(msg) + 1 /\ i \in 1 .. Len(msg) + 1
    BY <2>1
  <2>3. RestIs(msg, c, w, i)
    BY <1>1, <2>2, RestGrows
  <2> QED BY <1>3, <1>5, <2>2, <2>3, Zenon DEF RestIs
<1>8. Position(w, st, cur, e, Append(b, c))
  BY <1>3, <1>5, <1>7, Zenon DEF Position
<1>9. HeadersAre(w, n, h)
  BY <1>3, HeadersStay
<1> QED BY <1>4, <1>6, <1>8, <1>9

\* A byte too many for its line.
LEMMA LongTracked ==
  ASSUME NEW msg, NEW c, NEW w, NextByte(msg, c, w), EndOf(msg) = 0,
         NEW st, NEW cur, NEW e, NEW n, NEW h, NEW b,
         NEW p, Is(p, st, cur, e, n, h, b, TRUE),
         NEW o, OpenLine(msg, o, st, cur, e), Len(cur) >= kMaxHeaderLength
  PROVE  Malformed(w) /\ Is(AddByte(p, c), st, cur, e, n, h, b, FALSE)
<1>1. msg \in Seq(Bytes) /\ c \in Bytes /\ w \in Seq(Bytes) /\ Grows(msg, c, w)
  BY Zenon DEF NextByte
<1>2. /\ IsOpen(msg, o) /\ cur = SubSeq(msg, o + 1, Len(msg))
      /\ st = IF o = 0 THEN "kParseFirstLine" ELSE "kParseHeaders"
  BY Zenon DEF OpenLine
<1>3. o + 1 \in 1 .. Len(msg) + 1 /\ o \in Nat
  BY <1>1, <1>2 DEF IsOpen
<1>4. Len(cur) = Len(msg) - (o + 1) + 1
  <2>1. PICK i : i = o + 1 /\ i \in 1 .. Len(msg) + 1
    BY <1>3
  <2>2. RestIs(msg, c, w, i)
    BY <1>1, <2>1, RestGrows
  <2> QED BY <1>2, <2>1, <2>2, Zenon DEF RestIs
<1>5. Len(w) - o > kMaxHeaderLength
  BY <1>1, <1>3, <1>4, HeaderAssumption DEF Grows
<1>6. Malformed(w)
  BY <1>1, <1>2, <1>5, LengthGrows DEF Malformed
<1>7. st # "kParseBody"
  BY <1>2
<1>8. Is(AddByte(p, c), st, cur, e, n, h, b, FALSE)
  BY <1>7, LongByte, Zenon
<1> QED BY <1>6, <1>8

\* A byte of a line that is not its last.
LEMMA ByteTracked ==
  ASSUME NEW msg, NEW c, NEW w, NextByte(msg, c, w), EndOf(msg) = 0, c # "lf",
         ~Malformed(msg),
         NEW st, NEW cur, NEW e, NEW n, NEW h, NEW b, HeadersAre(msg, n, h), b = <<>>,
         NEW p, Is(p, st, cur, e, n, h, b, TRUE),
         NEW o, OpenLine(msg, o, st, cur, e), ~(Len(cur) >= kMaxHeaderLength)
  PROVE  ~Malformed(w) /\ \E d : /\ Is(AddByte(p, c), st, d, e, n, h, b, TRUE)
                                 /\ HeadersAre(w, n, h) /\ Position(w, st, d, e, b)
<1>1. msg \in Seq(Bytes) /\ c \in Bytes /\ w \in Seq(Bytes) /\ Grows(msg, c, w)
  BY Zenon DEF NextByte
<1>2. /\ IsOpen(msg, o) /\ cur = SubSeq(msg, o + 1, Len(msg))
      /\ st = IF o = 0 THEN "kParseFirstLine" ELSE "kParseHeaders"
      /\ o = 0 => e = 2
      /\ o # 0 => Lines(msg) # {}
      /\ EndsAlike(msg, e)
  BY Zenon DEF OpenLine
<1>3. o + 1 \in 1 .. Len(msg) + 1 /\ o \in Nat
  BY <1>1, <1>2 DEF IsOpen
<1>4. /\ cur \in Seq(Bytes) /\ Len(cur) = Len(msg) - (o + 1) + 1
      /\ Append(cur, c) = SubSeq(w, o + 1, Len(w))
  <2>1. PICK i : i = o + 1 /\ i \in 1 .. Len(msg) + 1
    BY <1>3
  <2>2. RestIs(msg, c, w, i)
    BY <1>1, <2>1, RestGrows
  <2> QED BY <1>2, <2>1, <2>2, Zenon DEF RestIs
<1>5. SameHead(msg, w)
  BY <1>1, <1>2, ByteDoes DEF ByteCases
<1>6. EndOf(w) = EndOf(msg) /\ Texts(w) = Texts(msg) /\ HeadOf(w) = HeadOf(msg)
  BY <1>5, Zenon DEF SameHead
<1>7. ~Malformed(w)
  <2>1. ~(Len(w) - o > kMaxHeaderLength)
    BY <1>1, <1>3, <1>4, HeaderAssumption DEF Grows
  <2>2. ~TooLong(w)
    BY <1>1, <1>2, <2>1, LengthGrows DEF Malformed
  <2> QED BY <1>6, <2>2, Zenon DEF Malformed
<1>8. Is(AddByte(p, c), st, Append(cur, c), e, n, h, b, TRUE)
  <2>1. st # "kParseBody"
    BY <1>2
  <2> QED BY <1>1, <1>4, <2>1, LineByte, Zenon
<1>9. OpenLine(w, o, st, Append(cur, c), e)
  <2>1. IsOpen(w, o)
    BY <1>1, <1>2, OpenGrows
  <2>2. Lines(w) = Lines(msg)
    BY <1>1, <1>2, LinesGrow
  <2>3. \A l \in Lines(msg) : WithCR(w, l[2]) = WithCR(msg, l[2])
    BY <1>1, LineStays DEF Stays
  <2>4. EndsAlike(w, e)
    BY <1>2, <2>2, <2>3, Zenon DEF EndsAlike
  <2> QED BY <1>2, <1>4, <2>1, <2>2, <2>4, Zenon DEF OpenLine
<1>10. Position(w, st, Append(cur, c), e, b)
  BY <1>6, <1>9, Zenon DEF Position
<1>11. HeadersAre(w, n, h)
  BY <1>6, HeadersStay
<1> QED BY <1>7, <1>8, <1>10, <1>11

\* The last line of w, how many bytes end it and its text.
LastLine(w, i, line, m, text) ==
  /\ line = SubSeq(w, i, Len(w)) /\ m = IF EndsCR(line) THEN 2 ELSE 1
  /\ text = Line(w, i, Len(w))

\* They fit.
LEMMA LastCut ==
  ASSUME NEW w \in Seq(Bytes), NEW i, IsLine(w, i, Len(w)),
         NEW line, NEW m, NEW text, LastLine(w, i, line, m, text)
  PROVE  /\ Cuts(line, m, text) /\ EndsCR(line) = WithCR(w, Len(w)) /\ line[1] = w[i]
<1>1. line = SubSeq(w, i, Len(w))
  BY Zenon DEF LastLine
<1>2. /\ Cuts(line, IF EndsCR(line) THEN 2 ELSE 1, Line(w, i, Len(w)))
      /\ EndsCR(line) = WithCR(w, Len(w)) /\ line[1] = w[i]
  BY <1>1, LineCut, Zenon
<1> QED BY <1>2, Zenon DEF LastLine

\* If the line that is ended is cut from the message as the lines before, all lines
\* end as it does.
LEMMA AllAlike ==
  ASSUME NEW msg \in Seq(Bytes), NEW w \in Seq(Bytes), Grows(msg, "lf", w), Uniform(w),
         EndOf(msg) = 0, NEW o, IsOpen(msg, o)
  PROVE  /\ Ended(w, o + 1) \in Lines(w)
         /\ \A l \in Lines(w) : WithCR(w, l[2]) = WithCR(w, Len(w))
<1>1. PICK new : new = Ended(w, o + 1) /\ new[1] = o + 1 /\ new[2] = Len(w)
  <2>1. Ended(w, o + 1)[1] = o + 1 /\ Ended(w, o + 1)[2] = Len(w)
    BY DEF Ended
  <2> QED BY <2>1, Zenon
<1>2. "lf" \in Bytes
  BY DEF Bytes
<1>3. new \in Lines(w)
  BY <1>1, <1>2, LinesGrow
<1>4. Capped(w) = Lines(w)
  BY <1>2, ByteDoes DEF ByteCases, FirstEnds, BlankEnds, HeaderEnds
<1>5. \A l \in Lines(w) : WithCR(w, l[2]) = WithCR(w, new[2])
  BY <1>3, <1>4, UniformIs, Zenon
<1> QED BY <1>1, <1>3, <1>5, Zenon

\* The lf that ends a line.
LEMMA LastTracked ==
  ASSUME NEW msg \in Seq(Bytes), NEW w \in Seq(Bytes), Grows(msg, "lf", w), Uniform(w),
         w[1] = "first", EndOf(msg) = 0, ~Malformed(msg),
         NEW st, NEW cur, NEW e, NEW n, NEW h, NEW b, HeadersAre(msg, n, h), b = <<>>,
         NEW p, Is(p, st, cur, e, n, h, b, TRUE),
         NEW o, OpenLine(msg, o, st, cur, e), ~(Len(cur) >= kMaxHeaderLength)
  PROVE  Follows(w, AddByte(p, "lf"))
<1>1. /\ IsOpen(msg, o) /\ cur = SubSeq(msg, o + 1, Len(msg))
      /\ st = IF o = 0 THEN "kParseFirstLine" ELSE "kParseHeaders"
      /\ o = 0 => e = 2
      /\ o # 0 => Lines(msg) # {}
      /\ EndsAlike(msg, e)
  BY Zenon DEF OpenLine
<1>2. "lf" \in Bytes
  BY DEF Bytes
<1>3. PICK N \in Nat : N = Len(w) /\ N = Len(msg) + 1
  BY DEF Grows
<1>4. o + 1 \in 1 .. Len(msg) + 1 /\ o \in Nat
  BY <1>1 DEF IsOpen
<1>5. PICK line : line = Append(cur, "lf")
  OBVIOUS
<1>6. /\ cur \in Seq(Bytes) /\ Len(cur) = Len(msg) - (o + 1) + 1
      /\ line = SubSeq(w, o + 1, Len(w))
  <2>1. PICK i : i = o + 1 /\ i \in 1 .. Len(msg) + 1
    BY <1>4
  <2>2. PICK c \in Bytes : c = "lf" /\ Grows(msg, c, w)
    BY <1>2, Zenon
  <2>3. RestIs(msg, c, w, i)
    BY <2>1, <2>2, RestGrows
  <2> QED BY <1>1, <1>5, <2>1, <2>2, <2>3, Zenon DEF RestIs
<1>7. IsLine(w, o + 1, Len(w))
  BY <1>1, <1>2, LineGrows
<1>8. PICK m, text : /\ m = IF EndsCR(line) THEN 2 ELSE 1
                     /\ text = Line(w, o + 1, Len(w))
  OBVIOUS
<1>9. Cuts(line, m, text) /\ EndsCR(line) = WithCR(w, Len(w)) /\ line[1] = w[o + 1]
  <2>1. PICK i : i = o + 1
    OBVIOUS
  <2>2. LastLine(w, i, line, m, text)
    BY <1>6, <1>8, <2>1, Zenon DEF LastLine
  <2>3. IsLine(w, i, Len(w))
    BY <1>7, <2>1
  <2>4. Cuts(line, m, text) /\ EndsCR(line) = WithCR(w, Len(w)) /\ line[1] = w[i]
    BY <2>2, <2>3, LastCut
  <2> QED BY <2>1, <2>4, Zenon
<1>10. /\ Ended(w, o + 1) \in Lines(w)
       /\ \A l \in Lines(w) : WithCR(w, l[2]) = WithCR(w, Len(w))
  BY <1>1, AllAlike
<1>11. EndsAlike(w, m)
  BY <1>8, <1>9, <1>10, Zenon DEF EndsAlike
<1>12. EndsCR(line) => e = 2
  <2>1. CASE o = 0
    BY <1>1, <2>1
  <2>2. CASE o # 0
    <3>1. PICK l \in Lines(msg) : TRUE
      BY <1>1, <2>2
    <3>2. l \in Lines(w)
      BY <1>1, <1>2, LinesGrow
    <3>3. WithCR(w, l[2]) = WithCR(msg, l[2])
      BY <1>2, LineStays DEF Stays
    <3> QED BY <1>1, <1>9, <1>10, <3>2, <3>3, Zenon DEF EndsAlike
  <2> QED BY <2>1, <2>2
<1>13. PICK q : AddByte(p, "lf") = FinishLine(q) /\ Is(q, st, line, m, n, h, b, TRUE)
  <2>1. st # "kParseBody"
    BY <1>1
  <2>2. PICK q, k : /\ AddByte(p, "lf") = FinishLine(q)
                    /\ Is(q, st, line, k, n, h, b, TRUE)
                    /\ k = IF EndsCR(line) THEN 2 ELSE 1
    <3>1. Ending(cur, e, line)
      BY <1>5, <1>12, Zenon DEF Ending
    <3>2. \E q : Checked(p, q, st, line, n, h, b)
      BY <1>6, <2>1, <3>1, LastByte
    <3> QED BY <3>2, Zenon DEF Checked
  <2> QED BY <1>8, <2>2, Zenon
<1>14. ~TooLong(w)
  <2>1. ~(Len(w) - o > kMaxHeaderLength)
    BY <1>3, <1>4, <1>6, HeaderAssumption
  <2> QED BY <1>1, <1>2, <2>1, LengthGrows DEF Malformed
<1>15. SubSeq(w, Len(w) + 1, Len(w)) = <<>>
  BY <1>3, SubSeqEmpty
<1>16. EndOf(w) = 0 => Position(w, "kParseHeaders", <<>>, m, b)
  <2>1. IsOpen(w, Len(w)) /\ Len(w) # 0
    <3>1. IsOpen(w, IF "lf" = "lf" THEN Len(w) ELSE o)
      BY <1>1, <1>2, OpenGrows
    <3>2. Len(w) # 0
      BY <1>3
    <3> QED BY <3>1, <3>2
  <2>2. OpenLine(w, Len(w), "kParseHeaders", <<>>, m)
    BY <1>10, <1>11, <1>15, <2>1, Zenon DEF OpenLine
  <2> QED BY <2>2, Zenon DEF Position
<1>17. ByteCases(msg, "lf", w, o)
  BY <1>1, <1>2, ByteDoes
<1>18. CASE o = 0 /\ FirstEnds(msg, w, Ended(w, o + 1))
  <2>1. /\ Texts(w) = Texts(msg) /\ HeadOf(w) = HeadOf(msg) /\ EndOf(w) = 0 /\ Texts(w) = {}
    BY <1>18, Zenon DEF FirstEnds
  <2>2. line[1] = "first" /\ st = "kParseFirstLine"
    BY <1>1, <1>9, <1>18
  <2>3. Is(q, "kParseFirstLine", line, m, n, h, b, TRUE)
    BY <1>13, <2>2, Zenon
  <2>4. Is(FinishLine(q), "kParseHeaders", <<>>, m, n, h, b, TRUE)
    BY <2>2, <2>3, FirstFinished, Zenon
  <2>5. HeadersAre(w, n, h)
    BY <2>1, HeadersStay
  <2>6. ~Malformed(w)
    BY <1>14, <2>1 DEF Malformed
  <2> QED BY <1>13, <1>16, <2>1, <2>4, <2>5, <2>6, Zenon DEF Follows
<1>19. CASE o > 0 /\ Line(w, o + 1, Len(w)) = <<>> /\ BlankEnds(msg, w)
  <2>1. /\ Texts(w) = Texts(msg) /\ HeadOf(w) = HeadOf(msg) /\ EndOf(w) = Len(w)
    BY <1>19, Zenon DEF BlankEnds
  <2>2. st = "kParseHeaders"
    BY <1>1, <1>4, <1>19
  <2>3. Len(line) = m
    <3>1. text = <<>> /\ Len(line) = Len(text) + m /\ m \in {1, 2}
      BY <1>8, <1>9, <1>19, Zenon DEF Cuts
    <3> QED BY <3>1
  <2>4. Is(q, "kParseHeaders", line, m, n, h, b, TRUE)
    BY <1>13, <2>2, Zenon
  <2>5. Is(FinishLine(q), "kParseBody", <<>>, m, n, h, b, TRUE)
    BY <2>3, <2>4, BlankFinished, Zenon
  <2>6. HeadersAre(w, n, h)
    BY <2>1, HeadersStay
  <2>7. ~Malformed(w)
    BY <1>14, <2>1 DEF Malformed
  <2>8. Position(w, "kParseBody", <<>>, m, b)
    <3>1. EndOf(w) # 0
      <4>1. Len(msg) \in Nat /\ Len(w) # 0
        BY <1>3
      <4> QED BY <2>1, <4>1
    <3> QED BY <1>15, <2>1, <3>1, Zenon DEF Position
  <2> QED BY <1>13, <2>5, <2>6, <2>7, <2>8, Zenon DEF Follows
<1>20. CASE o > 0 /\ Line(w, o + 1, Len(w)) # <<>> /\ HeaderEnds(msg, w, Ended(w, o + 1))
  <2>1. PICK new : /\ new = Ended(w, o + 1) /\ text = Line(w, new[1], new[2])
                   /\ HeaderEnds(msg, w, new)
    <3>1. Ended(w, o + 1)[1] = o + 1 /\ Ended(w, o + 1)[2] = Len(w)
      BY DEF Ended
    <3> QED BY <1>8, <1>20, <3>1, Zenon
  <2>2. EndOf(w) = 0 /\ text # <<>> /\ text \in Seq(Bytes)
    BY <1>8, <1>9, <1>20, Zenon DEF HeaderEnds, Cuts
  <2>3. st = "kParseHeaders"
    BY <1>1, <1>4, <1>20
  <2>4. Is(q, "kParseHeaders", line, m, n, h, b, TRUE)
    BY <1>13, <2>3, Zenon
  <2>5. PICK t : t[2] = text /\ Texts(w) = Texts(msg) \cup {t}
    <3>1. PICK k : k = Cardinality(HeadOf(msg)) + 1
      OBVIOUS
    <3>2. <<k, text>>[2] = text
      OBVIOUS
    <3> QED BY <2>1, <3>1, <3>2, Zenon DEF HeaderEnds
  <2>6. Malformed(w) <=> ~WellFormed(text)
    <3>1. \A u \in Texts(msg) : WellFormed(u[2])
      BY Zenon DEF Malformed
    <3> QED BY <1>14, <2>5, <3>1, Zenon DEF Malformed
  <2>7. CASE ~WellFormed(text)
    <3>1. Is(FinishLine(q), "kParseHeaders", <<>>, m, n, h, b, FALSE)
      BY <1>9, <2>2, <2>4, <2>7, HeaderFinished, Zenon
    <3>2. FinishLine(q).ok = FALSE
      BY <3>1 DEF Is, Parser
    <3> QED BY <1>13, <2>6, <2>7, <3>2, Zenon DEF Follows
  <2>8. CASE WellFormed(text)
    <3>1. PICK k, g : /\ k = IF n = -1 /\ IsLengthKey(KeyOf(text))
                             THEN ToInt(ValueOf(text)) ELSE n
                      /\ g = Append(h, <<KeyOf(text), ValueOf(text)>>)
      OBVIOUS
    <3>2. Is(FinishLine(q), "kParseHeaders", <<>>, m, k, g, b, TRUE)
      BY <1>9, <2>2, <2>4, <2>8, <3>1, HeaderFinished, Zenon
    <3>3. HeadersAre(w, k, g)
      BY <2>1, <2>2, <2>8, <3>1, HeaderTracked, Zenon
    <3> QED BY <1>13, <1>16, <2>2, <2>6, <2>8, <3>2, <3>3, Zenon DEF Follows
  <2> QED BY <2>7, <2>8
<1> QED BY <1>17, <1>18, <1>19, <1>20 DEF ByteCases, SameHead

\* Parse takes a byte unless one before was refused.
Stepped(p, c) == IF p.ok THEN AddByte(p, c) ELSE p

\* A malformed message stays so.
LEMMA StaysMalformed ==
  ASSUME NEW msg, NEW c, NEW w, NextByte(msg, c, w), NEW o, IsOpen(msg, o), Malformed(msg)
  PROVE  Malformed(w)
<1>1. msg \in Seq(Bytes) /\ c \in Bytes /\ w \in Seq(Bytes) /\ Grows(msg, c, w)
  BY Zenon DEF NextByte
<1>2. Texts(msg) \subseteq Texts(w)
  <2>1. ByteCases(msg, c, w, o)
    BY <1>1, ByteDoes
  <2> QED BY <2>1, Zenon DEF ByteCases, SameHead, FirstEnds, BlankEnds, HeaderEnds
<1>3. TooLong(msg) => TooLong(w)
  BY <1>1, LengthGrows
<1> QED BY <1>2, <1>3, Zenon DEF Malformed

\* A byte of a message that is well-formed before it.
LEMMA StepFollows ==
  ASSUME NEW msg, NEW c, NEW w, NextByte(msg, c, w), w[1] = "first", Uniform(w),
         NEW p, Follows(msg, p)
  PROVE  Follows(w, Stepped(p, c))
<1>1. msg \in Seq(Bytes) /\ c \in Bytes /\ w \in Seq(Bytes) /\ Grows(msg, c, w)
  BY Zenon DEF NextByte
<1>2. PICK o : IsOpen(msg, o)
  BY <1>1, OpenExists
<1>3. CASE Malformed(msg)
  <2>1. p.ok = FALSE
    BY <1>3, Zenon DEF Follows
  <2>2. Stepped(p, c) = p
    BY <2>1 DEF Stepped
  <2>3. Malformed(w)
    BY <1>2, <1>3, StaysMalformed
  <2> QED BY <2>1, <2>2, <2>3, Zenon DEF Follows
<1>4. CASE ~Malformed(msg)
  <2>1. PICK st, cur, e, n, h, b : /\ Is(p, st, cur, e, n, h, b, TRUE)
                                   /\ HeadersAre(msg, n, h)
                                   /\ Position(msg, st, cur, e, b)
    BY <1>4, Zenon DEF Follows
  <2>2. Stepped(p, c) = AddByte(p, c)
    <3>1. p.ok = TRUE
      BY <2>1 DEF Is, Parser
    <3> QED BY <3>1 DEF Stepped
  <2>3. CASE EndOf(msg) # 0
    <3>1. ~Malformed(w) /\ \E d : /\ Is(AddByte(p, c), st, cur, e, n, h, d, TRUE)
                                  /\ HeadersAre(w, n, h) /\ Position(w, st, cur, e, d)
      BY <1>2, <1>4, <2>1, <2>3, BodyTracked
    <3> QED BY <2>2, <3>1, Zenon DEF Follows
  <2>4. CASE EndOf(msg) = 0
    <3>1. PICK a : b = <<>> /\ OpenLine(msg, a, st, cur, e)
      BY <2>1, <2>4, Zenon DEF Position
    <3>2. CASE Len(cur) >= kMaxHeaderLength
      <4>1. Malformed(w) /\ Is(AddByte(p, c), st, cur, e, n, h, b, FALSE)
        BY <2>1, <2>4, <3>1, <3>2, LongTracked
      <4>2. AddByte(p, c).ok = FALSE
        BY <4>1 DEF Is, Parser
      <4> QED BY <2>2, <4>1, <4>2, Zenon DEF Follows
    <3>3. CASE ~(Len(cur) >= kMaxHeaderLength) /\ c # "lf"
      <4>1. ~Malformed(w) /\ \E d : /\ Is(AddByte(p, c), st, d, e, n, h, b, TRUE)
                                    /\ HeadersAre(w, n, h) /\ Position(w, st, d, e, b)
        BY <1>4, <2>1, <2>4, <3>1, <3>3, ByteTracked
      <4> QED BY <2>2, <4>1, Zenon DEF Follows
    <3>4. CASE ~(Len(cur) >= kMaxHeaderLength) /\ c = "lf"
      <4>1. Grows(msg, "lf", w)
        BY <1>1, <3>4
      <4>2. Follows(w, AddByte(p, "lf"))
        BY <1>1, <1>4, <2>1, <2>4, <3>1, <3>4, <4>1, LastTracked
      <4> QED BY <2>2, <3>4, <4>2, Zenon
    <3> QED BY <3>2, <3>3, <3>4
  <2> QED BY <2>3, <2>4
<1> QED BY <1>3, <1>4

\* A byte of any message.
LEMMA StepTracks ==
  ASSUME NEW msg, NEW c, NEW w, NextByte(msg, c, w), w[1] = "first",
         NEW p, Tracks(msg, p)
  PROVE  Tracks(w, Stepped(p, c))
<1>1. msg \in Seq(Bytes) /\ c \in Bytes /\ w \in Seq(Bytes) /\ Grows(msg, c, w)
  BY Zenon DEF NextByte
<1>2. PICK o : IsOpen(msg, o)
  BY <1>1, OpenExists
<1>3. ASSUME Uniform(w) PROVE Follows(w, Stepped(p, c))
  <2>1. Uniform(msg)
    BY <1>1, <1>2, <1>3, UniformBack
  <2>2. Follows(msg, p)
    BY <2>1, Zenon DEF Tracks
  <2> QED BY <1>3, <2>2, StepFollows
<1> QED BY <1>3, Zenon DEF Tracks

\* One level of the loop of Parse, after i bytes.
Level(p, msg, f, i) ==
  IF i = 0 THEN {p} ELSE {Stepped(q, msg[i]) : q \in f[i - 1]}

\* It depends on the level before only.
LEMMA LevelBefore ==
  ASSUME NEW p, NEW msg, NEW f, NEW g, NEW i \in Nat, i # 0 => f[i - 1] = g[i - 1]
  PROVE  Level(p, msg, f, i) = Level(p, msg, g, i)
BY Zenon DEF Level

\* So all levels exist.
LEMMA LevelsExist ==
  ASSUME NEW p, NEW msg, NEW n \in Nat
  PROVE  \E g : \A i \in 0..n : g[i] = Level(p, msg, g, i)
<1> DEFINE Good(k, g) == \A i \in 0..k : g[i] = Level(p, msg, g, i)
           S == {k \in 0..n : \E g : Good(k, g)}
<1>1. 0 \in S
  <2> DEFINE g == [i \in {0} |-> {p}]
  <2>1. ASSUME NEW i \in 0..0
        PROVE  g[i] = Level(p, msg, g, i)
    <3>1. i = 0 /\ g[i] = {p}
      OBVIOUS
    <3> HIDE DEF g
    <3> QED BY <3>1 DEF Level
  <2> HIDE DEF g
  <2>2. 0 \in 0..n
    OBVIOUS
  <2> QED BY <2>1, <2>2, Zenon
<1>2. ASSUME NEW m \in 1..n, m - 1 \in S
      PROVE  m \in S
  <2>1. PICK g : Good(m - 1, g)
    <3> HIDE DEF Good
    <3> QED BY <1>2, Zenon
  <2> DEFINE h == [i \in 0..m |-> IF i = m THEN Level(p, msg, g, m) ELSE g[i]]
  <2>2. /\ \A i \in 0..(m - 1) : h[i] = g[i]
        /\ h[m] = Level(p, msg, g, m)
    OBVIOUS
  <2> HIDE DEF h
  <2>3. ASSUME NEW i \in 0..m
        PROVE  h[i] = Level(p, msg, h, i)
    <3>1. i \in Nat /\ (i # 0 => i - 1 \in 0..(m - 1))
      OBVIOUS
    <3>2. i # 0 => h[i - 1] = g[i - 1]
      BY <2>2, <3>1, Zenon
    <3>3. Level(p, msg, h, i) = Level(p, msg, g, i)
      BY <3>1, <3>2, LevelBefore
    <3>4. CASE i = m
      BY <2>2, <3>3, <3>4
    <3>5. CASE i # m
      <4>1. i \in 0..(m - 1)
        BY <3>5
      <4> QED BY <2>1, <2>2, <3>3, <4>1, Zenon
    <3> QED BY <3>4, <3>5
  <2>4. m \in 0..n
    OBVIOUS
  <2> QED BY <2>3, <2>4, Zenon
<1> HIDE DEF S
<1>3. n \in S
  <2>1. n \in 0..n
    OBVIOUS
  <2> QED BY <1>1, <1>2, <2>1, UpTo
<1> QED BY <1>3, Zenon DEF S

\* Parse chooses from the last of them.
LEMMA ParseLevels ==
  ASSUME NEW p, NEW msg, NEW n \in Nat, n = Len(msg)
  PROVE  \E f : /\ \A i \in 0..n : f[i] = Level(p, msg, f, i)
                /\ Parse(p, msg) = CHOOSE q \in f[n] : TRUE
<1> DEFINE F(f) == [i \in 0 .. Len(msg) |-> Level(p, msg, f, i)]
           After == CHOOSE f : f = F(f)
<1>1. PICK g : \A i \in 0..n : g[i] = Level(p, msg, g, i)
  BY LevelsExist
<1> DEFINE f == [i \in 0..n |-> g[i]]
<1>2. f = F(f)
  <2>1. ASSUME NEW i \in 0..n
        PROVE  f[i] = Level(p, msg, f, i)
    <3>1. i \in Nat /\ (i # 0 => f[i - 1] = g[i - 1]) /\ f[i] = g[i]
      OBVIOUS
    <3> HIDE DEF f
    <3> QED BY <1>1, <3>1, LevelBefore
  <2>2. f = [i \in 0..n |-> f[i]]
    OBVIOUS
  <2> HIDE DEF f
  <2> QED BY <2>1, <2>2
<1> HIDE DEF f
<1>3. After = F(After)
  <2> HIDE DEF F
  <2> QED BY <1>2
<1>4. Parse(p, msg) = CHOOSE q \in After[Len(msg)] : TRUE
  BY Zenon DEF Parse, Level, Stepped
<1> HIDE DEF After
<1>5. \A i \in 0..n : After[i] = Level(p, msg, After, i)
  BY <1>3
<1> QED BY <1>4, <1>5

\* What Parse does to a parser, one byte after the other.
Runs(f, p, msg, n) == f[0] = p /\ \A i \in 1..n : f[i] = Stepped(f[i - 1], msg[i])

\* It is the last of these.
LEMMA ParseRuns ==
  ASSUME NEW p, NEW msg, NEW n \in Nat, n = Len(msg)
  PROVE  \E f : Runs(f, p, msg, n) /\ Parse(p, msg) = f[n]
<1>1. PICK f : /\ \A i \in 0..n : f[i] = Level(p, msg, f, i)
               /\ Parse(p, msg) = CHOOSE q \in f[n] : TRUE
  BY ParseLevels
<1> DEFINE S == {i \in 0..n : \E q : f[i] = {q}}
<1>2. f[0] = {p}
  <2>1. 0 \in 0..n
    OBVIOUS
  <2>2. Level(p, msg, f, 0) = {p}
    BY Zenon DEF Level
  <2> QED BY <1>1, <2>1, <2>2, Zenon
<1>3. ASSUME NEW i \in 1..n, NEW q, f[i - 1] = {q}
      PROVE  f[i] = {Stepped(q, msg[i])}
  <2>1. i \in 0..n /\ i # 0
    OBVIOUS
  <2>2. f[i] = {Stepped(r, msg[i]) : r \in f[i - 1]}
    BY <1>1, <2>1, Zenon DEF Level
  <2> QED BY <1>3, <2>2, Zenon
<1>4. \A i \in 0..n : i \in S
  <2>1. 0 \in S
    <3>1. 0 \in 0..n
      OBVIOUS
    <3> QED BY <1>2, <3>1, Zenon
  <2>2. ASSUME NEW i \in 1..n, i - 1 \in S
        PROVE  i \in S
    <3>1. i \in 0..n
      OBVIOUS
    <3>2. PICK q : f[i - 1] = {q}
      BY <2>2, Zenon
    <3>3. f[i] = {Stepped(q, msg[i])}
      BY <1>3, <3>2, Zenon
    <3> QED BY <3>1, <3>3, Zenon
  <2> HIDE DEF S
  <2> QED BY <2>1, <2>2, UpTo
<1> DEFINE g == [i \in 0..n |-> CHOOSE q \in f[i] : TRUE]
<1>5. ASSUME NEW i \in 0..n
      PROVE  f[i] = {g[i]}
  <2>1. g[i] = CHOOSE q \in f[i] : TRUE
    OBVIOUS
  <2>2. PICK q : f[i] = {q}
    BY <1>4
  <2>3. (CHOOSE r \in f[i] : TRUE) \in f[i]
    BY <2>2
  <2> HIDE DEF g
  <2> QED BY <2>1, <2>2, <2>3
<1>6. g[n] = Parse(p, msg)
  BY <1>1
<1> HIDE DEF g
<1>7. Runs(g, p, msg, n)
  <2>1. g[0] = p
    <3>1. 0 \in 0..n
      OBVIOUS
    <3> QED BY <1>2, <1>5, <3>1
  <2>2. ASSUME NEW i \in 1..n
        PROVE  g[i] = Stepped(g[i - 1], msg[i])
    <3>1. i \in 0..n /\ i - 1 \in 0..n
      OBVIOUS
    <3>2. f[i] = {g[i]} /\ f[i - 1] = {g[i - 1]}
      BY <1>5, <3>1, Zenon
    <3>3. f[i] = {Stepped(g[i - 1], msg[i])}
      BY <1>3, <3>2, Zenon
    <3> QED BY <3>2, <3>3
  <2> QED BY <2>1, <2>2 DEF Runs
<1> QED BY <1>6, <1>7

\* The first k bytes of a message.
IsStart(w, k, v) == v \in Seq(Bytes) /\ Len(v) = k /\ \A i \in 1..k : v[i] = w[i]

\* They are what SubSeq takes.
LEMMA StartIs ==
  ASSUME NEW w \in Seq(Bytes), NEW k \in 0 .. Len(w)
  PROVE  IsStart(w, k, SubSeq(w, 1, k))
<1>1. PICK v : v = SubSeq(w, 1, k)
  OBVIOUS
<1>2. 1 \in 1 .. Len(w) + 1
  OBVIOUS
<1>3. Piece(w, 1, k, v)
  BY <1>1, <1>2, PieceIs
<1>4. /\ v \in Seq(Bytes) /\ Len(v) = IF 1 <= k THEN k - 1 + 1 ELSE 0
      /\ \A i \in 1 .. (k - 1 + 1) : v[i] = w[1 + i - 1]
  BY <1>3, Zenon DEF Piece
<1>5. Len(v) = k /\ \A i \in 1..k : v[i] = w[i]
  BY <1>4
<1> QED BY <1>1, <1>4, <1>5 DEF IsStart

\* The next byte makes the next of them.
LEMMA StartNext ==
  ASSUME NEW w \in Seq(Bytes), NEW k \in 1 .. Len(w), NEW v, NEW u,
         IsStart(w, k - 1, v), IsStart(w, k, u)
  PROVE  NextByte(v, w[k], u)
<1>1. /\ v \in Seq(Bytes) /\ Len(v) = k - 1 /\ \A i \in 1..(k - 1) : v[i] = w[i]
      /\ u \in Seq(Bytes) /\ Len(u) = k /\ \A i \in 1..k : u[i] = w[i]
  BY Zenon DEF IsStart
<1>2. Len(u) = Len(v) + 1 /\ Len(v) + 1 = k /\ u[k] = w[k] /\ w[k] \in Bytes
  BY <1>1
<1>3. \A i \in 1 .. Len(v) : u[i] = v[i]
  BY <1>1
<1> QED BY <1>1, <1>2, <1>3, Zenon DEF NextByte, Grows

\* Two such strings are equal.
LEMMA StartOnce ==
  ASSUME NEW w, NEW k, NEW v, NEW u, IsStart(w, k, v), IsStart(w, k, u)
  PROVE  v = u
<1>1. /\ v \in Seq(Bytes) /\ u \in Seq(Bytes) /\ Len(v) = Len(u) /\ Len(v) = k
  BY Zenon DEF IsStart
<1>2. \A i \in 1 .. Len(v) : v[i] = u[i]
  BY Zenon, <1>1 DEF IsStart
<1> QED BY <1>1, <1>2, SeqEqual

\* The parser follows the message in whatever pieces it comes.
LEMMA ParseTracks ==
  ASSUME NEW msg \in Seq(Bytes), NEW piece \in Seq(Bytes), (msg \o piece)[1] = "first",
         NEW p, Tracks(msg, p)
  PROVE  Tracks(msg \o piece, Parse(p, piece))
<1>1. PICK m \in Nat, n \in Nat : m = Len(msg) /\ n = Len(piece)
  OBVIOUS
<1>2. PICK w \in Seq(Bytes) : /\ w = msg \o piece /\ Len(w) = m + n
                              /\ \A k \in 1..m : w[k] = msg[k]
                              /\ \A k \in 1..n : w[m + k] = piece[k]
  <2>1. msg \o piece \in Seq(Bytes) /\ Then(msg, piece, msg \o piece)
    BY ThenIs
  <2>2. PICK w \in Seq(Bytes) : w = msg \o piece /\ Then(msg, piece, w)
    BY <2>1, Zenon
  <2> QED BY <1>1, <2>2, Zenon DEF Then
<1>3. PICK f : Runs(f, p, piece, n) /\ Parse(p, piece) = f[n]
  BY <1>1, ParseRuns
<1> DEFINE V(i) == SubSeq(w, 1, m + i)
           S == {i \in 0..n : Tracks(V(i), f[i])}
<1>4. \A i \in 0..n : IsStart(w, m + i, V(i))
  <2>1. ASSUME NEW i \in 0..n
        PROVE  IsStart(w, m + i, V(i))
    <3>1. m + i \in 0 .. Len(w)
      BY <1>1, <1>2
    <3> QED BY <3>1, StartIs
  <2> QED BY <2>1, Zenon
<1>5. V(0) = msg
  <2>1. IsStart(w, m + 0, msg)
    BY <1>1, <1>2 DEF IsStart
  <2>2. 0 \in 0..n
    OBVIOUS
  <2> HIDE DEF V
  <2> QED BY <1>4, <2>1, <2>2, StartOnce
<1>6. V(n) = w
  <2>1. IsStart(w, m + n, w)
    BY <1>1, <1>2 DEF IsStart
  <2>2. n \in 0..n
    OBVIOUS
  <2> HIDE DEF V
  <2> QED BY <1>4, <2>1, <2>2, StartOnce
<1> HIDE DEF V
<1>7. 0 \in S
  <2>1. 0 \in 0..n /\ f[0] = p
    BY <1>3 DEF Runs
  <2> QED BY <1>5, <2>1, Zenon
<1>8. ASSUME NEW i \in 1..n, i - 1 \in S
      PROVE  i \in S
  <2>1. /\ i \in 0..n /\ i - 1 \in 0..n /\ m + i \in 1 .. Len(w) /\ m + (i - 1) = m + i - 1
        /\ 1 \in 1..(m + i)
    BY <1>1, <1>2
  <2>2. f[i] = Stepped(f[i - 1], piece[i]) /\ w[m + i] = piece[i]
    BY <1>2, <1>3, Zenon DEF Runs
  <2>3. PICK k, v, u : /\ k = m + i /\ v = V(i - 1) /\ u = V(i)
                       /\ IsStart(w, k - 1, v) /\ IsStart(w, k, u)
    <3>1. PICK k : k = m + i
      OBVIOUS
    <3>2. PICK v, u : v = V(i - 1) /\ u = V(i)
      OBVIOUS
    <3>3. IsStart(w, m + (i - 1), v) /\ IsStart(w, k, u)
      BY <1>4, <2>1, <3>1, <3>2, Zenon
    <3>4. IsStart(w, k - 1, v)
      BY <2>1, <3>1, <3>3
    <3> QED BY <3>1, <3>2, <3>3, <3>4, Zenon
  <2>4. NextByte(v, w[k], u)
    BY <2>1, <2>3, StartNext
  <2>5. u[1] = "first"
    <3>1. u[1] = w[1]
      BY <2>1, <2>3, Zenon DEF IsStart
    <3> QED BY <1>2, <3>1, Zenon
  <2>6. Tracks(v, f[i - 1])
    BY <1>8, <2>3, Zenon
  <2>7. Tracks(u, Stepped(f[i - 1], w[k]))
    BY <2>4, <2>5, <2>6, StepTracks
  <2> QED BY <2>1, <2>2, <2>3, <2>7, Zenon
<1> HIDE DEF S
<1>9. n \in S
  <2>1. n \in 0..n
    OBVIOUS
  <2> QED BY <1>7, <1>8, <2>1, UpTo
<1> QED BY <1>2, <1>3, <1>6, <1>9, Zenon DEF S

\* The content-lengths of the reference, and the first of them.
LengthsOf(msg) == {t \in Texts(msg) : IsLengthKey(KeyOf(t[2]))}
FirstLength(msg) == CHOOSE t \in LengthsOf(msg) : \A u \in LengthsOf(msg) : t[1] <= u[1]
LengthIn(msg) == IF LengthsOf(msg) = {} THEN -1 ELSE ToInt(ValueOf(FirstLength(msg)[2]))

\* The property of the run, with these names.
LEMMA FollowsLinesIs ==
  ASSUME NEW msg, NEW p
  PROVE  FollowsLines(msg, p) <=>
           (Uniform(msg) =>
              IF Malformed(msg) \/ msg[1] # "first"
              THEN ~p.ok
              ELSE /\ p.ok /\ Graph(p.headers) = PairsOf(msg)
                   /\ RecievedAllHeaders(p) <=> EndOf(msg) # 0
                   /\ EndOf(msg) # 0 => p.body = SubSeq(msg, EndOf(msg) + 1, Len(msg))
                   /\ p.content_length_ = LengthIn(msg))
BY Zenon DEF FollowsLines, Malformed, TooLong, EndOf, OpenAt, Texts, TextOf, HeadOf,
             Graph, PairsOf, LengthIn, FirstLength, LengthsOf, IsLengthKey

\* A header of the parser is that of a line.
LEMMA HeaderOf ==
  ASSUME NEW msg, NEW h, Len(h) \in Nat, Graph(h) = PairsOf(msg)
  PROVE  /\ \A i \in 1 .. Len(h) : \E t \in Texts(msg) :
              t[1] = i /\ h[i] = <<KeyOf(t[2]), ValueOf(t[2])>>
         /\ \A t \in Texts(msg) :
              t[1] \in 1 .. Len(h) /\ h[t[1]] = <<KeyOf(t[2]), ValueOf(t[2])>>
<1>1. ASSUME NEW i \in 1 .. Len(h)
      PROVE  \E t \in Texts(msg) : t[1] = i /\ h[i] = <<KeyOf(t[2]), ValueOf(t[2])>>
  <2>1. <<i, h[i]>> \in PairsOf(msg)
    BY Zenon DEF Graph
  <2>2. PICK t \in Texts(msg) : <<i, h[i]>> = <<t[1], <<KeyOf(t[2]), ValueOf(t[2])>>>>
    BY <2>1, Zenon DEF PairsOf
  <2> QED BY <2>2
<1>2. ASSUME NEW t \in Texts(msg)
      PROVE  t[1] \in 1 .. Len(h) /\ h[t[1]] = <<KeyOf(t[2]), ValueOf(t[2])>>
  <2>1. <<t[1], <<KeyOf(t[2]), ValueOf(t[2])>>>> \in Graph(h)
    BY Zenon DEF PairsOf
  <2>2. PICK i \in 1 .. Len(h) : <<t[1], <<KeyOf(t[2]), ValueOf(t[2])>>>> = <<i, h[i]>>
    BY <2>1, Zenon DEF Graph
  <2> QED BY <2>2
<1> QED BY <1>1, <1>2

\* The content-length of the parser is the first of the reference.
LEMMA LengthIs ==
  ASSUME NEW msg, NEW n, NEW h, HeadersAre(msg, n, h)
  PROVE  n = LengthIn(msg)
<1>1. h \in Seq(Seq(Bytes) \X Seq(Bytes)) /\ Counts(h, n) /\ Graph(h) = PairsOf(msg)
  BY Zenon DEF HeadersAre
<1>2. PICK N \in Nat : N = Len(h)
  BY <1>1
<1>3. /\ \A i \in 1..N : \E t \in Texts(msg) :
           t[1] = i /\ h[i] = <<KeyOf(t[2]), ValueOf(t[2])>>
      /\ \A t \in Texts(msg) : t[1] \in 1..N /\ h[t[1]] = <<KeyOf(t[2]), ValueOf(t[2])>>
  BY <1>1, <1>2, HeaderOf
<1>4. \A t \in Texts(msg) : /\ h[t[1]][1] = KeyOf(t[2]) /\ h[t[1]][2] = ValueOf(t[2])
                            /\ t[1] \in 1..N
  <2>1. ASSUME NEW t \in Texts(msg)
        PROVE  h[t[1]][1] = KeyOf(t[2]) /\ h[t[1]][2] = ValueOf(t[2])
    <3>1. PICK x, y : x = KeyOf(t[2]) /\ y = ValueOf(t[2])
      OBVIOUS
    <3>2. h[t[1]] = <<x, y>>
      BY <1>3, <3>1
    <3>3. h[t[1]][1] = x /\ h[t[1]][2] = y
      BY <3>2
    <3> QED BY <3>1, <3>3, Zenon
  <2> QED BY <1>3, <2>1, Zenon
<1>5. \A t \in LengthsOf(msg) : t \in Texts(msg) /\ IsLengthKey(h[t[1]][1])
  BY <1>4, Zenon DEF LengthsOf
<1>6. CASE n = -1 /\ \A i \in 1..N : ~IsLengthKey(h[i][1])
  <2>1. LengthsOf(msg) = {}
    BY <1>4, <1>5, <1>6, Zenon
  <2> QED BY <1>6, <2>1, Zenon DEF LengthIn
<1>7. CASE \E i \in 1..N : /\ IsLengthKey(h[i][1]) /\ n = ToInt(h[i][2])
                           /\ \A k \in 1 .. (i - 1) : ~IsLengthKey(h[k][1])
  <2>1. PICK i \in 1..N : /\ IsLengthKey(h[i][1]) /\ n = ToInt(h[i][2])
                          /\ \A k \in 1 .. (i - 1) : ~IsLengthKey(h[k][1])
    BY <1>7
  <2>2. PICK t \in Texts(msg) : t[1] = i
    BY <1>3
  <2>3. t \in LengthsOf(msg)
    BY <1>4, <2>1, <2>2, Zenon DEF LengthsOf
  <2>4. ASSUME NEW u \in LengthsOf(msg)
        PROVE  u[1] \in 1..N /\ t[1] <= u[1]
    <3>1. PICK k \in 1..N : k = u[1] /\ IsLengthKey(h[k][1])
      BY <1>4, <1>5, Zenon
    <3>2. ~(k \in 1 .. (i - 1))
      BY <2>1, <3>1, Zenon
    <3> QED BY <2>2, <3>1, <3>2
  <2>5. PICK a : /\ a = FirstLength(msg) /\ a \in LengthsOf(msg)
                 /\ \A u \in LengthsOf(msg) : a[1] <= u[1]
    BY <2>3, <2>4, Zenon DEF FirstLength
  <2>6. a[1] = i
    BY <2>2, <2>3, <2>4, <2>5
  <2>7. h[i][2] = ValueOf(a[2])
    BY <1>4, <1>5, <2>5, <2>6, Zenon
  <2> QED BY <2>1, <2>3, <2>5, <2>7, Zenon DEF LengthIn
<1> QED BY <1>1, <1>2, <1>6, <1>7, Zenon DEF Counts

\* A parser that follows a message satisfies the reference.
LEMMA TracksFollows ==
  ASSUME NEW msg, msg[1] = "first", NEW p, Tracks(msg, p)
  PROVE  FollowsLines(msg, p)
<1>1. CASE ~Uniform(msg)
  BY <1>1, FollowsLinesIs
<1>2. CASE Malformed(msg) /\ p.ok = FALSE
  BY <1>2, FollowsLinesIs
<1>3. CASE Uniform(msg) /\ ~Malformed(msg)
  <2>1. PICK st, cur, e, n, h, b : /\ Is(p, st, cur, e, n, h, b, TRUE)
                                   /\ HeadersAre(msg, n, h)
                                   /\ Position(msg, st, cur, e, b)
    BY <1>3, Zenon DEF Tracks, Follows
  <2>2. /\ p.ok = TRUE /\ p.headers = h /\ p.body = b /\ p.content_length_ = n
        /\ p.parse_state_ = st
    BY <2>1 DEF Is, Parser
  <2>3. n = LengthIn(msg)
    BY <2>1, LengthIs
  <2>4. Graph(h) = PairsOf(msg)
    BY <2>1, Zenon DEF HeadersAre
  <2>5. st = "kParseBody" <=> EndOf(msg) # 0
    <3>1. CASE EndOf(msg) # 0
      BY <2>1, <3>1, Zenon DEF Position
    <3>2. CASE EndOf(msg) = 0
      <4>1. PICK o : OpenLine(msg, o, st, cur, e)
        BY <2>1, <3>2, Zenon DEF Position
      <4>2. st = IF o = 0 THEN "kParseFirstLine" ELSE "kParseHeaders"
        BY <4>1, Zenon DEF OpenLine
      <4> QED BY <3>2, <4>2
    <3> QED BY <3>1, <3>2
  <2>6. EndOf(msg) # 0 => b = SubSeq(msg, EndOf(msg) + 1, Len(msg))
    BY <2>1, Zenon DEF Position
  <2> QED BY <1>3, <2>2, <2>3, <2>4, <2>5, <2>6, FollowsLinesIs, Zenon DEF RecievedAllHeaders
<1> QED BY <1>1, <1>2, <1>3, Zenon DEF Tracks, Follows

\* Nothing is read yet.
LEMMA NewTracks == Tracks(<<>>, NewParser)
<1>1. PICK msg \in Seq(Bytes) : msg = <<>> /\ Len(msg) = 0
  BY EmptySeq, Zenon
<1>2. Lines(msg) = {}
  <2>1. ASSUME NEW l \in Lines(msg) PROVE FALSE
    <3>1. IsLine(msg, l[1], l[2])
      BY <2>1, LinesAre
    <3> QED BY <1>1, <3>1 DEF IsLine
  <2> QED BY <2>1, Zenon
<1>3. Blank(msg) = {} /\ Header(msg) = {}
  BY <1>2, Zenon DEF Blank, Header
<1>4. EndOf(msg) = 0 /\ HeadOf(msg) = {} /\ Texts(msg) = {}
  BY <1>3, Zenon DEF EndOf, HeadOf, Texts
<1>5. IsOpen(msg, 0)
  BY <1>1 DEF IsOpen
<1>6. ~Malformed(msg)
  <2>1. OpenAt(msg) = 0
    BY <1>5, OpenIs
  <2>2. ~(Len(msg) - OpenAt(msg) > kMaxHeaderLength)
    BY <1>1, <2>1, HeaderAssumption
  <2> QED BY <1>2, <1>4, <2>2, Zenon DEF Malformed, TooLong
<1>7. HeadersAre(msg, -1, <<>>)
  <2>1. PICK h \in Seq(Seq(Bytes) \X Seq(Bytes)) : h = <<>> /\ Len(h) = 0
    BY EmptySeq, Zenon
  <2>2. 1 .. Len(h) = {}
    BY <2>1
  <2>3. Graph(h) = {} /\ PairsOf(msg) = {}
    BY <1>4, <2>2, Zenon DEF Graph, PairsOf
  <2>4. Counts(h, -1)
    BY <2>2, Zenon DEF Counts
  <2>5. Cardinality(HeadOf(msg)) = 0
    BY <1>4, FS_EmptySet
  <2>6. HeadersAre(msg, -1, h)
    BY <2>1, <2>3, <2>4, <2>5, Zenon DEF HeadersAre
  <2> QED BY <2>1, <2>6, Zenon
<1>8. Position(msg, "kParseFirstLine", <<>>, 2, <<>>)
  <2>1. SubSeq(msg, 0 + 1, Len(msg)) = <<>>
    BY <1>1, SubSeqEmpty
  <2>2. EndsAlike(msg, 2)
    BY <1>2, Zenon DEF EndsAlike
  <2>3. OpenLine(msg, 0, "kParseFirstLine", <<>>, 2)
    BY <1>5, <2>1, <2>2, Zenon DEF OpenLine
  <2> QED BY <1>4, <2>3, Zenon DEF Position
<1>9. Is(NewParser, "kParseFirstLine", <<>>, 2, -1, <<>>, <<>>, TRUE)
  BY DEF Is, Parser, NewParser
<1>10. Tracks(msg, NewParser)
  BY <1>6, <1>7, <1>8, <1>9, Zenon DEF Tracks, Follows
<1> QED BY <1>1, <1>10, Zenon

(***************************************************************************)
(* HTTPParser takes apart every message that begins with a well-formed     *)
(* first line the way FollowsLines says: HTTPParser::Parse and AddByte     *)
(* refuse it just when a line up to the body is malformed or too long, and *)
(* otherwise have its headers, its content-length and its body.            *)
(***************************************************************************)
THEOREM ParsesAsRead ==
  ASSUME NEW msg \in Seq(Bytes), msg # <<>>, msg[1] = "first"
  PROVE  FollowsLines(msg, Parse(NewParser, msg))
<1>1. PICK e \in Seq(Bytes) : e = <<>>
  BY EmptySeq, Zenon
<1>2. e \o msg = msg
  BY <1>1
<1>3. Tracks(e, NewParser)
  BY <1>1, NewTracks
<1>4. (e \o msg)[1] = "first"
  BY <1>2, Zenon
<1>5. Tracks(e \o msg, Parse(NewParser, msg))
  BY <1>3, <1>4, ParseTracks
<1>6. Tracks(msg, Parse(NewParser, msg))
  BY <1>2, <1>5, Zenon
<1> QED BY <1>6, TracksFollows

-----------------------------------------------------------------------------
(* The strings of the run *)

\* The text of a URI is a string.
UriBytes == kind \in {"http", "uri", "time"} /\ (kind = "uri" => input \in Seq(Byte))

\* AddPiece keeps it one.
LEMMA UriBytesHold == Spec => []UriBytes
<1>1. Init => UriBytes
  <2>1. <<97, 58>> \in Seq(Byte)
    BY DEF Byte
  <2> QED BY <2>1, Zenon DEF Init, UriBytes
<1>2. UriBytes /\ [Next]_<<kind, input, pieces, parser>> => UriBytes'
  <2> SUFFICES ASSUME UriBytes, [Next]_<<kind, input, pieces, parser>> PROVE UriBytes'
    OBVIOUS
  <2>1. ASSUME AddPiece, kind = "uri"
        PROVE  UriBytes'
    <3>1. PICK piece \in Pieces : input' = input \o piece
      BY <2>1 DEF AddPiece
    <3>2. piece \in Seq(Byte)
      <4>1. kind # "http"
        BY <2>1
      <4>2. \/ piece = <<97>> \/ piece = <<47>> \/ piece = <<63>> \/ piece = <<35>>
            \/ piece = <<38>> \/ piece = <<61>> \/ piece = <<200>>
            \/ piece = <<37, 50, 54>>
        BY <3>1, <4>1, Zenon DEF Pieces
      <4>3. CASE piece = <<37, 50, 54>>
        BY <4>3 DEF Byte
      <4>4. CASE \E b \in Byte : piece = <<b>>
        BY <4>4
      <4> QED BY <4>2, <4>3, <4>4 DEF Byte
    <3>3. input \in Seq(Byte) /\ kind' = "uri"
      BY <2>1 DEF UriBytes, AddPiece
    <3>4. input \o piece \in Seq(Byte)
      BY <3>2, <3>3
    <3> QED BY <3>1, <3>3, <3>4 DEF UriBytes
  <2>2. CASE kind' = kind /\ kind # "uri"
    BY <2>2 DEF UriBytes
  <2>3. CASE UNCHANGED <<kind, input, pieces, parser>>
    BY <2>3 DEF UriBytes
  <2> QED BY <2>1, <2>2, <2>3 DEF Next, AddPiece, Tick
<1> QED BY <1>1, <1>2, PTL DEF Spec

(***************************************************************************)
(* The strings that the run of MCPure puts together, of any number of      *)
(* pieces, come back from PercentEncode and PercentDecode.                 *)
(***************************************************************************)
THEOREM DecodeInverts == Spec => []DecodeInvertsEncode
<1>1. UriBytes => DecodeInvertsEncode
  BY DecodingUndoesEncoding DEF UriBytes, DecodeInvertsEncode
<1> QED BY <1>1, UriBytesHold, PTL

(***************************************************************************)
(* So do the URIs that URI::Parse makes of them, through ToString and      *)
(* Parse.                                                                  *)
(***************************************************************************)
THEOREM URIsSurvive == Spec => []URISurvives
<1>1. UriBytes => URISurvives
  BY ParsedSurvives DEF UriBytes, URISurvives
<1> QED BY <1>1, UriBytesHold, PTL

-----------------------------------------------------------------------------
(* The messages of the run *)

\* The parser of the run has taken apart the message so far.
ParserTracks == kind = "http" => /\ input \in Seq(Bytes) /\ input # <<>> /\ input[1] = "first"
                                 /\ Tracks(input, parser)

\* It stays so with every piece.
LEMMA ParserTracksHold == Spec => []ParserTracks
<1>1. Init => ParserTracks
  <2> SUFFICES ASSUME Init, kind = "http"
               PROVE  /\ input \in Seq(Bytes) /\ input # <<>> /\ input[1] = "first"
                      /\ Tracks(input, parser)
    BY DEF ParserTracks
  <2>1. input = <<"first">> /\ parser = Parse(NewParser, <<"first">>)
    BY DEF Init
  <2>2. input \in Seq(Bytes) /\ input # <<>> /\ input[1] = "first"
    BY <2>1 DEF Bytes
  <2>3. PICK e \in Seq(Bytes) : e = <<>>
    BY EmptySeq, Zenon
  <2>4. e \o input = input
    BY <2>2, <2>3
  <2>5. Tracks(e, NewParser)
    BY <2>3, NewTracks
  <2>6. (e \o input)[1] = "first"
    BY <2>2, <2>4, Zenon
  <2>7. Tracks(e \o input, Parse(NewParser, input))
    BY <2>2, <2>5, <2>6, ParseTracks
  <2> QED BY <2>1, <2>2, <2>4, <2>7, Zenon
<1>2. ParserTracks /\ [Next]_<<kind, input, pieces, parser>> => ParserTracks'
  <2> SUFFICES ASSUME ParserTracks, [Next]_<<kind, input, pieces, parser>>, kind' = "http"
               PROVE  /\ input' \in Seq(Bytes) /\ input' # <<>> /\ input'[1] = "first"
                      /\ Tracks(input', parser')
    BY DEF ParserTracks
  <2>1. CASE AddPiece
    <3>1. kind = "http"
      BY <2>1 DEF AddPiece
    <3>2. PICK piece \in Pieces : input' = input \o piece /\ parser' = Parse(parser, piece)
      BY <2>1, <3>1 DEF AddPiece
    <3>3. piece \in Seq(Bytes)
      <4>1. \/ piece = <<"cr", "lf">> \/ piece = <<"lf">> \/ piece = <<"x">>
            \/ piece = <<"key", "colon", "sp", "1">> \/ piece = <<"x", "colon", "key">>
            \/ piece = <<"sp">>
        BY <3>1, <3>2, Zenon DEF Pieces
      <4>2. CASE piece = <<"key", "colon", "sp", "1">>
        BY <4>2 DEF Bytes
      <4>3. CASE piece = <<"x", "colon", "key">>
        BY <4>3 DEF Bytes
      <4>4. CASE piece = <<"cr", "lf">>
        BY <4>4 DEF Bytes
      <4>5. CASE \E b \in Bytes : piece = <<b>>
        BY <4>5
      <4> QED BY <4>1, <4>2, <4>3, <4>4, <4>5 DEF Bytes
    <3>4. /\ input \in Seq(Bytes) /\ input # <<>> /\ input[1] = "first"
          /\ Tracks(input, parser)
      BY <3>1, Zenon DEF ParserTracks
    <3>5. PICK w \in Seq(Bytes) : w = input \o piece /\ w # <<>> /\ w[1] = "first"
      <4>1. PICK w \in Seq(Bytes) : w = input \o piece /\ Then(input, piece, w)
        <5>1. input \o piece \in Seq(Bytes) /\ Then(input, piece, input \o piece)
          BY <3>3, <3>4, ThenIs
        <5> QED BY <5>1, Zenon
      <4>2. Len(input) \in Nat /\ Len(input) # 0
        BY <3>4
      <4>3. w # <<>> /\ w[1] = "first"
        BY <3>4, <4>1, <4>2 DEF Then
      <4> QED BY <4>1, <4>3, Zenon
    <3>6. Tracks(input \o piece, Parse(parser, piece))
      BY <3>3, <3>4, <3>5, ParseTracks
    <3> QED BY <3>2, <3>5, <3>6, Zenon
  <2>2. CASE Tick
    BY <2>2 DEF Tick
  <2>3. CASE UNCHANGED <<kind, input, pieces, parser>>
    BY <2>3, Zenon DEF ParserTracks
  <2> QED BY <2>1, <2>2, <2>3 DEF Next
<1> QED BY <1>1, <1>2, PTL DEF Spec

(***************************************************************************)
(* So it does when the message comes in pieces, in as many calls of        *)
(* HTTPParser::Parse: the parser that goes on from where it was follows    *)
(* the whole message so far.                                               *)
(***************************************************************************)
THEOREM ParserFollows == Spec => []ParserFollowsLines
<1>1. ParserTracks => ParserFollowsLines
  BY TracksFollows DEF ParserTracks, ParserFollowsLines
<1> QED BY <1>1, ParserTracksHold, PTL

=============================================================================
