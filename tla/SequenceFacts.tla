--------------------------- MODULE SequenceFacts ---------------------------
(***************************************************************************)
(* What the other proofs need of numbers and lists: induction, in the form *)
(* of sets of numbers, and what the operators of SequencesExt do to a list *)
(* without repetition.                                                     *)
(***************************************************************************)
EXTENDS Integers, Sequences, SequencesExt, SequenceTheorems, FiniteSetTheorems, TLAPS

\* A set of naturals has a least element.
LEMMA LeastNatural ==
  ASSUME NEW T \in SUBSET Nat, T # {}
  PROVE  \E x \in T : \A y \in T : x <= y
<1> DEFINE UpTo(x) == {y \in T : y <= x}
           U == {UpTo(x) : x \in T}
<1>1. U \subseteq FiniteSubsetsOf(Nat) /\ U # {}
  <2>1. ASSUME NEW x \in T
        PROVE  UpTo(x) \in FiniteSubsetsOf(Nat)
    <3>1. IsFiniteSet(UpTo(x))
      BY FS_BoundedSetOfNaturals
    <3> QED BY <3>1 DEF FiniteSubsetsOf
  <2> QED BY <2>1
<1>2. PICK V \in U : \A W \in U : ~(<<W, V>> \in StrictSubsetOrdering(Nat))
  <2> HIDE DEF U
  <2>1. IsWellFoundedOn(StrictSubsetOrdering(Nat), FiniteSubsetsOf(Nat))
    BY FS_StrictSubsetOrderingWellFounded
  <2> QED BY <1>1, <2>1, WFMin, Zenon
<1>3. PICK x \in T : V = UpTo(x)
  BY <1>2
<1>4. ASSUME NEW y \in T, y < x
      PROVE  FALSE
  <2>1. \A z \in T : z \in Nat
    OBVIOUS
  <2>2. /\ \A z \in T : z <= y => z <= x
        /\ x <= x /\ ~(x <= y)
    BY <1>4, <2>1
  <2>3. <<UpTo(y), UpTo(x)>> \in StrictSubsetOrdering(Nat)
    <3>1. /\ UpTo(y) \subseteq UpTo(x)
          /\ x \in UpTo(x) /\ x \notin UpTo(y)
      BY <2>2, Zenon
    <3> QED BY <3>1 DEF StrictSubsetOrdering
  <2> QED BY <1>2, <1>3, <2>3
<1> QED BY <1>4

\* A set with 0 and with the successor of each of its numbers below n has all
\* numbers up to n.
LEMMA UpTo ==
  ASSUME NEW n \in Nat, NEW S, 0 \in S, \A i \in 1..n : i - 1 \in S => i \in S
  PROVE  \A i \in 0..n : i \in S
<1> SUFFICES ASSUME NEW j \in 0..n, j \notin S
             PROVE  FALSE
  OBVIOUS
<1> DEFINE T == {i \in 0..n : i \notin S}
<1>1. PICK x \in T : \A y \in T : x <= y
  <2>1. T \in SUBSET Nat /\ T # {}
    OBVIOUS
  <2> HIDE DEF T
  <2> QED BY <2>1, LeastNatural
<1>2. x \in 1..n /\ x - 1 \notin T
  BY <1>1
<1> QED BY <1>2

\* The same downwards from n.
LEMMA DownFrom ==
  ASSUME NEW n \in Nat, NEW S, n \in S,
         \A i \in 0..(n - 1) : (\A j \in (i + 1)..n : j \in S) => i \in S
  PROVE  \A i \in 0..n : i \in S
<1> SUFFICES ASSUME NEW j \in 0..n, j \notin S
             PROVE  FALSE
  OBVIOUS
<1> DEFINE T == {i \in 0..n : n - i \notin S}
<1>1. PICK x \in T : \A y \in T : x <= y
  <2>1. n - j \in T
    OBVIOUS
  <2>2. T \in SUBSET Nat /\ T # {}
    BY <2>1
  <2> HIDE DEF T
  <2> QED BY <2>2, LeastNatural
<1>2. x \in 1..n
  BY <1>1
<1>3. ASSUME NEW k \in (n - x + 1)..n
      PROVE  k \in S
  <2>1. n - k \in 0..n /\ n - k < x /\ n - (n - k) = k
    BY <1>2, <1>3
  <2> QED BY <1>1, <2>1
<1> QED BY <1>1, <1>2, <1>3

\* RemoveAt leaves out the element at place k and moves up those behind it.
LEMMA RemoveAtFacts ==
  ASSUME NEW S, NEW s \in Seq(S), NEW k \in 1..Len(s)
  PROVE  /\ RemoveAt(s, k) \in Seq(S)
         /\ Len(RemoveAt(s, k)) = Len(s) - 1
         /\ \A j \in 1..(Len(s) - 1) :
              RemoveAt(s, k)[j] = s[IF j < k THEN j ELSE j + 1]
<1> DEFINE a == SubSeq(s, 1, k - 1)
           b == SubSeq(s, k + 1, Len(s))
<1>1. Len(s) \in Nat /\ k \in Nat /\ DOMAIN s = 1..Len(s)
  BY LenProperties
<1>2. /\ a \in Seq(S) /\ Len(a) = k - 1
      /\ \A j \in 1..(k - 1) : a[j] = s[j]
  <2>1. a \in Seq(S)
    BY <1>1, SubSeqProperties
  <2>2. Len(a) = k - 1 /\ \A j \in 1..(k - 1) : a[j] = s[1 + j - 1]
    BY <1>1, SubSeqProperties, Z3
  <2> QED BY <2>1, <2>2, <1>1
<1>3. /\ b \in Seq(S) /\ Len(b) = Len(s) - k
      /\ \A j \in 1..(Len(s) - k) : b[j] = s[j + k]
  <2>1. b \in Seq(S)
    BY <1>1, SubSeqProperties
  <2>2. /\ Len(b) = Len(s) - k
        /\ \A j \in 1..(Len(s) - k) : b[j] = s[k + 1 + j - 1]
    BY <1>1, SubSeqProperties, Z3
  <2> QED BY <2>1, <2>2, <1>1
<1>4. RemoveAt(s, k) = a \o b
  BY DEF RemoveAt
<1> HIDE DEF a, b
<1>5. /\ a \o b \in Seq(S) /\ Len(a \o b) = Len(s) - 1
      /\ \A j \in 1..(Len(s) - 1) :
           (a \o b)[j] = IF j <= k - 1 THEN a[j] ELSE b[j - (k - 1)]
  <2>1. /\ a \o b \in Seq(S) /\ Len(a \o b) = Len(a) + Len(b)
        /\ \A j \in 1..(Len(a) + Len(b)) :
             (a \o b)[j] = IF j <= Len(a) THEN a[j] ELSE b[j - Len(a)]
    BY <1>2, <1>3, ConcatProperties
  <2>2. Len(a) + Len(b) = Len(s) - 1
    BY <1>1, <1>2, <1>3
  <2> QED BY <2>1, <2>2, <1>2
<1>6. ASSUME NEW j \in 1..(Len(s) - 1)
      PROVE  (a \o b)[j] = s[IF j < k THEN j ELSE j + 1]
  BY <1>1, <1>2, <1>3, <1>5
<1> QED BY <1>4, <1>5, <1>6

\* RemoveFirst removes the only occurrence of an element.
LEMMA RemoveFirstIs ==
  ASSUME NEW S, NEW s \in Seq(S), NEW c, NEW k \in 1..Len(s), s[k] = c,
         \A j \in 1..Len(s) : s[j] = c => j = k
  PROVE  RemoveFirst(s, c) = RemoveAt(s, k)
<1>1. {j \in 1..Len(s) : s[j] = c} = {k}
  OBVIOUS
<1>2. SelectInSeq(s, LAMBDA v : v = c) = k
  BY <1>1 DEF SelectInSeq, Min
<1> QED BY <1>2 DEF RemoveFirst

\* RemoveFirst takes one element off a list without repetition.
LEMMA RemoveFirstFacts ==
  ASSUME NEW S, NEW s \in Seq(S), NEW c,
         IsInjective(s)
  PROVE  /\ RemoveFirst(s, c) \in Seq(S)
         /\ IsInjective(RemoveFirst(s, c))
         /\ \A d : Contains(RemoveFirst(s, c), d) <=> d # c /\ Contains(s, d)
<1>0. \A i, j \in 1..Len(s) : s[i] = s[j] => i = j
  BY LenProperties DEF IsInjective
<1>1. CASE \A i \in 1..Len(s) : s[i] # c
  <2>1. RemoveFirst(s, c) = s
    BY <1>1 DEF RemoveFirst
  <2> QED BY <1>1, <2>1 DEF Contains
<1>2. CASE \E i \in 1..Len(s) : s[i] = c
  <2>1. PICK k \in 1..Len(s) : s[k] = c
    BY <1>2
  <2> DEFINE r == RemoveAt(s, k)
  <2>2. RemoveFirst(s, c) = r
    BY <1>0, <2>1, RemoveFirstIs
  <2>3. /\ r \in Seq(S) /\ Len(r) = Len(s) - 1
        /\ \A j \in 1..(Len(s) - 1) : r[j] = s[IF j < k THEN j ELSE j + 1]
    BY RemoveAtFacts
  <2>4. Len(s) \in Nat /\ k \in Nat
    BY LenProperties
  <2> HIDE DEF r
  <2>5. ASSUME NEW i \in 1..Len(r), NEW j \in 1..Len(r), r[i] = r[j]
        PROVE  i = j
    BY <1>0, <2>3, <2>4, <2>5
  <2>6. ASSUME NEW d, NEW i \in 1..Len(r), r[i] = d
        PROVE  d # c /\ \E j \in 1..Len(s) : s[j] = d
    <3>1. PICK j \in 1..Len(s) : j = (IF i < k THEN i ELSE i + 1) /\ j # k
      BY <2>3, <2>4
    <3> QED BY <1>0, <2>1, <2>3, <2>6, <3>1
  <2>7. ASSUME NEW d, d # c, NEW j \in 1..Len(s), s[j] = d
        PROVE  \E i \in 1..Len(r) : r[i] = d
    <3>1. j # k
      BY <2>1, <2>7
    <3>2. PICK i \in 1..Len(r) : j = IF i < k THEN i ELSE i + 1
      <4>1. CASE j < k
        <5> j \in 1..Len(r)
          BY <4>1, <2>3, <2>4
        <5> WITNESS j \in 1..Len(r)
        <5> QED BY <4>1, <2>3, <2>4
      <4>2. CASE j > k
        <5> j - 1 \in 1..Len(r)
          BY <4>2, <2>3, <2>4
        <5> WITNESS j - 1 \in 1..Len(r)
        <5> QED BY <4>2, <2>3, <2>4
      <4> QED BY <4>1, <4>2, <3>1, <2>4
    <3> QED BY <2>3, <2>7, <3>2
  <2>8. IsInjective(r)
    BY <2>3, <2>5, LenProperties DEF IsInjective
  <2> QED BY <2>1, <2>2, <2>3, <2>6, <2>7, <2>8 DEF Contains
<1> QED BY <1>1, <1>2
\* Append puts a new element on a list without repetition.
LEMMA AppendFacts ==
  ASSUME NEW S, NEW s \in Seq(S), NEW c \in S,
         IsInjective(s), ~Contains(s, c)
  PROVE  /\ Append(s, c) \in Seq(S)
         /\ IsInjective(Append(s, c))
         /\ \A d : Contains(Append(s, c), d) <=> d = c \/ Contains(s, d)
<1> DEFINE r == Append(s, c)
<1>1. /\ r \in Seq(S) /\ Len(r) = Len(s) + 1
      /\ \A i \in 1..Len(s) : r[i] = s[i]
      /\ r[Len(s) + 1] = c
  BY AppendProperties
<1>2. Len(s) \in Nat /\ DOMAIN s = 1..Len(s) /\ DOMAIN r = 1..(Len(s) + 1)
  BY <1>1, LenProperties
<1> HIDE DEF r
<1>3. \A i \in 1..(Len(s) + 1) : i \in 1..Len(s) \/ i = Len(s) + 1
  BY <1>2
<1>4. IsInjective(r)
  BY <1>1, <1>2, <1>3 DEF IsInjective, Contains
<1>5. /\ Len(s) + 1 \in 1..(Len(s) + 1)
      /\ \A i \in 1..Len(s) : i \in 1..(Len(s) + 1)
  BY <1>2
<1>6. \A d : Contains(r, d) <=> d = c \/ Contains(s, d)
  BY <1>1, <1>3, <1>5, Zenon DEF Contains
<1> QED BY <1>1, <1>4, <1>6 DEF r

\* Tail takes the head, and nothing but the head, off a list.
LEMMA TailFacts ==
  ASSUME NEW S, NEW s \in Seq(S), s # <<>>
  PROVE  /\ Head(s) \in S /\ Tail(s) \in Seq(S)
         /\ \A d : Contains(s, d) <=> d = Head(s) \/ Contains(Tail(s), d)
         /\ IsInjective(s) => /\ IsInjective(Tail(s))
                              /\ ~Contains(Tail(s), Head(s))
<1> DEFINE r == Tail(s)
<1>1. /\ Head(s) \in S /\ r \in Seq(S) /\ Len(r) = Len(s) - 1
      /\ \A i \in 1..Len(r) : r[i] = s[i + 1]
  BY HeadTailProperties
<1>2. Len(s) \in Nat /\ Len(s) > 0 /\ Head(s) = s[1]
      /\ DOMAIN s = 1..Len(s) /\ DOMAIN r = 1..Len(r)
  BY <1>1, LenProperties, EmptySeq
<1> HIDE DEF r
<1>3. \A i \in 1..Len(s) : i = 1 \/ (i - 1 \in 1..Len(r) /\ r[i - 1] = s[i])
  BY <1>1, <1>2
<1>4. \A i \in 1..Len(r) : i + 1 \in 1..Len(s) /\ i + 1 # 1
  BY <1>1, <1>2
<1>5. 1 \in 1..Len(s)
  BY <1>2
<1>6. \A d : Contains(s, d) => d = Head(s) \/ Contains(r, d)
  BY <1>2, <1>3 DEF Contains
<1>7. \A d : d = Head(s) \/ Contains(r, d) => Contains(s, d)
  BY <1>1, <1>2, <1>4, <1>5, Zenon DEF Contains
<1>8. IsInjective(s) => IsInjective(r)
  <2> SUFFICES ASSUME IsInjective(s), NEW i \in 1..Len(r), NEW j \in 1..Len(r),
                      r[i] = r[j]
               PROVE  i = j
    BY <1>2 DEF IsInjective
  <2>1. i + 1 = j + 1
    BY <1>1, <1>2, <1>4, Zenon DEF IsInjective
  <2> QED BY <2>1
<1>9. IsInjective(s) => ~Contains(r, Head(s))
  BY <1>1, <1>2, <1>4, <1>5, Zenon DEF IsInjective, Contains
<1> QED BY <1>1, <1>6, <1>7, <1>8, <1>9 DEF r

\* A concatenation has the elements of both lists, and no repetition if
\* neither list has one and they have no element in common.
LEMMA ConcatFacts ==
  ASSUME NEW S, NEW s \in Seq(S), NEW u \in Seq(S)
  PROVE  /\ s \o u \in Seq(S)
         /\ \A d : Contains(s \o u, d) <=> Contains(s, d) \/ Contains(u, d)
         /\ /\ IsInjective(s) /\ IsInjective(u)
            /\ \A d : ~(Contains(s, d) /\ Contains(u, d))
            => IsInjective(s \o u)
<1> DEFINE r == s \o u
<1>1. /\ r \in Seq(S) /\ Len(r) = Len(s) + Len(u)
      /\ \A i \in 1..(Len(s) + Len(u)) :
           r[i] = IF i <= Len(s) THEN s[i] ELSE u[i - Len(s)]
  BY ConcatProperties
<1>2. /\ Len(s) \in Nat /\ Len(u) \in Nat
      /\ DOMAIN s = 1..Len(s) /\ DOMAIN u = 1..Len(u) /\ DOMAIN r = 1..Len(r)
  BY <1>1, LenProperties
<1> HIDE DEF r
<1>3. \A i \in 1..Len(r) : \/ i \in 1..Len(s) /\ r[i] = s[i]
                           \/ i - Len(s) \in 1..Len(u) /\ r[i] = u[i - Len(s)]
  BY <1>1, <1>2
<1>4. \A i \in 1..Len(s) : i \in 1..Len(r) /\ r[i] = s[i]
  BY <1>1, <1>2
<1>5. \A i \in 1..Len(u) : i + Len(s) \in 1..Len(r) /\ r[i + Len(s)] = u[i]
  BY <1>1, <1>2
<1>6. \A d : Contains(r, d) => Contains(s, d) \/ Contains(u, d)
  BY <1>3, Zenon DEF Contains
<1>7. \A d : Contains(s, d) \/ Contains(u, d) => Contains(r, d)
  BY <1>4, <1>5, Zenon DEF Contains
<1>8. ASSUME IsInjective(s), IsInjective(u),
             \A d : ~(Contains(s, d) /\ Contains(u, d))
      PROVE  IsInjective(r)
  <2> SUFFICES ASSUME NEW i \in 1..Len(r), NEW j \in 1..Len(r), r[i] = r[j]
               PROVE  i = j
    BY <1>2 DEF IsInjective
  <2>1. CASE i \in 1..Len(s) /\ j \in 1..Len(s)
    BY <1>2, <1>4, <1>8, <2>1 DEF IsInjective
  <2>2. CASE i - Len(s) \in 1..Len(u) /\ j - Len(s) \in 1..Len(u)
    <3>1. r[i] = u[i - Len(s)] /\ r[j] = u[j - Len(s)]
      BY <1>1, <1>2, <2>2
    <3>2. i - Len(s) = j - Len(s)
      BY <1>2, <1>8, <2>2, <3>1, Zenon DEF IsInjective
    <3> QED BY <1>2, <2>2, <3>2
  <2>3. ASSUME NEW a \in 1..Len(s), NEW b \in 1..Len(u), s[a] = u[b]
        PROVE  FALSE
    BY <1>8, <2>3, Zenon DEF Contains
  <2> QED BY <1>3, <2>1, <2>2, <2>3
<1> QED BY <1>1, <1>6, <1>7, <1>8 DEF r
=============================================================================
