---------------------------- MODULE TokensProofs ----------------------------
(***************************************************************************)
(* For texts of any length: the scanner of Tokens stays inside its text,   *)
(* finds the words of a request, keeps what is quoted, finds in the feed   *)
(* what it found in the request, and in a synchronisation the value, just  *)
(* if that can be transferred.                                             *)
(***************************************************************************)
EXTENDS Tokens, FiniteSetTheorems, SequenceTheorems, WellFoundedInduction, TLAPS

-----------------------------------------------------------------------------
(* Numbers                                                                 *)

\* Natural numbers have a least element.
LEMMA LeastExists ==
  ASSUME NEW T, T \subseteq Nat, T # {}
  PROVE  \E n \in T : \A m \in T : n <= m
<1> DEFINE Less == {q \in Nat \X Nat : q[1] < q[2]}
<1>1. IsWellFoundedOn(Less, Nat)
  BY NatLessThanWellFounded DEF OpToRel
<1> HIDE DEF Less
<1>2. PICK n \in T : \A m \in T : ~(<<m, n>> \in Less)
  BY <1>1, WFMin
<1>3. ASSUME NEW m \in T PROVE n <= m
  <2>1. m \in Nat /\ n \in Nat
    OBVIOUS
  <2>2. ~(m < n)
    BY <1>2, <2>1 DEF Less
  <2> QED
    BY <2>1, <2>2
<1> QED
  BY <1>3

LEMMA MinIs ==
  ASSUME NEW T, T \subseteq Nat, T # {}
  PROVE  Min(T) \in T /\ \A m \in T : Min(T) <= m
<1>1. \E n \in T : \A m \in T : n <= m
  BY LeastExists
<1> QED
  BY <1>1 DEF Min

\* The members of S up to i, of which i is the n-th if there are n of them.
UpTo(S, i) == {j \in S : j <= i}

LEMMA UpToIs ==
  ASSUME NEW S, IsFiniteSet(S), NEW i
  PROVE  IsFiniteSet(UpTo(S, i)) /\ Cardinality(UpTo(S, i)) \in Nat
<1>1. UpTo(S, i) \in SUBSET S
  BY DEF UpTo
<1>2. IsFiniteSet(UpTo(S, i))
  BY <1>1, FS_Subset
<1> QED
  BY <1>2, FS_CardinalityType

\* Each member is the n-th for one n ...
LEMMA NthIs ==
  ASSUME NEW S, S \subseteq Nat, IsFiniteSet(S), NEW i \in S
  PROVE  Nth(S, Cardinality(UpTo(S, i))) = i
<1> DEFINE n == Cardinality(UpTo(S, i))
           h == Nth(S, n)
<1>1. h \in S /\ Cardinality(UpTo(S, h)) = n
  BY DEF Nth, UpTo
<1>2. IsFiniteSet(UpTo(S, i)) /\ IsFiniteSet(UpTo(S, h))
  BY UpToIs
<1> HIDE DEF h
<1>3. h \in Nat /\ i \in Nat /\ \A j \in S : j \in Nat
  BY <1>1
<1>4. CASE h <= i
  <2>1. UpTo(S, h) \in SUBSET UpTo(S, i)
    <3>1. \A j \in S : j <= h => j <= i
      BY <1>3, <1>4
    <3> QED
      BY <3>1 DEF UpTo
  <2>2. UpTo(S, h) = UpTo(S, i)
    BY <1>1, <1>2, <2>1, FS_Subset
  <2>3. i \in UpTo(S, h)
    BY <1>3, <2>2 DEF UpTo
  <2> QED
    BY <1>3, <1>4, <2>3 DEF UpTo, h
<1>5. CASE i <= h
  <2>1. UpTo(S, i) \in SUBSET UpTo(S, h)
    <3>1. \A j \in S : j <= i => j <= h
      BY <1>3, <1>5
    <3> QED
      BY <3>1 DEF UpTo
  <2>2. UpTo(S, h) = UpTo(S, i)
    BY <1>1, <1>2, <2>1, FS_Subset
  <2>3. h \in UpTo(S, i)
    BY <1>1, <1>3, <2>2 DEF UpTo
  <2> QED
    BY <1>3, <1>5, <2>3 DEF UpTo, h
<1> QED
  BY <1>3, <1>4, <1>5

\* ... and for each n there is one.
LEMMA NthExists ==
  ASSUME NEW S, S \subseteq Nat, IsFiniteSet(S), NEW n \in 1 .. Cardinality(S)
  PROVE  Nth(S, n) \in S /\ Cardinality(UpTo(S, Nth(S, n))) = n
<1> DEFINE U == {k \in 1 .. Cardinality(S) : ~\E i \in S : Cardinality(UpTo(S, i)) = k}
<1>1. Cardinality(S) \in Nat
  BY FS_CardinalityType
<1> SUFFICES U = {}
  <2>1. \E i \in S : Cardinality(UpTo(S, i)) = n
    OBVIOUS
  <2> QED
    BY <2>1 DEF Nth, UpTo
<1> SUFFICES ASSUME U # {} PROVE FALSE
  OBVIOUS
<1>2. PICK k \in U : \A m \in U : k <= m
  <2>1. U \subseteq Nat
    BY <1>1
  <2> HIDE DEF U
  <2> QED
    BY <2>1, LeastExists
<1>3. k \in 1 .. Cardinality(S) /\ ~\E i \in S : Cardinality(UpTo(S, i)) = k
  OBVIOUS
\* The member after those up to a is the next one.
<1>4. ASSUME NEW A \in SUBSET S, A # S, Cardinality(A) = k - 1,
             \A i \in A, j \in S \ A : i < j
      PROVE  FALSE
  <2>1. S \ A # {} /\ S \ A \subseteq Nat
    BY <1>4
  <2>2. PICK i \in S \ A : \A j \in S \ A : i <= j
    BY <2>1, LeastExists
  <2>3. UpTo(S, i) = A \cup {i}
    <3>1. i \in Nat /\ \A j \in S : j \in Nat
      BY <2>2
    <3>2. \A j \in S : j <= i <=> j \in A \/ j = i
      BY <1>4, <2>2, <3>1
    <3> QED
      BY <2>2, <3>2 DEF UpTo
  <2>4. IsFiniteSet(A)
    BY FS_Subset
  <2>5. Cardinality(A \cup {i}) = Cardinality(A) + 1
    BY <2>2, <2>4, FS_AddElement
  <2> QED
    BY <1>1, <1>3, <1>4, <2>2, <2>3, <2>5
<1>5. CASE k = 1
  <2>1. Cardinality({}) = 0 /\ {} # S
    BY <1>3, <1>5, FS_EmptySet
  <2> QED
    BY <1>4, <1>5, <2>1
<1>6. CASE k # 1
  <2>1. k - 1 \in 1 .. Cardinality(S) /\ ~(k <= k - 1)
    BY <1>1, <1>3, <1>6
  <2>2. PICK i \in S : Cardinality(UpTo(S, i)) = k - 1
    BY <1>2, <2>1
  <2>3. UpTo(S, i) \in SUBSET S /\ \A a \in UpTo(S, i), j \in S \ UpTo(S, i) : a < j
    BY DEF UpTo
  <2>4. UpTo(S, i) # S
    BY <1>1, <1>3, <2>2
  <2> HIDE DEF UpTo
  <2> QED
    BY <1>4, <2>2, <2>3, <2>4
<1> QED
  BY <1>5, <1>6

\* A finite set of numbers has a greatest one.
LEMMA MaxIs ==
  ASSUME NEW T, T \subseteq Nat, T # {}, IsFiniteSet(T)
  PROVE  Max(T) \in T
<1>1. Cardinality(T) \in Nat /\ Cardinality(T) # 0
  BY FS_CardinalityType, FS_EmptySet
<1> DEFINE n == Nth(T, Cardinality(T))
<1>2. Cardinality(T) \in 1 .. Cardinality(T)
  BY <1>1
<1>3. n \in T /\ Cardinality(UpTo(T, n)) = Cardinality(T)
  BY <1>2, NthExists
<1>4. UpTo(T, n) \in SUBSET T
  BY DEF UpTo
<1> HIDE DEF n
<1>5. UpTo(T, n) = T
  BY <1>3, <1>4, FS_Subset
<1>6. \A m \in T : m <= n
  BY <1>5 DEF UpTo
<1> QED
  BY <1>3, <1>6 DEF Max

-----------------------------------------------------------------------------
(* Texts                                                                   *)

LEMMA EndsLineIs ==
  ASSUME NEW s \in Seq(Chars)
  PROVE  EndsLine(s) <=> Len(s) - 1 \in Ends(s)
<1>1. Len(s) \in Nat
  OBVIOUS
<1>2. CASE Len(s) < 2
  BY <1>1, <1>2 DEF EndsLine, Ends
<1>3. CASE Len(s) >= 2
  <2> DEFINE u == SubSeq(s, Len(s) - 1, Len(s))
  <2>1. /\ u \in Seq(Chars) /\ Len(u) = 2
        /\ \A i \in 1 .. 2 : u[i] = s[Len(s) - 2 + i]
    BY <1>1, <1>3
  <2>2. u[1] = s[Len(s) - 1] /\ u[2] = s[Len(s)]
    BY <1>1, <1>3, <2>1
  <2> HIDE DEF u
  <2>3. u = CRLF <=> u[1] = "cr" /\ u[2] = "lf"
    BY <2>1 DEF CRLF
  <2>4. Len(s) - 1 \in 1 .. Len(s) - 1 /\ (Len(s) - 1) + 1 = Len(s)
    BY <1>1, <1>3
  <2>5. Len(s) - 1 \in Ends(s) <=> s[Len(s) - 1] = "cr" /\ s[Len(s)] = "lf"
    BY <2>4 DEF Ends
  <2> QED
    BY <1>3, <2>2, <2>3, <2>5 DEF EndsLine, u
<1> QED
  BY <1>1, <1>2, <1>3

\* A part of a text.
LEMMA PartIs ==
  ASSUME NEW s \in Seq(Chars), NEW m \in Nat \ {0}, NEW n \in Nat, n <= Len(s)
  PROVE  /\ SubSeq(s, m, n) \in Seq(Chars)
         /\ Len(SubSeq(s, m, n)) = IF m <= n THEN n - m + 1 ELSE 0
         /\ Len(SubSeq(s, m, n)) <= Len(s)
         /\ \A i \in 1 .. Len(SubSeq(s, m, n)) : SubSeq(s, m, n)[i] = s[m + i - 1]
<1>1. \A i \in m .. n : s[i] \in Chars
  OBVIOUS
<1>2. /\ SubSeq(s, m, n) \in Seq(Chars)
      /\ Len(SubSeq(s, m, n)) = IF m <= n THEN n - m + 1 ELSE 0
      /\ \A i \in 1 .. n - m + 1 : SubSeq(s, m, n)[i] = s[m + i - 1]
  BY <1>1, SubSeqProperties
<1> QED
  BY <1>2

LEMMA StartIs ==
  ASSUME NEW s \in Seq(Chars), NEW n \in Nat, n <= Len(s)
  PROVE  /\ SubSeq(s, 1, n) \in Seq(Chars) /\ Len(SubSeq(s, 1, n)) = n
         /\ \A i \in 1 .. n : SubSeq(s, 1, n)[i] = s[i]
<1> DEFINE u == SubSeq(s, 1, n)
<1>1. /\ u \in Seq(Chars) /\ Len(u) = IF 1 <= n THEN n - 1 + 1 ELSE 0
      /\ \A i \in 1 .. Len(u) : u[i] = s[1 + i - 1]
  BY PartIs
<1> HIDE DEF u
<1>2. \A i \in 1 .. n : 1 + i - 1 = i
  OBVIOUS
<1>3. Len(u) = n
  BY <1>1
<1> QED
  BY <1>1, <1>2, <1>3 DEF u

LEMMA ConcatIs ==
  ASSUME NEW T, NEW s \in Seq(T), NEW t \in Seq(T)
  PROVE  /\ s \o t \in Seq(T) /\ Len(s \o t) = Len(s) + Len(t) /\ Len(s) \in Nat /\ Len(t) \in Nat
         /\ \A i \in 1 .. Len(s) : (s \o t)[i] = s[i]
         /\ \A i \in Len(s) + 1 .. Len(s) + Len(t) : (s \o t)[i] = t[i - Len(s)]
  OBVIOUS

\* Only the end of a line is removed.
LEMMA StrippedIs ==
  ASSUME NEW s \in Seq(Chars)
  PROVE  /\ Stripped(s) \in Seq(Chars) /\ Len(Stripped(s)) \in Nat /\ Len(Stripped(s)) <= Len(s)
         /\ \A i \in 1 .. Len(Stripped(s)) : Stripped(s)[i] = s[i]
         /\ \A i \in Len(Stripped(s)) + 1 .. Len(s) : s[i] \in {"cr", "lf"}
<1>1. Len(s) \in Nat
  OBVIOUS
<1>2. CASE EndsLine(s)
  <2>1. Len(s) >= 2 /\ s[Len(s) - 1] = "cr" /\ s[Len(s)] = "lf"
    BY <1>1, <1>2, EndsLineIs DEF Ends
  <2>2. Len(s) - 2 \in Nat /\ Stripped(s) = SubSeq(s, 1, Len(s) - 2)
    BY <1>1, <1>2, <2>1 DEF Stripped
  <2>3. /\ Stripped(s) \in Seq(Chars) /\ Len(Stripped(s)) = Len(s) - 2
        /\ \A i \in 1 .. Len(Stripped(s)) : Stripped(s)[i] = s[i]
    <3>1. PICK n \in Nat : n = Len(s) - 2
      BY <2>2
    <3>2. /\ SubSeq(s, 1, n) \in Seq(Chars) /\ Len(SubSeq(s, 1, n)) = n
          /\ \A i \in 1 .. n : SubSeq(s, 1, n)[i] = s[i]
      <4>1. n <= Len(s)
        BY <1>1, <3>1
      <4> QED
        BY <4>1, StartIs
    <3>3. Stripped(s) = SubSeq(s, 1, n)
      BY <2>2, <3>1, Zenon
    <3> QED
      BY <3>1, <3>2, <3>3
  <2>4. \A i \in Len(s) - 1 .. Len(s) : i = Len(s) - 1 \/ i = Len(s)
    BY <1>1
  <2> QED
    BY <1>1, <2>1, <2>2, <2>3, <2>4
<1>3. CASE ~EndsLine(s) /\ Len(s) > 0 /\ s[Len(s)] = "lf"
  <2>1. Len(s) - 1 \in Nat /\ Stripped(s) = SubSeq(s, 1, Len(s) - 1)
    BY <1>1, <1>3 DEF Stripped
  <2>2. /\ Stripped(s) \in Seq(Chars) /\ Len(Stripped(s)) = Len(s) - 1
        /\ \A i \in 1 .. Len(Stripped(s)) : Stripped(s)[i] = s[i]
    <3>1. PICK n \in Nat : n = Len(s) - 1
      BY <2>1
    <3>2. /\ SubSeq(s, 1, n) \in Seq(Chars) /\ Len(SubSeq(s, 1, n)) = n
          /\ \A i \in 1 .. n : SubSeq(s, 1, n)[i] = s[i]
      <4>1. n <= Len(s)
        BY <1>1, <3>1
      <4> QED
        BY <4>1, StartIs
    <3>3. Stripped(s) = SubSeq(s, 1, n)
      BY <2>1, <3>1, Zenon
    <3> QED
      BY <3>1, <3>2, <3>3
  <2>3. \A i \in Len(s) .. Len(s) : i = Len(s)
    BY <1>1
  <2> QED
    BY <1>1, <1>3, <2>1, <2>2, <2>3
<1>4. CASE ~EndsLine(s) /\ ~(Len(s) > 0 /\ s[Len(s)] = "lf")
  BY <1>1, <1>4 DEF Stripped
<1> QED
  BY <1>2, <1>3, <1>4

\* A line whose end was added.
LEMMA EndAdded ==
  ASSUME NEW s \in Seq(Chars)
  PROVE  /\ s \o CRLF \in Seq(Chars) /\ Len(s \o CRLF) = Len(s) + 2
         /\ \A i \in 1 .. Len(s) : (s \o CRLF)[i] = s[i]
         /\ Ends(s \o CRLF) = Ends(s) \cup {Len(s) + 1}
<1> DEFINE t == s \o CRLF
<1>1. CRLF \in Seq(Chars) /\ Len(CRLF) = 2 /\ CRLF[1] = "cr" /\ CRLF[2] = "lf"
  BY DEF CRLF, Chars
<1>2. /\ t \in Seq(Chars) /\ Len(t) = Len(s) + 2 /\ Len(s) \in Nat
      /\ \A i \in 1 .. Len(s) : t[i] = s[i]
      /\ t[Len(s) + 1] = CRLF[1] /\ t[Len(s) + 2] = CRLF[2]
  <2>1. /\ t \in Seq(Chars) /\ Len(t) = Len(s) + Len(CRLF) /\ Len(s) \in Nat
        /\ \A i \in 1 .. Len(s) : t[i] = s[i]
        /\ \A i \in Len(s) + 1 .. Len(s) + Len(CRLF) : t[i] = CRLF[i - Len(s)]
    BY <1>1, ConcatIs
  <2> HIDE DEF t
  <2>2. /\ Len(s) + 1 \in Len(s) + 1 .. Len(s) + 2 /\ (Len(s) + 1) - Len(s) = 1
        /\ Len(s) + 2 \in Len(s) + 1 .. Len(s) + 2 /\ (Len(s) + 2) - Len(s) = 2
    BY <2>1
  <2> QED
    BY <1>1, <2>1, <2>2
<1> HIDE DEF t
<1>3. ASSUME NEW i \in 1 .. Len(s) + 1
      PROVE  t[i] = "cr" /\ t[i + 1] = "lf" <=> i \in Ends(s) \/ i = Len(s) + 1
  <2>1. CASE i = Len(s) + 1
    <3>1. i + 1 = Len(s) + 2
      BY <1>2, <2>1
    <3> QED
      BY <1>1, <1>2, <2>1, <3>1
  <2>2. CASE i = Len(s)
    <3>1. t[i + 1] = "cr" /\ i \notin 1 .. Len(s) - 1
      BY <1>1, <1>2, <2>2
    <3> QED
      BY <1>2, <2>2, <3>1 DEF Ends
  <2>3. CASE i < Len(s)
    <3>1. i \in 1 .. Len(s) - 1 /\ i \in 1 .. Len(s) /\ i + 1 \in 1 .. Len(s) /\ i # Len(s) + 1
      BY <1>2, <2>3
    <3> QED
      BY <1>2, <3>1 DEF Ends
  <2> QED
    BY <1>2, <2>1, <2>2, <2>3
<1>4. Ends(s) \subseteq 1 .. Len(s) + 1 /\ Len(s) + 1 \in 1 .. Len(s) + 1 /\ Len(t) - 1 = Len(s) + 1
  BY <1>2 DEF Ends
<1>5. Ends(t) = Ends(s) \cup {Len(s) + 1}
  <2>1. \A i : i \in Ends(t) <=> i \in 1 .. Len(s) + 1 /\ t[i] = "cr" /\ t[i + 1] = "lf"
    BY <1>4 DEF Ends
  <2> QED
    BY <1>3, <1>4, <2>1
<1> QED
  BY <1>2, <1>5 DEF t

LEMMA TerminatedIs ==
  ASSUME NEW s \in Seq(Chars)
  PROVE  /\ Terminated(s) \in Seq(Chars) /\ Len(Terminated(s)) <= Len(s) + 2
         /\ Ends(Terminated(s)) # {}
<1>1. Len(s) \in Nat
  OBVIOUS
<1>2. CASE EndsLine(s)
  <2>1. Terminated(s) = s /\ Ends(s) # {}
    BY <1>2, EndsLineIs DEF Terminated
  <2> QED
    BY <1>1, <2>1
<1>3. CASE ~EndsLine(s)
  <2>1. Terminated(s) = s \o CRLF
    BY <1>3 DEF Terminated
  <2>2. /\ s \o CRLF \in Seq(Chars) /\ Len(s \o CRLF) = Len(s) + 2
        /\ Ends(s \o CRLF) = Ends(s) \cup {Len(s) + 1}
    BY EndAdded
  <2> HIDE DEF Terminated
  <2> QED
    BY <1>1, <2>1, <2>2
<1> QED
  BY <1>2, <1>3

LEMMA QuotedIs ==
  ASSUME NEW v \in Seq(Chars)
  PROVE  Quoted(v) \in Seq(Chars) /\ Len(Quoted(v)) <= Len(v) + 2
<1> DEFINE q == <<"quote">>
<1>1. q \in Seq(Chars) /\ Len(q) = 1
  BY DEF Chars
<1> HIDE DEF q
<1>2. q \o v \in Seq(Chars) /\ Len(q \o v) = Len(v) + 1 /\ Len(v) \in Nat
  <2>1. q \o v \in Seq(Chars) /\ Len(q \o v) = Len(q) + Len(v) /\ Len(v) \in Nat
    BY <1>1, ConcatIs
  <2> QED
    BY <1>1, <2>1
<1> DEFINE w == q \o v
<1> HIDE DEF w
<1>3. w \o q \in Seq(Chars) /\ Len(w \o q) = Len(v) + 2
  BY <1>1, <1>2 DEF w
<1> QED
  BY <1>2, <1>3 DEF Quoted, w, q

\* The lines of a stream are parts of it.
LEMMA LinesAre ==
  ASSUME NEW s \in Seq(Chars)
  PROVE  /\ Lines(s) \in Seq(Seq(Chars))
         /\ \A n \in 1 .. Len(Lines(s)) : Len(Lines(s)[n]) <= Len(s)
         /\ Ends(s) # {} => Len(Lines(s)) > 0
<1> DEFINE E == Ends(s)
           k == Cardinality(E)
           from(n) == LET before == {j \in E : j < Nth(E, n)} IN IF before = {} THEN 1 ELSE Max(before) + 2
           line(n) == SubSeq(s, from(n), Nth(E, n) - 1)
<1>1. E \subseteq 1 .. Len(s) - 1 /\ Len(s) \in Nat
  BY DEF Ends
<1>2. E \subseteq Nat /\ IsFiniteSet(E)
  <2>1. IsFiniteSet(1 .. Len(s) - 1)
    <3> DEFINE n == Len(s) - 1
    <3>1. n \in Int /\ 1 \in Int
      BY <1>1
    <3> HIDE DEF n
    <3> QED
      BY <3>1, FS_Interval DEF n
  <2>2. E \in SUBSET (1 .. Len(s) - 1)
    BY <1>1
  <2> HIDE DEF E
  <2>3. IsFiniteSet(E)
    BY <2>1, <2>2, FS_Subset
  <2> QED
    BY <1>1, <2>3
<1>3. k \in Nat /\ (E # {} => k > 0)
  BY <1>2, FS_CardinalityType, FS_EmptySet
<1>4. ASSUME NEW n \in 1 .. k
      PROVE  line(n) \in Seq(Chars) /\ Len(line(n)) <= Len(s)
  <2>1. Nth(E, n) \in E
    BY <1>2, NthExists
  <2> DEFINE to == Nth(E, n)
             before == {j \in E : j < to}
  <2>2. before # {} => Max(before) \in before
    <3>1. before \in SUBSET E
      OBVIOUS
    <3>2. IsFiniteSet(before)
      BY <1>2, <3>1, FS_Subset
    <3> HIDE DEF before
    <3>3. before \subseteq Nat
      BY <1>2, <3>1
    <3> QED
      BY <3>2, <3>3, MaxIs
  <2> HIDE DEF to
  <2>3. before \subseteq Nat
    BY <1>2
  <2> HIDE DEF before, E
  <2>4. from(n) \in Nat \ {0}
    BY <2>2, <2>3 DEF before, to
  <2>5. to \in 1 .. Len(s) - 1
    BY <1>1, <2>1 DEF to
  <2>6. to - 1 \in Nat /\ to - 1 <= Len(s)
    BY <1>1, <2>5
  <2> HIDE DEF from
  <2> QED
    BY <2>4, <2>6, PartIs DEF to
<1>5. Lines(s) = [n \in 1 .. k |-> line(n)]
  BY DEF Lines
<1> HIDE DEF line, k
<1>6. Lines(s) \in Seq(Seq(Chars)) /\ Len(Lines(s)) = k /\ \A n \in 1 .. k : Lines(s)[n] = line(n)
  BY <1>3, <1>4, <1>5
<1> QED
  BY <1>3, <1>4, <1>6

-----------------------------------------------------------------------------
(* Types                                                                   *)

\* A token: a part of a text, or one of the prefix.
Word == Seq(Chars \cup {"SET", "k"})

\* The tokens behind the prefix are parts of the request.
FromRequest(words) ==
  /\ Len(words) >= 2
  /\ \A i \in 3 .. Len(words) : words[i] \in Seq(Chars) /\ Len(words[i]) <= MaxLength

Texts ==
  /\ input \in Seq(Chars) /\ Len(input) <= MaxLength
  /\ text \in Seq(Chars) /\ Len(text) <= MaxLength + 4
  /\ lines \in Seq(Seq(Chars)) /\ \A i \in 1 .. Len(lines) : Len(lines[i]) <= MaxLength + 4

\* The scanner is in its text, and what it finds has the types of what it reads.
TInv ==
  /\ Texts
  /\ stage \in {"request", "feed", "sync", "done"}
  /\ p \in 1 .. Len(text) + 1
  /\ start \in 1 .. p
  /\ state \in 0 .. 2
  /\ argv \in Seq(Word) /\ ran \in Seq(Word)
  /\ fed \in Seq(Seq(Word)) /\ synced \in Seq(Seq(Word))
  /\ stage = "request" => text = Stripped(input) /\ FromRequest(argv) /\ ran = <<>>
  /\ stage = "feed" => FromRequest(ran) /\ Len(ran) >= 3

LEMMA PrefixIs == Prefix \in Seq(Word) /\ Len(Prefix) = 2 /\ Prefix \in Seq(Seq({"SET", "k"}))
<1>1. <<"SET">> \in Seq(Chars \cup {"SET", "k"}) /\ <<"k">> \in Seq(Chars \cup {"SET", "k"})
  OBVIOUS
<1>2. <<"SET">> \in Seq({"SET", "k"}) /\ <<"k">> \in Seq({"SET", "k"})
  OBVIOUS
<1> QED
  BY <1>1, <1>2 DEF Prefix, Word

LEMMA AppendIs ==
  ASSUME NEW T, NEW s \in Seq(T), NEW x \in T
  PROVE  /\ Append(s, x) \in Seq(T) /\ Len(Append(s, x)) = Len(s) + 1 /\ Len(s) \in Nat
         /\ \A i \in 1 .. Len(s) : Append(s, x)[i] = s[i]
         /\ Append(s, x)[Len(s) + 1] = x
  OBVIOUS

\* A token is a part of the text.
LEMMA TokenTyped ==
  ASSUME TInv
  PROVE  /\ Token \in Seq(Chars) /\ Token \in Word /\ Len(Token) <= Len(text)
         /\ stage = "request" => Len(Token) <= MaxLength
<1>1. /\ text \in Seq(Chars) /\ p \in 1 .. Len(text) + 1 /\ start \in 1 .. p /\ Len(text) \in Nat
      /\ input \in Seq(Chars) /\ Len(input) <= MaxLength /\ Len(input) \in Nat /\ MaxLength \in Nat
      /\ stage = "request" => text = Stripped(input)
  BY TokensAssumption DEF TInv, Texts
<1>2. PICK m \in Nat \ {0}, n \in Nat : m = start /\ n = p - 1 /\ n <= Len(text)
  <2>1. start \in Nat \ {0} /\ p - 1 \in Nat /\ p - 1 <= Len(text)
    BY <1>1
  <2> QED
    BY <2>1
<1>3. Token = SubSeq(text, m, n)
  BY <1>2, Zenon DEF Token
<1>4. Token \in Seq(Chars) /\ Len(Token) <= Len(text) /\ Len(Token) \in Nat
  BY <1>1, <1>2, <1>3, PartIs
<1>5. Token \in Word
  <2>1. Chars \subseteq Chars \cup {"SET", "k"}
    OBVIOUS
  <2> QED
    BY <1>4, <2>1, SeqMonotonic DEF Word
<1>6. stage = "request" => Len(text) <= Len(input)
  BY <1>1, StrippedIs
<1> HIDE DEF Token
<1> QED
  BY <1>1, <1>4, <1>5, <1>6

LEMMA FoundTyped ==
  ASSUME TInv
  PROVE  /\ Append(argv, Token) \in Seq(Word) /\ Found \in Seq(Word)
         /\ stage = "request" => FromRequest(Append(argv, Token)) /\ FromRequest(Found)
<1>1. /\ argv \in Seq(Word) /\ Token \in Word /\ Token \in Seq(Chars)
      /\ stage = "request" => FromRequest(argv) /\ Len(Token) <= MaxLength
  BY TokenTyped DEF TInv
<1> HIDE DEF Token
<1> DEFINE a == Append(argv, Token)
<1>2. /\ a \in Seq(Word) /\ Len(a) = Len(argv) + 1 /\ Len(argv) \in Nat
      /\ \A i \in 1 .. Len(argv) : a[i] = argv[i]
      /\ a[Len(argv) + 1] = Token
  BY <1>1, AppendIs
<1> HIDE DEF a
<1>3. ASSUME stage = "request" PROVE FromRequest(a)
  <2>1. ASSUME NEW i \in 3 .. Len(a) PROVE a[i] \in Seq(Chars) /\ Len(a[i]) <= MaxLength
    <3>1. CASE i = Len(argv) + 1
      BY <1>1, <1>2, <1>3, <3>1
    <3>2. CASE i # Len(argv) + 1
      <4>1. i \in 3 .. Len(argv) /\ i \in 1 .. Len(argv)
        BY <1>2, <3>2
      <4> QED
        BY <1>1, <1>2, <1>3, <4>1 DEF FromRequest
    <3> QED
      BY <3>1, <3>2
  <2> QED
    BY <1>1, <1>2, <1>3, <2>1 DEF FromRequest
<1> QED
  BY <1>1, <1>2, <1>3 DEF Found, a

\* A step of the scanner.
LEMMA AdvanceTyped ==
  ASSUME TInv, More, Advance, state' \in 0 .. 2, start' \in 1 .. p + 1,
         argv' = argv \/ argv' = Append(argv, Token)
  PROVE  TInv'
<1>1. p' = p + 1 /\ UNCHANGED <<input, stage, lines, text, ran, fed, synced>>
  BY DEF Advance
<1>2. Texts'
  BY <1>1 DEF TInv, Texts
<1>3. p' \in 1 .. Len(text') + 1 /\ start' \in 1 .. p'
  BY <1>1 DEF TInv, Texts, More
<1>4. argv' \in Seq(Word) /\ (stage = "request" => FromRequest(argv'))
  BY FoundTyped DEF TInv
<1> QED
  BY <1>1, <1>2, <1>3, <1>4 DEF TInv, FromRequest

\* A text that is scanned from its start.
LEMMA ReceivesTyped ==
  ASSUME NEW s \in Seq(Chars), Len(s) <= MaxLength + 4, Ends(s) # {}, Receives(s)
  PROVE  /\ Len(Lines(s)) > 0
         /\ lines' = Tail(Lines(s)) /\ text' = Stripped(Lines(s)[1])
         /\ lines' \in Seq(Seq(Chars)) /\ \A i \in 1 .. Len(lines') : Len(lines'[i]) <= MaxLength + 4
         /\ text' \in Seq(Chars) /\ Len(text') <= MaxLength + 4 /\ Len(text') \in Nat
         /\ p' = 1 /\ state' = 0 /\ start' = 1 /\ argv' = Prefix
<1> DEFINE l == Lines(s)
<1>1. l \in Seq(Seq(Chars)) /\ (\A n \in 1 .. Len(l) : Len(l[n]) <= Len(s)) /\ Len(l) > 0
  BY LinesAre
<1>2. /\ lines' = Tail(l) /\ text' = Stripped(Head(l))
      /\ p' = 1 /\ state' = 0 /\ start' = 1 /\ argv' = Prefix
  BY DEF Receives, Scan
<1> HIDE DEF l
<1>3. /\ Len(l) \in Nat /\ Head(l) = l[1] /\ 1 \in 1 .. Len(l) /\ Tail(l) \in Seq(Seq(Chars))
      /\ Len(Tail(l)) = Len(l) - 1 /\ \A i \in 1 .. Len(Tail(l)) : Tail(l)[i] = l[i + 1] /\ i + 1 \in 1 .. Len(l)
  BY <1>1
<1>4. l[1] \in Seq(Chars) /\ Len(l[1]) <= Len(s) /\ Len(l[1]) \in Nat /\ Len(s) \in Nat /\ MaxLength \in Nat
  BY <1>1, <1>3, TokensAssumption
<1>5. /\ Stripped(l[1]) \in Seq(Chars) /\ Len(Stripped(l[1])) \in Nat
      /\ Len(Stripped(l[1])) <= Len(l[1])
  BY <1>4, StrippedIs
<1>6. ASSUME NEW i \in 1 .. Len(Tail(l)) PROVE Len(Tail(l)[i]) <= MaxLength + 4
  <2>1. Len(l[i + 1]) <= Len(s) /\ l[i + 1] \in Seq(Chars)
    BY <1>1, <1>3
  <2>2. Len(l[i + 1]) \in Nat
    BY <2>1
  <2> QED
    BY <1>3, <1>4, <2>1, <2>2
<1>7. Len(Stripped(l[1])) <= MaxLength + 4
  BY <1>4, <1>5
<1> QED
  BY <1>1, <1>2, <1>3, <1>5, <1>6, <1>7 DEF l

LEMMA NextLineTyped ==
  ASSUME TInv, lines # <<>>, Scan(Head(lines), FALSE), lines' = Tail(lines), input' = input
  PROVE  /\ Texts' /\ p' = 1 /\ state' = 0 /\ start' = 1 /\ argv' = <<>> /\ Len(text') \in Nat
<1>1. /\ text' = Stripped(Head(lines)) /\ p' = 1 /\ state' = 0 /\ start' = 1 /\ argv' = <<>>
  BY DEF Scan
<1>2. /\ lines \in Seq(Seq(Chars)) /\ lines # <<>> /\ \A i \in 1 .. Len(lines) : Len(lines[i]) <= MaxLength + 4
  BY DEF TInv, Texts
<1>3. /\ Len(lines) \in Nat /\ Head(lines) = lines[1] /\ 1 \in 1 .. Len(lines) /\ Tail(lines) \in Seq(Seq(Chars))
      /\ Len(Tail(lines)) = Len(lines) - 1
      /\ \A i \in 1 .. Len(Tail(lines)) : Tail(lines)[i] = lines[i + 1] /\ i + 1 \in 1 .. Len(lines)
  BY <1>2
<1>4. lines[1] \in Seq(Chars) /\ Len(lines[1]) \in Nat /\ MaxLength \in Nat
  BY <1>2, <1>3, TokensAssumption
<1>5. /\ Stripped(lines[1]) \in Seq(Chars) /\ Len(Stripped(lines[1])) \in Nat
      /\ Len(Stripped(lines[1])) <= Len(lines[1])
  BY <1>4, StrippedIs
<1>6. Len(Stripped(lines[1])) <= MaxLength + 4
  BY <1>2, <1>3, <1>4, <1>5
<1>7. \A i \in 1 .. Len(Tail(lines)) : Len(Tail(lines)[i]) <= MaxLength + 4
  BY <1>2, <1>3
<1> QED
  BY <1>1, <1>3, <1>5, <1>6, <1>7 DEF TInv, Texts

LEMMA CommandTyped ==
  ASSUME TInv, execute_command
  PROVE  TInv'
<1>1. /\ stage = "request" /\ ran' = Found /\ UNCHANGED <<input, fed, synced>>
  BY DEF execute_command, AtEnd
<1>2. Found \in Seq(Word) /\ FromRequest(Found)
  BY <1>1, FoundTyped
<1>3. CASE Len(Found) >= 3
  <2>1. stage' = "feed" /\ Receives(Terminated(input))
    BY <1>3 DEF execute_command
  <2>2. input \in Seq(Chars) /\ Len(input) <= MaxLength /\ Len(input) \in Nat /\ MaxLength \in Nat
    BY TokensAssumption DEF TInv, Texts
  <2>3. /\ Terminated(input) \in Seq(Chars) /\ Len(Terminated(input)) <= Len(input) + 2
        /\ Ends(Terminated(input)) # {}
    BY <2>2, TerminatedIs
  <2> DEFINE t == Terminated(input)
  <2> HIDE DEF t
  <2>4. t \in Seq(Chars) /\ Len(t) <= MaxLength + 4 /\ Ends(t) # {} /\ Receives(t)
    <3>1. t \in Seq(Chars) /\ Len(t) <= Len(input) + 2 /\ Len(t) \in Nat
      BY <2>3 DEF t
    <3>2. Len(t) <= MaxLength + 4
      BY <2>2, <3>1
    <3> QED
      BY <2>1, <2>3, <3>2 DEF t
  <2>5. /\ lines' \in Seq(Seq(Chars)) /\ \A i \in 1 .. Len(lines') : Len(lines'[i]) <= MaxLength + 4
        /\ text' \in Seq(Chars) /\ Len(text') <= MaxLength + 4 /\ Len(text') \in Nat
        /\ p' = 1 /\ state' = 0 /\ start' = 1 /\ argv' = Prefix
    BY <2>4, ReceivesTyped
  <2>6. Texts'
    BY <1>1, <2>2, <2>5 DEF Texts
  <2> QED
    BY <1>1, <1>2, <1>3, <2>1, <2>5, <2>6, PrefixIs DEF TInv
<1>4. CASE ~(Len(Found) >= 3)
  <2>1. stage' = "done" /\ UNCHANGED <<lines, text, p, state, start, argv>>
    BY <1>4 DEF execute_command
  <2> QED
    BY <1>1, <1>2, <2>1 DEF TInv, Texts
<1> QED
  BY <1>3, <1>4

\* The handler of a SET gets its value.
LEMMA ValueTyped ==
  ASSUME FromRequest(ran), Len(ran) >= 3, ran \in Seq(Word)
  PROVE  ran[3] \in Seq(Chars) /\ Len(ran[3]) <= MaxLength /\ Len(ran[3]) \in Nat
<1>1. 3 \in 3 .. Len(ran)
  OBVIOUS
<1> QED
  BY <1>1 DEF FromRequest

LEMMA FedTyped ==
  ASSUME TInv, execute_fed
  PROVE  TInv'
<1>1. /\ stage = "feed" /\ UNCHANGED <<input, ran, synced>>
      /\ fed' = IF Found = <<>> THEN fed ELSE Append(fed, Found)
      /\ NextLine(stage' = "sync" /\ Receives(Quoted(ran[3]) \o CRLF))
  BY DEF execute_fed, AtEnd
<1>2. Found \in Seq(Word) /\ fed \in Seq(Seq(Word))
  BY FoundTyped DEF TInv
<1>3. fed' \in Seq(Seq(Word))
  BY <1>1, <1>2, AppendIs
<1>4. CASE lines # <<>>
  <2>1. Scan(Head(lines), FALSE) /\ lines' = Tail(lines) /\ stage' = stage
    BY <1>1, <1>4 DEF NextLine
  <2>2. Texts' /\ p' = 1 /\ state' = 0 /\ start' = 1 /\ argv' = <<>> /\ Len(text') \in Nat
    BY <1>1, <1>4, <2>1, NextLineTyped
  <2>3. <<>> \in Seq(Word)
    OBVIOUS
  <2> QED
    BY <1>1, <1>3, <2>1, <2>2, <2>3 DEF TInv, FromRequest
<1>5. CASE lines = <<>>
  <2>1. stage' = "sync" /\ Receives(Quoted(ran[3]) \o CRLF)
    BY <1>1, <1>5 DEF NextLine
  <2>2. PICK v \in Seq(Chars) : v = ran[3] /\ Len(v) <= MaxLength /\ Len(v) \in Nat
    BY <1>1, ValueTyped DEF TInv
  <2>3. PICK q \in Seq(Chars) : q = Quoted(v) /\ Len(q) <= Len(v) + 2 /\ Len(q) \in Nat
    BY <2>2, QuotedIs
  <2>4. PICK t \in Seq(Chars) : t = q \o CRLF /\ Len(t) = Len(q) + 2 /\ Ends(t) = Ends(q) \cup {Len(q) + 1}
    BY EndAdded
  <2>5. t \in Seq(Chars) /\ Len(t) <= MaxLength + 4 /\ Ends(t) # {} /\ Receives(t)
    <3>1. Len(t) <= MaxLength + 4
      BY <2>2, <2>3, <2>4, TokensAssumption
    <3>2. Receives(t)
      BY <2>1, <2>2, <2>3, <2>4
    <3> QED
      BY <2>4, <3>1, <3>2
  <2>6. /\ lines' \in Seq(Seq(Chars)) /\ \A i \in 1 .. Len(lines') : Len(lines'[i]) <= MaxLength + 4
        /\ text' \in Seq(Chars) /\ Len(text') <= MaxLength + 4 /\ Len(text') \in Nat
        /\ p' = 1 /\ state' = 0 /\ start' = 1 /\ argv' = Prefix
    BY <2>5, ReceivesTyped
  <2>7. Texts'
    BY <1>1, <2>6 DEF TInv, Texts
  <2> QED
    BY <1>1, <1>3, <2>1, <2>6, <2>7, PrefixIs DEF TInv
<1> QED
  BY <1>4, <1>5

LEMMA SyncedTyped ==
  ASSUME TInv, execute_synced
  PROVE  TInv'
<1>1. /\ stage = "sync" /\ UNCHANGED <<input, ran, fed>>
      /\ synced' = IF Found = <<>> THEN synced ELSE Append(synced, Found)
      /\ NextLine(stage' = "done" /\ UNCHANGED <<lines, text, p, state, start, argv>>)
  BY DEF execute_synced, AtEnd
<1>2. Found \in Seq(Word) /\ synced \in Seq(Seq(Word))
  BY FoundTyped DEF TInv
<1>3. synced' \in Seq(Seq(Word))
  BY <1>1, <1>2, AppendIs
<1>4. CASE lines # <<>>
  <2>1. Scan(Head(lines), FALSE) /\ lines' = Tail(lines) /\ stage' = stage
    BY <1>1, <1>4 DEF NextLine
  <2>2. Texts' /\ p' = 1 /\ state' = 0 /\ start' = 1 /\ argv' = <<>> /\ Len(text') \in Nat
    BY <1>1, <1>4, <2>1, NextLineTyped
  <2>3. <<>> \in Seq(Word)
    OBVIOUS
  <2> QED
    BY <1>1, <1>3, <2>1, <2>2, <2>3 DEF TInv
<1>5. CASE lines = <<>>
  <2>1. stage' = "done" /\ UNCHANGED <<lines, text, p, state, start, argv>>
    BY <1>1, <1>5 DEF NextLine
  <2> QED
    BY <1>1, <1>3, <2>1 DEF TInv, Texts
<1> QED
  BY <1>4, <1>5

LEMMA InitTInv == Init => TInv
<1> SUFFICES ASSUME Init PROVE TInv
  OBVIOUS
<1>1. PICK n \in 0 .. MaxLength : input \in [1 .. n -> Chars]
  BY DEF Init
<1>2. input \in Seq(Chars) /\ Len(input) = n /\ n <= MaxLength /\ n \in Nat
  BY <1>1, TokensAssumption
<1>3. /\ Stripped(input) \in Seq(Chars) /\ Len(Stripped(input)) \in Nat /\ Len(Stripped(input)) <= Len(input)
  BY <1>2, StrippedIs
<1>4. text = Stripped(input)
  BY DEF Init
<1>5. <<>> \in Seq(Seq(Chars)) /\ <<>> \in Seq(Word) /\ <<>> \in Seq(Seq(Word)) /\ Len(<<>>) = 0
  OBVIOUS
<1>6. Texts
  BY <1>2, <1>3, <1>4, <1>5, TokensAssumption DEF Texts, Init
<1>7. FromRequest(Prefix)
  BY PrefixIs DEF FromRequest
<1> QED
  BY <1>3, <1>4, <1>5, <1>6, <1>7, PrefixIs DEF Init, TInv

LEMMA StepTInv == TInv /\ [Next]_vars => TInv'
<1> SUFFICES ASSUME TInv, [Next]_vars PROVE TInv'
  OBVIOUS
<1>1. p \in Nat /\ start \in 1 .. p /\ start \in 1 .. p + 1 /\ p \in 1 .. p + 1 /\ p + 1 \in 1 .. p + 1
  BY DEF TInv
<1>2. CASE skip_spaces
  BY <1>1, <1>2, AdvanceTyped DEF skip_spaces, First
<1>3. CASE in_token
  BY <1>1, <1>3, AdvanceTyped DEF in_token
<1>4. CASE in_quoted_token
  BY <1>1, <1>4, AdvanceTyped DEF in_quoted_token
<1>5. CASE UNCHANGED vars
  BY <1>5 DEF vars, TInv, Texts, FromRequest
<1> QED
  BY <1>2, <1>3, <1>4, <1>5, CommandTyped, FedTyped, SyncedTyped DEF Next

LEMMA TypesInvariance == Spec => []TInv
<1> QED
  BY InitTInv, StepTInv, PTL DEF Spec

\* What the invariant says of each list is what TypeOK says of its range.
LEMMA TypesMean == TInv => TypeOK
<1> SUFFICES ASSUME TInv PROVE TypeOK
  OBVIOUS
<1>1. ASSUME NEW s \in {input, text} \cup Range(lines)
      PROVE  Range(s) \subseteq Chars /\ Len(s) <= MaxLength + 4
  <2>1. s \in Seq(Chars) /\ Len(s) <= MaxLength + 4
    <3>1. Len(input) <= MaxLength + 4
      BY TokensAssumption DEF TInv, Texts
    <3>2. \A i \in DOMAIN lines : lines[i] \in Seq(Chars) /\ Len(lines[i]) <= MaxLength + 4
      <4>1. lines \in Seq(Seq(Chars)) /\ \A i \in 1 .. Len(lines) : Len(lines[i]) <= MaxLength + 4
        BY DEF TInv, Texts
      <4>2. DOMAIN lines = 1 .. Len(lines)
        BY <4>1
      <4>3. \A i \in 1 .. Len(lines) : lines[i] \in Seq(Chars)
        BY <4>1
      <4> QED
        BY <4>1, <4>2, <4>3
    <3> QED
      BY <3>1, <3>2 DEF TInv, Texts, Range
  <2> QED
    BY <2>1 DEF Range
<1>2. ASSUME NEW words \in {argv, ran} \cup Range(fed) \cup Range(synced), NEW t \in Range(words)
      PROVE  Range(t) \subseteq Chars \cup {"SET", "k"}
  <2>1. words \in Seq(Word)
    <3>1. \A i \in DOMAIN fed : fed[i] \in Seq(Word)
      BY DEF TInv
    <3>2. \A i \in DOMAIN synced : synced[i] \in Seq(Word)
      BY DEF TInv
    <3> QED
      BY <3>1, <3>2 DEF TInv, Range
  <2>2. t \in Seq(Chars \cup {"SET", "k"})
    BY <1>2, <2>1 DEF Range, Word
  <2> QED
    BY <2>2 DEF Range
<1>3. start \in 1 .. Len(text) + 1 /\ start <= p
  BY DEF TInv, Texts
<1> QED
  BY <1>1, <1>2, <1>3 DEF TInv, TypeOK

\* tokenize_command never reads outside its text nor behind the token it is in, and
\* what its strdup copies are parts of the text, for texts of any length.
THEOREM TypeCorrect == Spec => []TypeOK
<1> QED
  BY TypesMean, TypesInvariance, PTL

-----------------------------------------------------------------------------
(* What is quoted                                                          *)

\* The request begins with a quoted value, whose closing quote is at n.
Quotes(n) == input[1] = "quote" /\ input[n] = "quote" /\ Quotable(SubSeq(input, 2, n - 1))
Value(n) == SubSeq(input, 2, n - 1)

\* Before the closing quote the scanner is inside, behind it the value is found.
Within(n) ==
  /\ p = 1 => state = 0 /\ argv = Prefix
  /\ p \in 2 .. n => state = 2 /\ start = 2 /\ argv = Prefix
  /\ p > n => Len(argv) >= 3 /\ argv[3] = Value(n)

QInv ==
  /\ TInv
  /\ \A n \in 2 .. Len(input) : Quotes(n) =>
       /\ stage = "request" => Within(n)
       /\ ran # <<>> => ran[3] = Value(n)

\* The closing quote is not removed with the end of the line.
LEMMA QuotesInText ==
  ASSUME TInv, stage = "request", NEW n \in 2 .. Len(input), Quotes(n)
  PROVE  /\ n <= Len(text) /\ text[1] = "quote" /\ text[n] = "quote"
         /\ Value(n) = SubSeq(text, 2, n - 1)
         /\ \A i \in 2 .. n - 1 : text[i] = "quote" => text[i - 1] = "backslash"
         /\ text[n - 1] # "backslash"
<1>1. /\ input \in Seq(Chars) /\ Len(input) \in Nat /\ text = Stripped(input)
  BY DEF TInv, Texts
<1>2. /\ text \in Seq(Chars) /\ Len(text) \in Nat /\ Len(text) <= Len(input)
      /\ \A i \in 1 .. Len(text) : text[i] = input[i]
      /\ \A i \in Len(text) + 1 .. Len(input) : input[i] \in {"cr", "lf"}
  BY <1>1, StrippedIs
<1>3. n <= Len(text)
  <2>1. input[n] = "quote"
    BY DEF Quotes
  <2>2. n > Len(text) => n \in Len(text) + 1 .. Len(input)
    BY <1>1, <1>2
  <2> QED
    BY <1>2, <2>1, <2>2
<1>4. PICK m \in Nat, w \in Seq(Chars) :
        /\ m = n - 1 /\ m >= 1 /\ m <= Len(text) /\ m <= Len(input)
        /\ w = SubSeq(input, 2, m) /\ Len(w) = n - 2
        /\ \A i \in 1 .. n - 2 : w[i] = input[2 + i - 1]
  <2>1. PICK m \in Nat : m = n - 1 /\ m >= 1 /\ m <= Len(text) /\ m <= Len(input)
    BY <1>1, <1>2, <1>3
  <2>2. /\ SubSeq(input, 2, m) \in Seq(Chars)
        /\ Len(SubSeq(input, 2, m)) = IF 2 <= m THEN m - 2 + 1 ELSE 0
        /\ \A i \in 1 .. Len(SubSeq(input, 2, m)) : SubSeq(input, 2, m)[i] = input[2 + i - 1]
    BY <1>1, <2>1, PartIs
  <2>3. Len(SubSeq(input, 2, m)) = n - 2
    BY <2>1, <2>2
  <2> QED
    BY <2>1, <2>2, <2>3
<1>5. Value(n) = w
  BY <1>4, Zenon DEF Value
<1>6. SubSeq(text, 2, m) = w
  <2>1. /\ SubSeq(text, 2, m) \in Seq(Chars)
        /\ Len(SubSeq(text, 2, m)) = IF 2 <= m THEN m - 2 + 1 ELSE 0
        /\ \A i \in 1 .. Len(SubSeq(text, 2, m)) : SubSeq(text, 2, m)[i] = text[2 + i - 1]
    BY <1>2, <1>4, PartIs
  <2> DEFINE u == SubSeq(text, 2, m)
  <2> HIDE DEF u
  <2>2. u \in Seq(Chars) /\ Len(u) = n - 2 /\ \A i \in 1 .. n - 2 : u[i] = text[2 + i - 1]
    BY <1>4, <2>1 DEF u
  <2>3. \A i \in 1 .. n - 2 : 2 + i - 1 \in 1 .. Len(text)
    BY <1>2, <1>3
  <2>4. \A i \in 1 .. n - 2 : u[i] = w[i]
    BY <1>2, <1>4, <2>2, <2>3
  <2>5. Len(u) = Len(w)
    BY <1>4, <2>2
  <2>6. u = w
    BY <1>4, <2>2, <2>4, <2>5, SeqEqual
  <2> QED
    BY <2>6 DEF u
<1>7. SubSeq(text, 2, n - 1) = Value(n)
  BY <1>4, <1>5, <1>6, Zenon
<1>8. Quotable(w)
  BY <1>5, Zenon DEF Quotes, Value
<1>9. \A i \in 1 .. n - 2 : w[i] = text[i + 1]
  <2>1. \A i \in 1 .. n - 2 : 2 + i - 1 = i + 1 /\ i + 1 \in 1 .. Len(text)
    BY <1>2, <1>3
  <2> QED
    BY <1>2, <1>4, <2>1
<1>10. text[1] = "quote" /\ text[n] = "quote"
  <2>1. 1 \in 1 .. Len(text) /\ n \in 1 .. Len(text)
    BY <1>2, <1>3
  <2> QED
    BY <1>2, <2>1 DEF Quotes
<1>11. ASSUME NEW i \in 2 .. n - 1, text[i] = "quote" PROVE text[i - 1] = "backslash"
  <2>1. i - 1 \in 1 .. n - 2 /\ (i - 1) + 1 = i
    OBVIOUS
  <2>2. w[i - 1] = "quote"
    BY <1>9, <1>11, <2>1
  <2>3. i - 1 \in 1 .. Len(w)
    BY <1>4, <2>1
  <2>4. i - 1 > 1 /\ w[(i - 1) - 1] = "backslash"
    BY <1>8, <2>2, <2>3 DEF Quotable
  <2>5. (i - 1) - 1 \in 1 .. n - 2 /\ ((i - 1) - 1) + 1 = i - 1
    BY <2>4
  <2> QED
    BY <1>9, <2>4, <2>5
<1>12. text[n - 1] # "backslash"
  <2>1. CASE n = 2
    BY <1>10, <2>1
  <2>2. CASE n # 2
    <3>1. Len(w) = n - 2 /\ n - 2 \in 1 .. n - 2 /\ (n - 2) + 1 = n - 1 /\ Len(w) # 0
      BY <1>4, <2>2
    <3>2. w # <<>>
      BY <3>1
    <3>3. w[n - 2] # "backslash"
      BY <1>8, <3>1, <3>2 DEF Quotable
    <3> QED
      BY <1>9, <3>1, <3>3
  <2> QED
    BY <2>1, <2>2
<1> QED
  BY <1>3, <1>7, <1>10, <1>11, <1>12

\* A step of the scanner in the request, with the value quoted up to n.
LEMMA WithinStep ==
  ASSUME TInv, stage = "request", NEW n \in 2 .. Len(input), Quotes(n), Within(n),
         skip_spaces \/ in_token \/ in_quoted_token
  PROVE  Within(n)'
<1>1. /\ n <= Len(text) /\ text[1] = "quote" /\ text[n] = "quote"
      /\ Value(n) = SubSeq(text, 2, n - 1)
      /\ \A i \in 2 .. n - 1 : text[i] = "quote" => text[i - 1] = "backslash"
      /\ text[n - 1] # "backslash"
  BY QuotesInText
<1>2. p \in Nat /\ p >= 1 /\ argv \in Seq(Word) /\ Token \in Word /\ n \in Nat /\ n >= 2
  BY TokenTyped DEF TInv
<1>3. p' = p + 1 /\ UNCHANGED <<input, text>>
  BY DEF skip_spaces, in_token, in_quoted_token, Advance
<1>4. Value(n)' = Value(n)
  BY <1>3 DEF Value
<1>5. CASE p = 1
  <2>1. state = 0 /\ argv = Prefix /\ c = "quote"
    BY <1>1, <1>5 DEF Within, c
  <2>2. skip_spaces
    BY <2>1 DEF in_token, in_quoted_token
  <2>3. state' = 2 /\ start' = 2 /\ argv' = Prefix
    BY <1>5, <2>1, <2>2 DEF skip_spaces, IsSpace, First
  <2> QED
    BY <1>2, <1>3, <1>5, <2>3 DEF Within
<1>6. CASE p \in 2 .. n
  <2>1. state = 2 /\ start = 2 /\ argv = Prefix
    BY <1>6 DEF Within
  <2>2. in_quoted_token
    BY <2>1 DEF skip_spaces, in_token
  <2>3. CASE p = n
    <3>1. ClosesQuote
      BY <1>1, <2>3 DEF ClosesQuote, c
    <3>2. Token = Value(n)
      BY <1>1, <2>1, <2>3, Zenon DEF Token
    <3>3. argv' = Append(argv, Token)
      BY <2>2, <3>1 DEF in_quoted_token
    <3>4. Len(argv') = 3 /\ argv'[3] = Token
      <4> HIDE DEF Token
      <4>1. Len(argv) = 2
        BY <2>1, PrefixIs
      <4>2. Len(Append(argv, Token)) = Len(argv) + 1 /\ Append(argv, Token)[Len(argv) + 1] = Token
        BY <1>2, AppendIs
      <4>3. Len(argv) + 1 = 3
        BY <4>1
      <4> QED
        BY <3>3, <4>2, <4>3, Zenon
    <3> QED
      BY <1>2, <1>3, <1>4, <2>3, <3>2, <3>4 DEF Within
  <2>4. CASE p # n
    <3>1. p \in 2 .. n - 1
      BY <1>6, <2>4
    <3>2. ~ClosesQuote
      BY <1>1, <3>1 DEF ClosesQuote, c
    <3>3. state' = 2 /\ start' = 2 /\ argv' = Prefix
      BY <2>1, <2>2, <3>2 DEF in_quoted_token
    <3> QED
      BY <1>2, <1>3, <3>1, <3>3 DEF Within
  <2> QED
    BY <2>3, <2>4
<1>7. CASE p > n
  <2>1. Len(argv) >= 3 /\ argv[3] = Value(n)
    BY <1>7 DEF Within
  <2>2. argv' = argv \/ argv' = Append(argv, Token)
    BY DEF skip_spaces, in_token, in_quoted_token
  <2>3. Len(argv') >= 3 /\ argv'[3] = Value(n)
    <3> DEFINE a == Append(argv, Token)
    <3>1. Len(a) = Len(argv) + 1 /\ Len(argv) \in Nat /\ \A i \in 1 .. Len(argv) : a[i] = argv[i]
      <4> HIDE DEF Token
      <4> QED
        BY <1>2, AppendIs
    <3> HIDE DEF a
    <3>2. 3 \in 1 .. Len(argv)
      BY <2>1, <3>1
    <3> QED
      BY <2>1, <2>2, <3>1, <3>2 DEF a
  <2> QED
    BY <1>2, <1>3, <1>4, <1>7, <2>3 DEF Within
<1> QED
  BY <1>2, <1>5, <1>6, <1>7

LEMMA InitQInv == Init => QInv
<1> SUFFICES ASSUME Init PROVE QInv
  OBVIOUS
<1>1. \A n \in 2 .. Len(input) : Within(n)
  BY DEF Init, Within
<1> QED
  BY <1>1, InitTInv DEF Init, QInv

LEMMA StepQInv == QInv /\ [Next]_vars => QInv'
<1> SUFFICES ASSUME QInv, [Next]_vars PROVE QInv'
  OBVIOUS
<1>1. TInv /\ TInv'
  BY StepTInv DEF QInv
<1>2. input' = input
  BY DEF Next, vars, skip_spaces, in_token, in_quoted_token, Advance, execute_command, execute_fed, execute_synced
<1> SUFFICES ASSUME NEW n \in 2 .. Len(input), Quotes(n)
             PROVE  /\ stage' = "request" => Within(n)'
                    /\ ran' # <<>> => ran'[3] = Value(n)
  BY <1>1, <1>2 DEF QInv, Quotes, Value
<1>3. /\ stage = "request" => Within(n)
      /\ ran # <<>> => ran[3] = Value(n)
  BY DEF QInv
<1>4. CASE skip_spaces \/ in_token \/ in_quoted_token
  <2>1. stage' = stage /\ ran' = ran
    BY <1>4 DEF skip_spaces, in_token, in_quoted_token, Advance
  <2> QED
    BY <1>1, <1>3, <1>4, <2>1, WithinStep
<1>5. CASE execute_command
  <2>1. stage = "request" /\ p > Len(text) /\ ran' = Found /\ stage' # "request"
    BY <1>5 DEF execute_command, AtEnd
  <2>2. n <= Len(text)
    BY <1>1, <2>1, QuotesInText
  <2>3. p \in Nat /\ Len(text) \in Nat /\ n \in Nat /\ argv \in Seq(Word) /\ Token \in Word
    BY <1>1, TokenTyped DEF TInv, Texts
  <2>4. Len(argv) >= 3 /\ argv[3] = Value(n)
    <3>1. p > n
      BY <2>1, <2>2, <2>3
    <3> QED
      BY <1>3, <2>1, <3>1 DEF Within
  <2>5. Found[3] = argv[3]
    <3> DEFINE a == Append(argv, Token)
    <3>1. Len(argv) \in Nat /\ \A i \in 1 .. Len(argv) : a[i] = argv[i]
      <4> HIDE DEF Token
      <4> QED
        BY <2>3, AppendIs
    <3>2. Found = a \/ Found = argv
      BY DEF Found
    <3> HIDE DEF a
    <3>3. 3 \in 1 .. Len(argv)
      BY <2>4, <3>1
    <3> QED
      BY <3>1, <3>2, <3>3
  <2> QED
    BY <2>1, <2>4, <2>5
<1>6. CASE execute_fed \/ execute_synced
  <2>1. ran' = ran /\ stage' # "request"
    BY <1>6 DEF execute_fed, execute_synced, AtEnd, NextLine
  <2> QED
    BY <1>3, <2>1
<1>7. CASE UNCHANGED vars
  BY <1>3, <1>7 DEF vars, Within, Value
<1> QED
  BY <1>4, <1>5, <1>6, <1>7 DEF Next

\* A value in quotes reaches the handler of SET as it is, whatever spaces, ends of
\* lines and quotes behind a backslash it has and however long it is (the state of
\* tokenize_command that scans a quoted token).
THEOREM QuotesKept == Spec => []QuotedKept
<1>1. QInv => QuotedKept
  BY DEF QInv, QuotedKept, Quotes, Value
<1>2. Spec => []QInv
  BY InitQInv, StepQInv, PTL DEF Spec
<1> QED
  BY <1>1, <1>2, PTL

-----------------------------------------------------------------------------
(* What is not quoted                                                      *)

\* The tokens found so far are the prefix and the first words of the request.
Listed(words) ==
  /\ Len(words) >= 2 /\ words[1] = Prefix[1] /\ words[2] = Prefix[2]
  /\ \A i \in 3 .. Len(words) : words[i] = WordFrom(input, Nth(WordStarts(input), i - 2))

\* How many words have started before the scanner's next character.
Begun == Cardinality(UpTo(WordStarts(input), p - 1))

Splits ==
  /\ Listed(argv)
  /\ state = 0 => Len(argv) = 2 + Begun /\ ~Inside(input, p - 1)
  /\ state = 1 => /\ Len(argv) = 1 + Begun
                  /\ start \in WordStarts(input) /\ start < p
                  /\ \A j \in start .. p - 1 : Inside(input, j)
  /\ state # 2

WInv ==
  /\ TInv
  /\ ~Has(input, "quote") =>
       /\ stage = "request" => Splits
       /\ ran # <<>> => ran = Prefix \o Words(input)

LEMMA PartSame ==
  ASSUME NEW s \in Seq(Chars), NEW t \in Seq(Chars), NEW m \in Nat \ {0}, NEW n \in Nat,
         n <= Len(s), n <= Len(t), \A i \in 1 .. n : s[i] = t[i]
  PROVE  SubSeq(s, m, n) = SubSeq(t, m, n)
<1> DEFINE u == SubSeq(s, m, n)
           v == SubSeq(t, m, n)
<1>1. /\ u \in Seq(Chars) /\ Len(u) = IF m <= n THEN n - m + 1 ELSE 0
      /\ \A i \in 1 .. Len(u) : u[i] = s[m + i - 1]
  BY PartIs
<1>2. /\ v \in Seq(Chars) /\ Len(v) = IF m <= n THEN n - m + 1 ELSE 0
      /\ \A i \in 1 .. Len(v) : v[i] = t[m + i - 1]
  BY PartIs
<1> HIDE DEF u, v
<1>3. \A i \in 1 .. Len(u) : m + i - 1 \in 1 .. n
  BY <1>1
<1>4. Len(u) = Len(v) /\ \A i \in 1 .. Len(u) : u[i] = v[i]
  BY <1>1, <1>2, <1>3
<1>5. u = v
  BY <1>1, <1>2, <1>4, SeqEqual
<1> QED
  BY <1>5 DEF u, v

\* The words start at numbers, finitely many.
LEMMA StartsAre ==
  ASSUME NEW s \in Seq(Chars)
  PROVE  /\ WordStarts(s) \subseteq 1 .. Len(s) /\ WordStarts(s) \subseteq Nat /\ IsFiniteSet(WordStarts(s))
         /\ Cardinality(WordStarts(s)) \in Nat
<1>1. WordStarts(s) \in SUBSET (1 .. Len(s)) /\ Len(s) \in Nat
  BY DEF WordStarts
<1>2. IsFiniteSet(1 .. Len(s))
  <2> DEFINE n == Len(s)
  <2>1. n \in Int /\ 1 \in Int
    BY <1>1
  <2> HIDE DEF n
  <2> QED
    BY <2>1, FS_Interval DEF n
<1>3. IsFiniteSet(WordStarts(s))
  BY <1>1, <1>2, FS_Subset
<1>4. WordStarts(s) \subseteq Nat
  BY <1>1
<1> QED
  BY <1>1, <1>3, <1>4, FS_CardinalityType

\* What the scanner sees of a request is what is inside its words.
LEMMA RequestIs ==
  ASSUME TInv, stage = "request"
  PROVE  /\ input \in Seq(Chars) /\ text \in Seq(Chars) /\ Len(text) \in Nat /\ Len(input) \in Nat
         /\ Len(text) <= Len(input)
         /\ \A i \in 1 .. Len(text) : text[i] = input[i] /\ i \in 1 .. Len(input)
         /\ \A i : Inside(input, i) <=> i \in 1 .. Len(text) /\ ~IsSpace(text[i])
<1>1. /\ input \in Seq(Chars) /\ Len(input) \in Nat /\ text = Stripped(input)
  BY DEF TInv, Texts
<1>2. /\ text \in Seq(Chars) /\ Len(text) \in Nat /\ Len(text) <= Len(input)
      /\ \A i \in 1 .. Len(text) : text[i] = input[i]
      /\ \A i \in Len(text) + 1 .. Len(input) : input[i] \in {"cr", "lf"}
  BY <1>1, StrippedIs
<1>3. \A i \in 1 .. Len(text) : i \in 1 .. Len(input)
  BY <1>1, <1>2
<1>4. ASSUME NEW i \in 1 .. Len(input), i \notin 1 .. Len(text) PROVE ~Inside(input, i)
  <2>1. i \in Len(text) + 1 .. Len(input)
    BY <1>1, <1>2, <1>4
  <2> QED
    BY <1>2, <2>1 DEF Inside, IsSpace
<1>5. ASSUME NEW i \in 1 .. Len(text) PROVE Inside(input, i) <=> ~IsSpace(text[i])
  BY <1>2, <1>3, <1>5 DEF Inside
<1>6. \A i : Inside(input, i) => i \in 1 .. Len(input)
  BY DEF Inside
<1> QED
  BY <1>1, <1>2, <1>3, <1>4, <1>5, <1>6

\* A word that is over is the token the scanner was in, and the next one to list.
LEMMA WordOver ==
  ASSUME TInv, stage = "request", Splits, state = 1, ~Inside(input, p)
  PROVE  /\ Listed(Append(argv, Token)) /\ Len(Append(argv, Token)) = 2 + Begun
         /\ Append(argv, Token) \in Seq(Word)
<1> DEFINE S == WordStarts(input)
<1>1. /\ input \in Seq(Chars) /\ text \in Seq(Chars) /\ Len(text) \in Nat /\ Len(input) \in Nat
      /\ Len(text) <= Len(input) /\ \A i \in 1 .. Len(text) : text[i] = input[i]
  BY RequestIs
<1>2. S \subseteq 1 .. Len(input) /\ S \subseteq Nat /\ IsFiniteSet(S)
  BY <1>1, StartsAre
<1>3. /\ p \in 1 .. Len(text) + 1 /\ p \in Nat /\ start \in S /\ start \in Nat \ {0} /\ start < p
      /\ start \in 1 .. Len(input) /\ Len(argv) = 1 + Begun /\ Listed(argv)
      /\ \A j \in start .. p - 1 : Inside(input, j)
  BY <1>1, <1>2 DEF Splits, TInv
<1>4. \A i \in S : ~Inside(input, i - 1)
  BY DEF WordStarts
<1>5. UpTo(S, p - 1) = UpTo(S, start)
  <2>1. ASSUME NEW i \in S PROVE i <= p - 1 <=> i <= start
    <3>1. i \in Nat
      BY <1>2
    <3>2. start < i /\ i <= p - 1 => i - 1 \in start .. p - 1
      BY <1>3, <3>1
    <3> QED
      BY <1>3, <1>4, <3>1, <3>2
  <2> QED
    BY <2>1 DEF UpTo
<1>6. Nth(S, Begun) = start
  BY <1>2, <1>3, <1>5, NthIs DEF Begun
<1>7. PICK n \in Nat : n = p - 1 /\ n <= Len(text) /\ n <= Len(input)
  BY <1>1, <1>3
<1>8. Token = WordFrom(input, start)
  <2> DEFINE T == {j \in start .. Len(input) : ~Inside(input, j + 1)}
  <2>1. n \in T
    BY <1>1, <1>3, <1>7
  <2>2. \A j \in T : n <= j
    <3>1. ASSUME NEW j \in T, j < n PROVE FALSE
      <4>1. j + 1 \in start .. p - 1
        BY <1>1, <1>3, <1>7, <3>1
      <4> QED
        BY <1>3, <4>1
    <3>2. \A j \in T : j \in Int
      BY <1>3
    <3> QED
      BY <1>7, <3>1, <3>2
  <2>3. T \subseteq Nat
    BY <1>1, <1>3
  <2> HIDE DEF T
  <2>4. Min(T) \in T /\ \A m \in T : Min(T) <= m
    BY <2>1, <2>3, MinIs
  <2>5. Min(T) = n
    <3>1. Min(T) <= n /\ n <= Min(T) /\ Min(T) \in Nat
      BY <2>1, <2>2, <2>3, <2>4
    <3> QED
      BY <1>7, <3>1
  <2>6. SubSeq(text, start, n) = SubSeq(input, start, n)
    <3>1. \A i \in 1 .. n : text[i] = input[i]
      BY <1>1, <1>7
    <3> QED
      BY <1>1, <1>3, <1>7, <3>1, PartSame
  <2>7. Token = SubSeq(text, start, n)
    BY <1>7, Zenon DEF Token
  <2>8. WordFrom(input, start) = SubSeq(input, start, n)
    BY <2>5, Zenon DEF WordFrom, T
  <2> QED
    BY <2>6, <2>7, <2>8, Zenon
<1>9. argv \in Seq(Word) /\ Token \in Word
  BY TokenTyped DEF TInv
<1> DEFINE a == Append(argv, Token)
<1> HIDE DEF Token
<1>10. /\ a \in Seq(Word) /\ Len(a) = Len(argv) + 1 /\ Len(argv) \in Nat
       /\ \A i \in 1 .. Len(argv) : a[i] = argv[i]
       /\ a[Len(argv) + 1] = Token
  BY <1>9, AppendIs
<1> HIDE DEF a
<1>11. Begun \in Nat
  BY <1>2, UpToIs DEF Begun
<1>12. Len(a) = 2 + Begun
  BY <1>3, <1>10, <1>11
<1>13. ASSUME NEW i \in 3 .. Len(a)
       PROVE  a[i] = WordFrom(input, Nth(S, i - 2))
  <2>1. CASE i = Len(argv) + 1
    <3>1. i - 2 = Begun
      BY <1>3, <1>11, <2>1
    <3> HIDE DEF S
    <3>2. a[i] = Token
      BY <1>10, <2>1
    <3>3. Nth(S, i - 2) = start
      BY <1>6, <3>1
    <3> QED
      BY <1>8, <3>2, <3>3
  <2>2. CASE i # Len(argv) + 1
    <3>1. i \in 3 .. Len(argv) /\ i \in 1 .. Len(argv)
      BY <1>10, <2>2
    <3> QED
      BY <1>3, <1>10, <3>1 DEF Listed
  <2> QED
    BY <2>1, <2>2
<1>14. Len(a) >= 2 /\ a[1] = Prefix[1] /\ a[2] = Prefix[2]
  <2>1. Len(argv) >= 2 /\ argv[1] = Prefix[1] /\ argv[2] = Prefix[2]
    BY <1>3 DEF Listed
  <2>2. 1 \in 1 .. Len(argv) /\ 2 \in 1 .. Len(argv)
    BY <1>10, <2>1
  <2> QED
    BY <1>10, <2>1, <2>2
<1> QED
  BY <1>10, <1>12, <1>13, <1>14 DEF Listed, a

\* A step of the scanner in a request without quotes.
LEMMA SplitsStep ==
  ASSUME TInv, stage = "request", Splits, ~Has(input, "quote"),
         skip_spaces \/ in_token \/ in_quoted_token
  PROVE  Splits'
<1> DEFINE S == WordStarts(input)
<1>1. /\ input \in Seq(Chars) /\ text \in Seq(Chars) /\ Len(text) \in Nat /\ Len(input) \in Nat
      /\ Len(text) <= Len(input)
      /\ \A i \in 1 .. Len(text) : text[i] = input[i] /\ i \in 1 .. Len(input)
      /\ \A i : Inside(input, i) <=> i \in 1 .. Len(text) /\ ~IsSpace(text[i])
  BY RequestIs
<1>2. S \subseteq 1 .. Len(input) /\ S \subseteq Nat /\ IsFiniteSet(S)
  BY <1>1, StartsAre
<1>3. p' = p + 1 /\ p \in Nat \ {0} /\ p \in 1 .. Len(text) /\ UNCHANGED <<input, text>>
  BY <1>1 DEF skip_spaces, in_token, in_quoted_token, Advance, More, TInv
<1>4. c # "quote" /\ (Inside(input, p) <=> ~IsSpace(c)) /\ p \in 1 .. Len(input)
  BY <1>1, <1>3 DEF c, Has
<1>5. p \in S <=> Inside(input, p) /\ ~Inside(input, p - 1)
  BY <1>4 DEF WordStarts
<1>6. Begun \in Nat /\ Begun' = Cardinality(UpTo(S, p)) /\ p' - 1 = p
  <2>1. p' - 1 = p
    BY <1>3
  <2> QED
    BY <1>2, <1>3, <2>1, UpToIs DEF Begun
<1>7. p \notin S => Begun' = Begun
  <2>1. ASSUME p \notin S PROVE UpTo(S, p) = UpTo(S, p - 1)
    <3>1. \A i \in S : i <= p <=> i <= p - 1
      BY <1>2, <1>3, <2>1
    <3> QED
      BY <3>1 DEF UpTo
  <2> QED
    BY <1>6, <2>1 DEF Begun
<1>8. p \in S => Begun' = Begun + 1
  <2>1. ASSUME p \in S PROVE UpTo(S, p) = UpTo(S, p - 1) \cup {p} /\ p \notin UpTo(S, p - 1)
    <3>1. \A i \in S : i <= p <=> i <= p - 1 \/ i = p
      BY <1>2, <1>3, <2>1
    <3>2. ~(p <= p - 1) /\ p <= p
      BY <1>3
    <3> QED
      BY <2>1, <3>1, <3>2 DEF UpTo
  <2>2. IsFiniteSet(UpTo(S, p - 1))
    BY <1>2, UpToIs
  <2>3. ASSUME p \in S PROVE Cardinality(UpTo(S, p)) = Cardinality(UpTo(S, p - 1)) + 1
    BY <2>1, <2>2, <2>3, FS_AddElement
  <2> QED
    BY <1>6, <2>3 DEF Begun
<1>9. Listed(argv') => Listed(argv)'
  BY <1>3 DEF Listed
<1>10. CASE skip_spaces
  <2>1. /\ state = 0 /\ argv' = argv
        /\ state' = IF IsSpace(c) THEN 0 ELSE 1
        /\ start' = IF IsSpace(c) THEN start ELSE p
    BY <1>4, <1>10 DEF skip_spaces, First
  <2>2. Len(argv) = 2 + Begun /\ ~Inside(input, p - 1) /\ Listed(argv)
    BY <2>1 DEF Splits
  <2>3. Listed(argv)'
    BY <1>9, <2>1, <2>2
  <2>4. CASE IsSpace(c)
    <3>1. ~Inside(input, p) /\ p \notin S
      BY <1>4, <1>5, <2>4
    <3>2. ~Inside(input', p' - 1)
      BY <1>3, <1>6, <3>1
    <3>3. Len(argv') = 2 + Begun'
      BY <1>7, <2>1, <2>2, <3>1
    <3> QED
      BY <2>1, <2>3, <2>4, <3>2, <3>3 DEF Splits
  <2>5. CASE ~IsSpace(c)
    <3>1. Inside(input, p) /\ p \in S
      BY <1>4, <1>5, <2>2, <2>5
    <3>2. Len(argv') = 1 + Begun'
      BY <1>6, <1>8, <2>1, <2>2, <3>1
    <3>3. start' = p /\ start' \in WordStarts(input') /\ start' < p'
      BY <1>3, <2>1, <2>5, <3>1
    <3>4. \A j \in start' .. p' - 1 : Inside(input', j)
      <4>1. \A j \in start' .. p' - 1 : j = p
        BY <1>3, <1>6, <3>3
      <4> QED
        BY <1>3, <3>1, <4>1
    <3> QED
      BY <2>1, <2>3, <2>5, <3>2, <3>3, <3>4 DEF Splits
  <2> QED
    BY <2>4, <2>5
<1>11. CASE in_token
  <2>1. /\ state = 1 /\ start' = start
        /\ state' = IF IsSpace(c) THEN 0 ELSE 1
        /\ argv' = IF IsSpace(c) THEN Append(argv, Token) ELSE argv
    BY <1>11 DEF in_token
  <2>2. /\ Len(argv) = 1 + Begun /\ Listed(argv) /\ start \in S /\ start < p
        /\ \A j \in start .. p - 1 : Inside(input, j)
    BY <2>1 DEF Splits
  <2>3. p \notin S
    <3>1. p - 1 \in start .. p - 1
      BY <1>2, <1>3, <2>2
    <3> QED
      BY <1>5, <2>2, <3>1
  <2>4. CASE IsSpace(c)
    <3>1. ~Inside(input, p) /\ ~Inside(input', p' - 1)
      BY <1>3, <1>4, <1>6, <2>4
    <3>2. Listed(Append(argv, Token)) /\ Len(Append(argv, Token)) = 2 + Begun
      BY <2>1, <3>1, WordOver
    <3>3. Listed(argv)' /\ Len(argv') = 2 + Begun'
      BY <1>7, <1>9, <2>1, <2>3, <2>4, <3>2
    <3> QED
      BY <2>1, <2>4, <3>1, <3>3 DEF Splits
  <2>5. CASE ~IsSpace(c)
    <3>1. Listed(argv)' /\ Len(argv') = 1 + Begun'
      BY <1>7, <1>9, <2>1, <2>2, <2>3, <2>5
    <3>2. Inside(input, p)
      BY <1>4, <2>5
    <3>3. \A j \in start' .. p' - 1 : Inside(input', j)
      <4>1. \A j \in start' .. p' - 1 : j \in start .. p - 1 \/ j = p
        BY <1>2, <1>3, <2>1, <2>2
      <4> QED
        BY <1>3, <2>2, <3>2, <4>1
    <3>4. start' \in WordStarts(input') /\ start' < p'
      BY <1>2, <1>3, <2>1, <2>2
    <3> QED
      BY <2>1, <2>5, <3>1, <3>3, <3>4 DEF Splits
  <2> QED
    BY <2>4, <2>5
<1>12. CASE in_quoted_token
  BY <1>12 DEF in_quoted_token, Splits
<1> QED
  BY <1>10, <1>11, <1>12

\* At the end of the request all its words are listed.
LEMMA SplitsEnd ==
  ASSUME TInv, stage = "request", Splits, p > Len(text)
  PROVE  Found = Prefix \o Words(input)
<1> DEFINE S == WordStarts(input)
           W == Words(input)
<1>1. /\ input \in Seq(Chars) /\ Len(text) \in Nat /\ Len(input) \in Nat /\ Len(text) <= Len(input)
      /\ \A i : Inside(input, i) => i \in 1 .. Len(text)
  BY RequestIs
<1>2. S \subseteq 1 .. Len(input) /\ S \subseteq Nat /\ IsFiniteSet(S) /\ Cardinality(S) \in Nat
  BY <1>1, StartsAre
<1>3. p \in Nat /\ p - 1 >= Len(text) /\ ~Inside(input, p)
  BY <1>1 DEF TInv
<1>4. Begun = Cardinality(S)
  <2>1. \A i \in S : i \in 1 .. Len(text)
    BY <1>1 DEF WordStarts
  <2>2. \A i \in S : i <= p - 1
    BY <1>1, <1>3, <2>1
  <2>3. UpTo(S, p - 1) = S
    BY <2>2 DEF UpTo
  <2> QED
    BY <2>3 DEF Begun
<1>5. Found \in Seq(Word) /\ Listed(Found) /\ Len(Found) = 2 + Begun
  <2>1. CASE state = 1
    <3>1. Found = Append(argv, Token)
      BY <2>1 DEF Found
    <3> HIDE DEF Token
    <3> QED
      BY <1>3, <2>1, <3>1, WordOver
  <2>2. CASE state # 1
    BY <2>2 DEF Splits, TInv, Found
  <2> QED
    BY <2>1, <2>2
<1>6. /\ W = [n \in 1 .. Cardinality(S) |-> WordFrom(input, Nth(S, n))]
  BY DEF Words
<1> HIDE DEF W, S
<1> DEFINE f == Found
<1> HIDE DEF f
<1>7. f \in Seq(Word) /\ Len(f) = 2 + Cardinality(S) /\ Listed(f) /\ Len(f) \in Nat
  BY <1>2, <1>4, <1>5 DEF f
<1>8. \A n \in 1 .. Cardinality(S) : f[n + 2] = WordFrom(input, Nth(S, n)) /\ n + 2 \in 3 .. Len(f)
  <2>1. ASSUME NEW n \in 1 .. Cardinality(S)
        PROVE  n + 2 \in 3 .. Len(f) /\ (n + 2) - 2 = n
    BY <1>2, <1>7
  <2> QED
    BY <1>7, <2>1 DEF Listed, S
<1>9. W \in Seq(Word) /\ Len(W) = Cardinality(S) /\ \A n \in 1 .. Cardinality(S) : W[n] = f[n + 2]
  <2>1. \A n \in 1 .. Cardinality(S) : WordFrom(input, Nth(S, n)) \in Word
    <3>1. \A i \in 3 .. Len(f) : f[i] \in Word
      BY <1>7
    <3> QED
      BY <1>8, <3>1
  <2>2. W \in Seq(Word)
    BY <1>2, <1>6, <2>1
  <2>3. Len(W) = Cardinality(S)
    BY <1>2, <1>6, <2>2
  <2> QED
    BY <1>6, <1>8, <2>2, <2>3
<1> DEFINE g == Prefix \o W
<1>10. /\ g \in Seq(Word) /\ Len(g) = 2 + Cardinality(S)
       /\ \A i \in 1 .. 2 : g[i] = Prefix[i]
       /\ \A i \in 3 .. 2 + Cardinality(S) : g[i] = W[i - 2]
  <2>1. /\ g \in Seq(Word) /\ Len(g) = Len(Prefix) + Len(W)
        /\ \A i \in 1 .. Len(Prefix) : g[i] = Prefix[i]
        /\ \A i \in Len(Prefix) + 1 .. Len(Prefix) + Len(W) : g[i] = W[i - Len(Prefix)]
    <3>1. Prefix \in Seq(Word) /\ W \in Seq(Word)
      BY <1>9, PrefixIs
    <3> QED
      BY <3>1, ConcatIs, Zenon
  <2> HIDE DEF g
  <2>2. 2 + 1 = 3
    OBVIOUS
  <2> QED
    BY <1>9, <2>1, <2>2, PrefixIs
<1> HIDE DEF g
<1>11. \A i \in 1 .. Len(f) : f[i] = g[i]
  <2> SUFFICES ASSUME NEW i \in 1 .. Len(f) PROVE f[i] = g[i]
    OBVIOUS
  <2>1. CASE i <= 2
    <3>1. i = 1 \/ i = 2
      BY <2>1
    <3> QED
      BY <1>7, <1>10, <3>1 DEF Listed
  <2>2. CASE i > 2
    <3>1. i - 2 \in 1 .. Cardinality(S) /\ (i - 2) + 2 = i /\ i \in 3 .. 2 + Cardinality(S)
      BY <1>2, <1>7, <2>2
    <3> QED
      BY <1>9, <1>10, <3>1
  <2> QED
    BY <2>1, <2>2
<1>12. f = g
  BY <1>7, <1>10, <1>11, SeqEqual
<1> QED
  BY <1>12 DEF f, g, W

LEMMA InitWInv == Init => WInv
<1> SUFFICES ASSUME Init PROVE WInv
  OBVIOUS
<1>1. TInv /\ p = 1 /\ state = 0 /\ argv = Prefix /\ ran = <<>>
  BY InitTInv DEF Init
<1>2. input \in Seq(Chars)
  BY <1>1 DEF TInv, Texts
<1>3. Begun = 0
  <2>1. \A i \in WordStarts(input) : ~(i <= p - 1)
    BY <1>1, <1>2, StartsAre
  <2>2. UpTo(WordStarts(input), p - 1) = {}
    BY <2>1 DEF UpTo
  <2> QED
    BY <2>2, FS_EmptySet DEF Begun
<1>4. ~Inside(input, p - 1)
  BY <1>1 DEF Inside
<1>5. Listed(argv)
  BY <1>1, PrefixIs DEF Listed
<1> QED
  BY <1>1, <1>3, <1>4, <1>5, PrefixIs DEF WInv, Splits

LEMMA StepWInv == WInv /\ [Next]_vars => WInv'
<1> SUFFICES ASSUME WInv, [Next]_vars PROVE WInv'
  OBVIOUS
<1>1. TInv /\ TInv'
  BY StepTInv DEF WInv
<1>2. input' = input
  BY DEF Next, vars, skip_spaces, in_token, in_quoted_token, Advance, execute_command, execute_fed, execute_synced
<1> SUFFICES ASSUME ~Has(input, "quote")
             PROVE  /\ stage' = "request" => Splits'
                    /\ ran' # <<>> => ran' = Prefix \o Words(input)
  BY <1>1, <1>2 DEF WInv
<1>3. /\ stage = "request" => Splits
      /\ ran # <<>> => ran = Prefix \o Words(input)
  BY DEF WInv
<1>4. CASE skip_spaces \/ in_token \/ in_quoted_token
  <2>1. stage' = stage /\ ran' = ran
    BY <1>4 DEF skip_spaces, in_token, in_quoted_token, Advance
  <2> QED
    BY <1>1, <1>3, <1>4, <2>1, SplitsStep
<1>5. CASE execute_command
  <2>1. stage = "request" /\ p > Len(text) /\ ran' = Found /\ stage' # "request"
    BY <1>5 DEF execute_command, AtEnd
  <2> QED
    BY <1>1, <1>3, <2>1, SplitsEnd
<1>6. CASE execute_fed \/ execute_synced
  <2>1. ran' = ran /\ stage' # "request"
    BY <1>6 DEF execute_fed, execute_synced, AtEnd, NextLine
  <2> QED
    BY <1>3, <2>1
<1>7. CASE UNCHANGED vars
  BY <1>3, <1>7 DEF vars, Splits, Listed, Begun
<1> QED
  BY <1>4, <1>5, <1>6, <1>7 DEF Next

\* tokenize_command cuts a request without quotes into its words, as far as it is long
\* and whatever spaces and ends of lines stand before, between and after them.
THEOREM WordsFound == Spec => []WordsSplit
<1>1. WInv => WordsSplit
  BY DEF WInv, WordsSplit
<1>2. Spec => []WInv
  BY InitWInv, StepWInv, PTL DEF Spec
<1> QED
  BY <1>1, <1>2, PTL

-----------------------------------------------------------------------------
(* What is fed                                                             *)

\* Where the scanner stands, and where it begins.
Now == [state |-> state, start |-> start, argv |-> argv]
Beginning == [state |-> 0, start |-> 1, argv |-> Prefix]

\* Where the i-th character of s takes it from r, and what it has found in s if it
\* ends there.
Finds(s, i, r) ==
  \/ r.state = 1 /\ IsSpace(s[i])
  \/ r.state = 2 /\ s[i] = "quote" /\ s[i - 1] # "backslash"
NextState(s, i, r) ==
  IF r.state = 0 THEN IF IsSpace(s[i]) THEN 0 ELSE IF s[i] = "quote" THEN 2 ELSE 1
  ELSE IF Finds(s, i, r) THEN 0 ELSE r.state
NextStart(s, i, r) ==
  IF r.state = 0 /\ ~IsSpace(s[i]) THEN IF s[i] = "quote" THEN i + 1 ELSE i ELSE r.start
NextArgv(s, i, r) ==
  IF Finds(s, i, r) THEN Append(r.argv, SubSeq(s, r.start, i - 1)) ELSE r.argv
NextOf(s, i, r) ==
  [state |-> NextState(s, i, r), start |-> NextStart(s, i, r), argv |-> NextArgv(s, i, r)]
ResultOf(s, n, r) == IF r.state = 1 THEN Append(r.argv, SubSeq(s, r.start, n)) ELSE r.argv

\* What the primary scanned, and f says where the scanner was after n characters of it.
Request == Stripped(input)
Follows(f, n) == f[0] = Beginning /\ \A i \in 1 .. n : f[i] = NextOf(Request, i, f[i - 1])

OneLine == Ends(input) \subseteq {Len(input) - 1}

\* A replica scans what the primary did, perhaps without a last line feed.
Fed(t) ==
  \/ t = Request
  \/ Request # <<>> /\ Request[Len(Request)] = "lf" /\ t = SubSeq(Request, 1, Len(Request) - 1)

FInv ==
  /\ TInv
  /\ state = 2 => p > 1
  /\ OneLine =>
       /\ stage = "request" => fed = <<>> /\ \E f : Follows(f, p - 1) /\ f[p - 1] = Now
       /\ stage = "feed" =>
            /\ lines = <<>> /\ fed = <<>> /\ Fed(text)
            /\ \E f : /\ Follows(f, Len(Request)) /\ f[p - 1] = Now
                      /\ ran = ResultOf(Request, Len(Request), f[Len(Request)])
       /\ stage \in {"sync", "done"} /\ Len(ran) >= 3 => fed = <<ran>>

\* A stream with one end of a line, at its end.
LEMMA LinesOne ==
  ASSUME NEW s \in Seq(Chars), NEW n \in Nat, Len(s) = n + 2, Ends(s) = {n + 1}
  PROVE  Lines(s) = <<SubSeq(s, 1, n)>>
<1>1. Cardinality(Ends(s)) = 1 /\ IsFiniteSet(Ends(s))
  BY FS_Singleton
<1>2. Nth(Ends(s), 1) = n + 1
  <2>1. Ends(s) \subseteq Nat /\ 1 \in 1 .. Cardinality(Ends(s))
    BY <1>1
  <2> QED
    BY <1>1, <2>1, NthExists
<1>3. {j \in Ends(s) : j < n + 1} = {}
  OBVIOUS
<1>4. (n + 1) - 1 = n
  OBVIOUS
<1>5. Lines(s) = [m \in 1 .. 1 |->
         LET to == Nth(Ends(s), m)
             before == {j \in Ends(s) : j < to}
         IN  SubSeq(s, IF before = {} THEN 1 ELSE Max(before) + 2, to - 1)]
  BY <1>1, Zenon DEF Lines
<1> DEFINE l(m) == LET to == Nth(Ends(s), m)
                       before == {j \in Ends(s) : j < to}
                   IN  SubSeq(s, IF before = {} THEN 1 ELSE Max(before) + 2, to - 1)
<1>6. l(1) = SubSeq(s, 1, n)
  BY <1>2, <1>3, <1>4, Zenon
<1>7. Lines(s) = [m \in 1 .. 1 |-> l(m)]
  BY <1>5
<1> HIDE DEF l
<1>8. \A m \in 1 .. 1 : m = 1
  OBVIOUS
<1>9. Lines(s) = [m \in 1 .. 1 |-> SubSeq(s, 1, n)]
  BY <1>6, <1>7, <1>8
<1> DEFINE u == SubSeq(s, 1, n)
<1> HIDE DEF u
<1>10. [m \in 1 .. 1 |-> u] = <<u>>
  OBVIOUS
<1> QED
  BY <1>9, <1>10 DEF u

LEMMA WholeIs ==
  ASSUME NEW s \in Seq(Chars), NEW n \in Nat, n = Len(s)
  PROVE  SubSeq(s, 1, n) = s
<1> DEFINE u == SubSeq(s, 1, n)
<1>1. u \in Seq(Chars) /\ Len(u) = n /\ \A i \in 1 .. n : u[i] = s[i]
  <2>1. n <= Len(s)
    OBVIOUS
  <2> QED
    BY <2>1, StartIs
<1> HIDE DEF u
<1>2. u = s
  BY <1>1, SeqEqual
<1> QED
  BY <1>2 DEF u

\* Of a request with no end of a line inside, a replica gets one line.
LEMMA FedIs ==
  ASSUME input \in Seq(Chars), OneLine
  PROVE  \E l \in Seq(Chars) : Lines(Terminated(input)) = <<l>> /\ Fed(Stripped(l))
<1>1. Len(input) \in Nat
  OBVIOUS
<1>2. CASE EndsLine(input)
  <2>1. Terminated(input) = input /\ Len(input) >= 2
    BY <1>2 DEF Terminated, EndsLine
  <2>2. Len(input) - 1 \in Ends(input)
    BY <1>2, EndsLineIs
  <2>3. PICK n \in Nat : Len(input) = n + 2 /\ n <= Len(input) /\ Len(input) - 1 = n + 1 /\ n = Len(input) - 2
    <3>1. PICK n \in Nat : n = Len(input) - 2
      BY <1>1, <2>1
    <3> QED
      BY <1>1, <3>1
  <2>4. Ends(input) = {n + 1}
    BY <2>2, <2>3 DEF OneLine
  <2> DEFINE l == SubSeq(input, 1, n)
  <2>5. Lines(input) = <<l>>
    BY <2>3, <2>4, LinesOne
  <2>6. Request = l
    BY <1>2, <2>3, Zenon DEF Request, Stripped
  <2>7. l \in Seq(Chars) /\ Len(l) = n /\ \A i \in 1 .. n : l[i] = input[i]
    BY <2>3, StartIs
  <2> HIDE DEF l
  <2>8. ~EndsLine(l)
    <3>1. Len(l) - 1 \notin Ends(l)
      <4>1. ASSUME n - 1 \in Ends(l) PROVE FALSE
        <5>1. n - 1 \in 1 .. n - 1 /\ l[n - 1] = "cr" /\ l[n - 1 + 1] = "lf"
          BY <2>7, <4>1 DEF Ends
        <5>2. n - 1 \in 1 .. n /\ n - 1 + 1 \in 1 .. n /\ n - 1 \in 1 .. Len(input) - 1 /\ n - 1 # n + 1
          BY <2>3, <5>1
        <5>3. n - 1 \in Ends(input)
          BY <2>7, <5>1, <5>2 DEF Ends
        <5> QED
          BY <2>4, <5>2, <5>3
      <4> QED
        BY <2>7, <4>1
    <3> QED
      BY <2>7, <3>1, EndsLineIs
  <2>9. Fed(Stripped(l))
    BY <2>6, <2>7, <2>8 DEF Stripped, Fed
  <2> QED
    BY <2>1, <2>5, <2>7, <2>9
<1>3. CASE ~EndsLine(input)
  <2>1. Terminated(input) = input \o CRLF
    BY <1>3 DEF Terminated
  <2>2. Ends(input) = {}
    BY <1>3, EndsLineIs DEF OneLine
  <2> DEFINE t == input \o CRLF
  <2>3. PICK n \in Nat : n = Len(input)
    BY <1>1
  <2>4. /\ t \in Seq(Chars) /\ Len(t) = n + 2 /\ Ends(t) = {n + 1}
        /\ \A i \in 1 .. n : t[i] = input[i]
    BY <2>2, <2>3, EndAdded
  <2> HIDE DEF t
  <2>5. Lines(t) = <<SubSeq(t, 1, n)>>
    BY <2>4, LinesOne
  <2>6. SubSeq(t, 1, n) = input
    <3>1. SubSeq(t, 1, n) = SubSeq(input, 1, n)
      <4>1. n <= Len(t) /\ n <= Len(input) /\ 1 \in Nat \ {0}
        BY <2>3, <2>4
      <4> QED
        BY <2>4, <4>1, PartSame
    <3> QED
      BY <2>3, <3>1, WholeIs
  <2>7. Fed(Stripped(input))
    BY DEF Fed, Request
  <2> QED
    BY <2>1, <2>5, <2>6, <2>7 DEF t
<1> QED
  BY <1>2, <1>3

\* The scanner's actions, as one operator.
LEMMA StepIs ==
  ASSUME skip_spaces \/ in_token \/ in_quoted_token
  PROVE  /\ Now' = NextOf(text, p, Now) /\ p' = p + 1 /\ p <= Len(text)
         /\ UNCHANGED <<input, stage, lines, text, ran, fed, synced>>
<1>1. p' = p + 1 /\ p <= Len(text) /\ UNCHANGED <<input, stage, lines, text, ran, fed, synced>>
  BY DEF skip_spaces, in_token, in_quoted_token, Advance, More
<1>2. Now' = [state |-> state', start |-> start', argv |-> argv']
  BY DEF Now
<1>3. Now.state = state /\ Now.start = start /\ Now.argv = argv
  BY DEF Now
<1>4. CASE skip_spaces
  <2>1. /\ state = 0 /\ argv' = argv
        /\ state' = IF IsSpace(c) THEN 0 ELSE IF c = "quote" THEN 2 ELSE 1
        /\ start' = IF IsSpace(c) THEN start ELSE First
    BY <1>4 DEF skip_spaces
  <2>2. ~Finds(text, p, Now)
    BY <1>3, <2>1 DEF Finds
  <2>3. state' = NextState(text, p, Now)
    BY <1>3, <2>1 DEF NextState, c
  <2>4. start' = NextStart(text, p, Now)
    BY <1>3, <2>1, Zenon DEF NextStart, First, c
  <2>5. argv' = NextArgv(text, p, Now)
    BY <1>3, <2>1, <2>2, Zenon DEF NextArgv
  <2> QED
    BY <1>1, <1>2, <2>3, <2>4, <2>5, Zenon DEF NextOf
<1>5. CASE in_token
  <2>1. /\ state = 1 /\ start' = start
        /\ state' = IF IsSpace(c) THEN 0 ELSE 1
        /\ argv' = IF IsSpace(c) THEN Append(argv, Token) ELSE argv
    BY <1>5 DEF in_token
  <2>2. Finds(text, p, Now) <=> IsSpace(c)
    BY <1>3, <2>1 DEF Finds, c
  <2>3. state' = NextState(text, p, Now)
    BY <1>3, <2>1, <2>2 DEF NextState
  <2>4. start' = NextStart(text, p, Now)
    <3>1. Now.state # 0
      BY <1>3, <2>1
    <3> QED
      BY <1>3, <2>1, <3>1, Zenon DEF NextStart
  <2>5. argv' = NextArgv(text, p, Now)
    BY <1>3, <2>1, <2>2, Zenon DEF NextArgv, Token
  <2> QED
    BY <1>1, <1>2, <2>3, <2>4, <2>5, Zenon DEF NextOf
<1>6. CASE in_quoted_token
  <2>1. /\ state = 2 /\ start' = start
        /\ state' = IF ClosesQuote THEN 0 ELSE 2
        /\ argv' = IF ClosesQuote THEN Append(argv, Token) ELSE argv
    BY <1>6 DEF in_quoted_token
  <2>2. Finds(text, p, Now) <=> ClosesQuote
    BY <1>3, <2>1 DEF Finds, ClosesQuote, c
  <2>3. state' = NextState(text, p, Now)
    BY <1>3, <2>1, <2>2 DEF NextState
  <2>4. start' = NextStart(text, p, Now)
    <3>1. Now.state # 0
      BY <1>3, <2>1
    <3> QED
      BY <1>3, <2>1, <3>1, Zenon DEF NextStart
  <2>5. argv' = NextArgv(text, p, Now)
    BY <1>3, <2>1, <2>2, Zenon DEF NextArgv, Token
  <2> QED
    BY <1>1, <1>2, <2>3, <2>4, <2>5, Zenon DEF NextOf
<1> QED
  BY <1>1, <1>4, <1>5, <1>6

\* A character takes the scanner to the same place in two texts that agree so far.
LEMMA NextSame ==
  ASSUME NEW s \in Seq(Chars), NEW t \in Seq(Chars), NEW i \in Nat \ {0}, i <= Len(s), i <= Len(t),
         \A j \in 1 .. i : s[j] = t[j],
         NEW r, r.start \in Nat \ {0}, r.state = 2 => i > 1
  PROVE  NextOf(s, i, r) = NextOf(t, i, r)
<1>1. s[i] = t[i] /\ (r.state = 2 => s[i - 1] = t[i - 1])
  <2>1. i \in 1 .. i /\ (i > 1 => i - 1 \in 1 .. i)
    OBVIOUS
  <2> QED
    BY <2>1
<1>2. PICK n \in Nat : n = i - 1 /\ n <= Len(s) /\ n <= Len(t) /\ \A j \in 1 .. n : s[j] = t[j]
  <2>1. PICK n \in Nat : n = i - 1
    OBVIOUS
  <2>2. n <= Len(s) /\ n <= Len(t) /\ \A j \in 1 .. n : j \in 1 .. i
    BY <2>1
  <2> QED
    BY <2>1, <2>2
<1>3. SubSeq(s, r.start, n) = SubSeq(t, r.start, n)
  BY <1>2, PartSame
<1>4. SubSeq(s, r.start, i - 1) = SubSeq(t, r.start, i - 1)
  BY <1>2, <1>3, Zenon
<1>5. Finds(s, i, r) <=> Finds(t, i, r)
  BY <1>1, Zenon DEF Finds
<1>6. NextState(s, i, r) = NextState(t, i, r) /\ NextStart(s, i, r) = NextStart(t, i, r)
  BY <1>1, <1>5, Zenon DEF NextState, NextStart
<1>7. NextArgv(s, i, r) = NextArgv(t, i, r)
  BY <1>4, <1>5, Zenon DEF NextArgv
<1> QED
  BY <1>6, <1>7, Zenon DEF NextOf

\* The text a replica scans agrees with the one the primary scanned.
LEMMA FedAgrees ==
  ASSUME input \in Seq(Chars), NEW t, Fed(t)
  PROVE  /\ Request \in Seq(Chars) /\ t \in Seq(Chars) /\ Len(t) \in Nat /\ Len(Request) \in Nat
         /\ Len(t) <= Len(Request) /\ \A j \in 1 .. Len(t) : t[j] = Request[j]
         /\ t = Request \/ (Len(Request) = Len(t) + 1 /\ Request[Len(Request)] = "lf")
<1>1. Request \in Seq(Chars) /\ Len(Request) \in Nat
  BY StrippedIs DEF Request
<1>2. CASE t = Request
  BY <1>1, <1>2
<1>3. CASE Request # <<>> /\ Request[Len(Request)] = "lf" /\ t = SubSeq(Request, 1, Len(Request) - 1)
  <2>1. PICK n \in Nat : n = Len(Request) - 1
    <3>1. Len(Request) # 0
      BY <1>1, <1>3
    <3> QED
      BY <1>1, <3>1
  <2>2. t = SubSeq(Request, 1, n) /\ n <= Len(Request) /\ Len(Request) = n + 1
    BY <1>1, <1>3, <2>1
  <2>3. t \in Seq(Chars) /\ Len(t) = n /\ \A j \in 1 .. n : t[j] = Request[j]
    BY <1>1, <2>2, StartIs
  <2> QED
    BY <1>1, <1>3, <2>2, <2>3
<1> QED
  BY <1>2, <1>3 DEF Fed

\* A step of the scanner in the request makes f longer.
LEMMA RequestStep ==
  ASSUME FInv, OneLine, stage = "request", skip_spaces \/ in_token \/ in_quoted_token
  PROVE  \E f : Follows(f, p) /\ f[p] = NextOf(text, p, Now)
<1>1. p \in Nat \ {0} /\ text = Request
  BY DEF FInv, TInv, Request
<1>2. PICK f : Follows(f, p - 1) /\ f[p - 1] = Now
  BY DEF FInv
<1> DEFINE g == [i \in 0 .. p |-> IF i = p THEN NextOf(text, p, Now) ELSE f[i]]
<1>3. /\ \A i \in 0 .. p - 1 : g[i] = f[i]
      /\ g[p] = NextOf(text, p, Now)
  BY <1>1
<1> HIDE DEF g
<1>4. g[0] = Beginning
  <2>1. 0 \in 0 .. p - 1
    BY <1>1
  <2> QED
    BY <1>2, <1>3, <2>1 DEF Follows
<1>5. ASSUME NEW i \in 1 .. p PROVE g[i] = NextOf(Request, i, g[i - 1])
  <2>1. i - 1 \in 0 .. p - 1
    BY <1>1
  <2>2. g[i - 1] = f[i - 1]
    BY <1>3, <2>1
  <2>3. CASE i = p
    <3>1. g[i - 1] = Now
      BY <1>2, <2>2, <2>3
    <3> QED
      BY <1>1, <1>3, <2>3, <3>1, Zenon
  <2>4. CASE i # p
    <3>1. i \in 0 .. p - 1 /\ i \in 1 .. p - 1
      BY <1>1, <2>4
    <3>2. g[i] = f[i] /\ f[i] = NextOf(Request, i, f[i - 1])
      BY <1>2, <1>3, <3>1 DEF Follows
    <3> QED
      BY <2>2, <3>2, Zenon
  <2> QED
    BY <2>3, <2>4
<1>6. Follows(g, p)
  BY <1>4, <1>5 DEF Follows
<1> QED
  BY <1>3, <1>6

\* A step of a replica's scanner goes on where the primary's did.
LEMMA FeedStep ==
  ASSUME FInv, stage = "feed", Fed(text), skip_spaces \/ in_token \/ in_quoted_token,
         NEW f, Follows(f, Len(Request)), f[p - 1] = Now
  PROVE  f[p] = NextOf(text, p, Now)
<1>1. /\ Request \in Seq(Chars) /\ text \in Seq(Chars) /\ Len(text) \in Nat /\ Len(Request) \in Nat
      /\ Len(text) <= Len(Request) /\ \A j \in 1 .. Len(text) : text[j] = Request[j]
  BY FedAgrees DEF FInv, TInv, Texts
<1>2. p <= Len(text) /\ p \in Nat \ {0}
  BY StepIs DEF FInv, TInv
<1>3. Now.start \in Nat \ {0} /\ (Now.state = 2 => p > 1)
  BY <1>2 DEF FInv, TInv, Now
<1>4. p \in 1 .. Len(Request) /\ p <= Len(Request) /\ \A j \in 1 .. p : text[j] = Request[j]
  BY <1>1, <1>2
<1>5. f[p] = NextOf(Request, p, Now)
  BY <1>4 DEF Follows
<1>6. NextOf(text, p, Now) = NextOf(Request, p, Now)
  <2> DEFINE r == Now
  <2> HIDE DEF r
  <2>1. r.start \in Nat \ {0} /\ (r.state = 2 => p > 1)
    BY <1>3 DEF r
  <2>2. NextOf(text, p, r) = NextOf(Request, p, r)
    BY <1>1, <1>2, <1>4, <2>1, NextSame
  <2> QED
    BY <2>2 DEF r
<1> QED
  BY <1>5, <1>6

\* At the end of its text a replica has found what the primary executed.
LEMMA FeedEnd ==
  ASSUME FInv, stage = "feed", Fed(text), p > Len(text),
         NEW f, Follows(f, Len(Request)), f[p - 1] = Now
  PROVE  Found = ResultOf(Request, Len(Request), f[Len(Request)])
<1>1. /\ Request \in Seq(Chars) /\ text \in Seq(Chars) /\ Len(text) \in Nat /\ Len(Request) \in Nat
      /\ Len(text) <= Len(Request) /\ \A j \in 1 .. Len(text) : text[j] = Request[j]
      /\ text = Request \/ (Len(Request) = Len(text) + 1 /\ Request[Len(Request)] = "lf")
  BY FedAgrees DEF FInv, TInv, Texts
<1>2. p \in Nat /\ p - 1 = Len(text) /\ start \in Nat \ {0} /\ state \in {0, 1, 2}
  BY <1>1 DEF FInv, TInv
<1>3. Now.state = state /\ Now.start = start /\ Now.argv = argv
  BY DEF Now
<1>4. Found = IF state = 1 THEN Append(argv, SubSeq(text, start, Len(text))) ELSE argv
  BY <1>2, Zenon DEF Found, Token
<1>5. CASE text = Request
  <2>1. f[Len(Request)] = Now
    BY <1>2, <1>5
  <2> QED
    BY <1>3, <1>4, <1>5, <2>1, Zenon DEF ResultOf
<1>6. CASE Len(Request) = Len(text) + 1 /\ Request[Len(Request)] = "lf"
  <2> DEFINE n == Len(Request)
             r == f[n]
  <2>1. r = NextOf(Request, n, Now) /\ n - 1 = Len(text)
    <3>1. n \in 1 .. n /\ n - 1 = Len(text) /\ f[n - 1] = Now
      BY <1>1, <1>2, <1>6
    <3> QED
      BY <3>1 DEF Follows
  <2>2. r.state = NextState(Request, n, Now) /\ r.argv = NextArgv(Request, n, Now)
    BY <2>1 DEF NextOf
  <2>3. Request[n] = "lf" /\ IsSpace(Request[n]) /\ Request[n] # "quote"
    BY <1>6 DEF IsSpace
  <2>4. Finds(Request, n, Now) <=> state = 1
    BY <1>2, <1>3, <2>3 DEF Finds
  <2>5. r.state # 1
    BY <1>2, <1>3, <2>2, <2>3, <2>4 DEF NextState
  <2>6. SubSeq(Request, start, n - 1) = SubSeq(text, start, Len(text))
    <3>1. PICK m \in Nat : m = Len(text) /\ m <= Len(Request) /\ n - 1 = m
      BY <1>1, <2>1
    <3>2. SubSeq(text, start, m) = SubSeq(Request, start, m)
      BY <1>1, <1>2, <3>1, PartSame
    <3> QED
      BY <3>1, <3>2, Zenon
  <2>7. r.argv = Found
    BY <1>3, <1>4, <2>2, <2>4, <2>6, Zenon DEF NextArgv
  <2> QED
    BY <2>5, <2>7, Zenon DEF ResultOf
<1> QED
  BY <1>1, <1>5, <1>6

LEMMA InitFInv == Init => FInv
<1> SUFFICES ASSUME Init PROVE FInv
  OBVIOUS
<1>1. TInv /\ p = 1 /\ state = 0 /\ stage = "request" /\ fed = <<>> /\ Now = Beginning
  BY InitTInv DEF Init, Now, Beginning
<1>2. \E f : Follows(f, p - 1) /\ f[p - 1] = Now
  <2> DEFINE g == [i \in {0} |-> Beginning]
  <2>1. g[0] = Beginning
    OBVIOUS
  <2> HIDE DEF g
  <2>2. p - 1 = 0 /\ 1 .. 0 = {}
    BY <1>1
  <2>3. Follows(g, p - 1) /\ g[p - 1] = Now
    BY <1>1, <2>1, <2>2 DEF Follows
  <2> QED
    BY <2>3
<1> QED
  BY <1>1, <1>2 DEF FInv

\* What the primary executes, a replica is about to read.
LEMMA FInvCommand ==
  ASSUME FInv, OneLine, execute_command
  PROVE  /\ stage' = "feed" =>
              /\ lines' = <<>> /\ fed' = <<>> /\ Fed(text')
              /\ \E f : /\ Follows(f, Len(Request)) /\ f[p' - 1] = Now'
                        /\ ran' = ResultOf(Request, Len(Request), f[Len(Request)])
         /\ stage' # "request"
         /\ Len(ran') >= 3 => stage' = "feed"
<1>1. /\ stage = "request" /\ p > Len(text) /\ ran' = Found /\ UNCHANGED <<input, fed, synced>>
      /\ IF Len(Found) >= 3
         THEN stage' = "feed" /\ Receives(Terminated(input))
         ELSE stage' = "done"
  BY DEF execute_command, AtEnd
<1>2. /\ input \in Seq(Chars) /\ text = Request /\ Len(text) \in Nat /\ p \in Nat /\ p - 1 = Len(text)
      /\ fed = <<>>
  BY <1>1 DEF FInv, TInv, Texts, Request
<1> SUFFICES ASSUME Len(Found) >= 3
             PROVE  /\ lines' = <<>> /\ fed' = <<>> /\ Fed(text')
                    /\ \E f : /\ Follows(f, Len(Request)) /\ f[p' - 1] = Now'
                              /\ ran' = ResultOf(Request, Len(Request), f[Len(Request)])
  BY <1>1
<1>3. PICK l \in Seq(Chars) : Lines(Terminated(input)) = <<l>> /\ Fed(Stripped(l))
  BY <1>2, FedIs
<1>4. /\ lines' = Tail(<<l>>) /\ text' = Stripped(Head(<<l>>))
      /\ p' = 1 /\ state' = 0 /\ start' = 1 /\ argv' = Prefix
  BY <1>1, <1>3 DEF Receives, Scan
<1>5. Tail(<<l>>) = <<>> /\ Head(<<l>>) = l
  OBVIOUS
<1>6. PICK f : Follows(f, p - 1) /\ f[p - 1] = Now
  BY <1>1 DEF FInv
<1>7. p - 1 = Len(Request)
  BY <1>2
<1>8. Follows(f, Len(Request)) /\ f[Len(Request)] = Now
  BY <1>6, <1>7
<1>9. f[p' - 1] = Now'
  <2>1. p' - 1 = 0
    BY <1>4
  <2> QED
    BY <1>4, <1>8, <2>1 DEF Follows, Now, Beginning
<1>10. ran' = ResultOf(Request, Len(Request), f[Len(Request)])
  <2>1. Now.state = state /\ Now.start = start /\ Now.argv = argv
    BY DEF Now
  <2>2. Token = SubSeq(Request, start, Len(Request))
    BY <1>2, <1>7, Zenon DEF Token
  <2> QED
    BY <1>1, <1>8, <2>1, <2>2, Zenon DEF Found, ResultOf
<1> QED
  BY <1>1, <1>2, <1>3, <1>4, <1>5, <1>8, <1>9, <1>10

LEMMA StepFInv == FInv /\ [Next]_vars => FInv'
<1> SUFFICES ASSUME FInv, [Next]_vars PROVE FInv'
  OBVIOUS
<1>1. TInv /\ TInv'
  BY StepTInv DEF FInv
<1>2. input' = input /\ Request' = Request
  BY DEF Request, Next, vars, skip_spaces, in_token, in_quoted_token, Advance, execute_command, execute_fed, execute_synced
<1>3. (state' = 2 => p' > 1) /\ p \in Nat \ {0}
  <2>1. p \in Nat \ {0} /\ (state = 2 => p > 1)
    BY <1>1 DEF TInv, FInv
  <2>2. CASE skip_spaces \/ in_token \/ in_quoted_token
    BY <2>1, <2>2, StepIs
  <2>3. CASE execute_command
    <3>1. state' = 0 \/ UNCHANGED <<state, p>>
      BY <2>3 DEF execute_command, Receives, Scan
    <3> QED
      BY <2>1, <3>1
  <2>4. CASE execute_fed
    <3>1. state' = 0
      BY <2>4 DEF execute_fed, NextLine, Receives, Scan
    <3> QED
      BY <2>1, <3>1
  <2>5. CASE execute_synced
    <3>1. state' = 0 \/ UNCHANGED <<state, p>>
      BY <2>5 DEF execute_synced, NextLine, Scan
    <3> QED
      BY <2>1, <3>1
  <2>6. CASE UNCHANGED vars
    BY <2>1, <2>6 DEF vars
  <2> QED
    BY <2>2, <2>3, <2>4, <2>5, <2>6 DEF Next
<1> DEFINE Reads == /\ lines = <<>> /\ fed = <<>> /\ Fed(text)
                    /\ \E f : /\ Follows(f, Len(Request)) /\ f[p - 1] = Now
                              /\ ran = ResultOf(Request, Len(Request), f[Len(Request)])
<1> SUFFICES ASSUME OneLine
             PROVE  /\ stage' = "request" => fed' = <<>> /\ \E f : Follows(f, p' - 1) /\ f[p' - 1] = Now'
                    /\ stage' = "feed" =>
                         /\ lines' = <<>> /\ fed' = <<>> /\ Fed(text')
                         /\ \E f : /\ Follows(f, Len(Request)) /\ f[p' - 1] = Now'
                                   /\ ran' = ResultOf(Request, Len(Request), f[Len(Request)])
                    /\ stage' \in {"sync", "done"} /\ Len(ran') >= 3 => fed' = <<ran'>>
  BY <1>1, <1>2, <1>3 DEF FInv, OneLine, Follows, Fed
<1>4. /\ stage = "request" => fed = <<>> /\ \E f : Follows(f, p - 1) /\ f[p - 1] = Now
      /\ stage = "feed" => Reads
      /\ stage \in {"sync", "done"} /\ Len(ran) >= 3 => fed = <<ran>>
  BY DEF FInv
<1>5. CASE skip_spaces \/ in_token \/ in_quoted_token
  <2>1. /\ Now' = NextOf(text, p, Now) /\ p' = p + 1 /\ p' - 1 = p
        /\ UNCHANGED <<input, stage, lines, text, ran, fed, synced>>
    BY <1>3, <1>5, StepIs
  <2>2. stage \notin {"sync", "done"} \/ UNCHANGED <<fed, ran, stage>>
    BY <2>1
  <2>3. CASE stage = "request"
    BY <1>4, <1>5, <2>1, <2>3, RequestStep
  <2>4. CASE stage = "feed"
    <3>1. PICK f : /\ Follows(f, Len(Request)) /\ f[p - 1] = Now
                   /\ ran = ResultOf(Request, Len(Request), f[Len(Request)])
      BY <1>4, <2>4
    <3>2. f[p] = NextOf(text, p, Now)
      BY <1>4, <1>5, <2>4, <3>1, FeedStep
    <3> QED
      BY <1>4, <2>1, <2>4, <3>1, <3>2
  <2>5. CASE stage \notin {"request", "feed"}
    BY <1>4, <2>1, <2>5
  <2> QED
    BY <2>3, <2>4, <2>5
<1>6. CASE execute_command
  <2>1. stage' \in {"sync", "done"} => ~(Len(ran') >= 3)
    BY <1>6, FInvCommand
  <2> QED
    BY <1>6, <2>1, FInvCommand
<1>7. CASE execute_fed
  <2>1. /\ stage = "feed" /\ p > Len(text) /\ UNCHANGED <<input, ran, synced>>
        /\ fed' = IF Found = <<>> THEN fed ELSE Append(fed, Found)
        /\ lines = <<>> => stage' = "sync"
    BY <1>7 DEF execute_fed, AtEnd, NextLine
  <2>2. PICK f : /\ Follows(f, Len(Request)) /\ f[p - 1] = Now
                 /\ ran = ResultOf(Request, Len(Request), f[Len(Request)])
    BY <1>4, <2>1
  <2>3. Found = ran
    BY <1>4, <2>1, <2>2, FeedEnd
  <2>4. ran # <<>>
    BY <1>1, <2>1 DEF TInv
  <2>5. fed' = Append(<<>>, ran) /\ stage' = "sync" /\ ran' = ran
    BY <1>4, <2>1, <2>3, <2>4, Zenon
  <2>6. Append(<<>>, ran) = <<ran>>
    OBVIOUS
  <2> QED
    BY <2>5, <2>6
<1>8. CASE execute_synced
  <2>1. stage = "sync" /\ stage' \in {"sync", "done"} /\ UNCHANGED <<ran, fed>>
    BY <1>8 DEF execute_synced, AtEnd, NextLine
  <2> QED
    BY <1>4, <2>1
<1>9. CASE UNCHANGED vars
  BY <1>4, <1>9 DEF vars, Now
<1> QED
  BY <1>5, <1>6, <1>7, <1>8, <1>9 DEF Next

\* A replica executes what the primary did for every request with no end of a line
\* inside, however long it is, although each text is terminated for the feed, cut into
\* lines and stripped again (replication_feed_slaves, replication_thread).
THEOREM FeedFaithful == Spec => []FeedSame
<1>1. FInv => FeedSame
  BY DEF FInv, FeedSame, OneLine
<1>2. Spec => []FInv
  BY InitFInv, StepFInv, PTL DEF Spec
<1> QED
  BY <1>1, <1>2, PTL

-----------------------------------------------------------------------------
(* What is synchronised                                                    *)

Spaced(v) == Has(v, "space") \/ Has(v, "quote")
InQuotes(v) == <<"quote">> \o v \o <<"quote">>

\* The quotes are closed at n.
Closes(s, n) == s[n] = "quote" /\ s[n - 1] # "backslash"

\* Nothing in t is taken for a space.
Solid(t) == \A i \in 1 .. Len(t) : ~IsSpace(t[i])

\* The first line of a stream ends with its first end of a line.
LEMMA FirstLine ==
  ASSUME NEW s \in Seq(Chars), NEW e \in Ends(s)
  PROVE  /\ Lines(s) \in Seq(Seq(Chars)) /\ Len(Lines(s)) > 0
         /\ Lines(s)[1] \in Seq(Chars) /\ Len(Lines(s)[1]) \in Nat /\ Len(Lines(s)[1]) < e
<1> DEFINE E == Ends(s)
<1>1. E \subseteq 1 .. Len(s) - 1 /\ Len(s) \in Nat
  BY DEF Ends
<1>2. E \subseteq Nat /\ IsFiniteSet(E)
  <2>1. IsFiniteSet(1 .. Len(s) - 1)
    <3> DEFINE n == Len(s) - 1
    <3>1. n \in Int /\ 1 \in Int
      BY <1>1
    <3> HIDE DEF n
    <3> QED
      BY <3>1, FS_Interval DEF n
  <2>2. E \in SUBSET (1 .. Len(s) - 1)
    BY <1>1
  <2> HIDE DEF E
  <2>3. IsFiniteSet(E)
    BY <2>1, <2>2, FS_Subset
  <2> QED
    BY <1>1, <2>3
<1> HIDE DEF E
<1>3. e \in E
  BY DEF E
<1>4. PICK m \in E : \A j \in E : m <= j
  BY <1>2, <1>3, LeastExists
<1>5. Nth(E, 1) = m
  <2>1. UpTo(E, m) = {m}
    <3>1. \A j \in E : j <= m <=> j = m
      BY <1>2, <1>4
    <3> QED
      BY <1>4, <3>1 DEF UpTo
  <2>2. Cardinality(UpTo(E, m)) = 1
    BY <2>1, FS_Singleton
  <2> QED
    BY <1>2, <2>2, NthIs
<1>6. {j \in E : j < m} = {}
  <2>1. \A j \in E : ~(j < m)
    BY <1>2, <1>4
  <2> QED
    BY <2>1
<1>7. /\ Lines(s) \in Seq(Seq(Chars)) /\ Len(Lines(s)) > 0
  BY <1>3, LinesAre DEF E
<1> DEFINE l(n) == LET to == Nth(E, n)
                       before == {j \in E : j < to}
                   IN  SubSeq(s, IF before = {} THEN 1 ELSE Max(before) + 2, to - 1)
<1>8. Lines(s) = [n \in 1 .. Cardinality(E) |-> l(n)]
  BY Zenon DEF Lines, E
<1>9. l(1) = SubSeq(s, 1, m - 1)
  BY <1>5, <1>6, Zenon
<1> HIDE DEF l
<1>10. 1 \in 1 .. Cardinality(E)
  <2>1. Cardinality(E) \in Nat /\ Cardinality(E) # 0
    BY <1>2, <1>3, FS_CardinalityType, FS_EmptySet
  <2> QED
    BY <2>1
<1>11. Lines(s)[1] = SubSeq(s, 1, m - 1)
  BY <1>8, <1>9, <1>10
<1>12. PICK n \in Nat : n = m - 1 /\ n < e /\ n <= Len(s)
  <2>1. PICK n \in Nat : n = m - 1
    BY <1>1, <1>4
  <2>2. m <= e /\ m \in 1 .. Len(s) - 1 /\ e \in Nat
    BY <1>1, <1>2, <1>3, <1>4
  <2> QED
    BY <1>1, <2>1, <2>2
<1>13. SubSeq(s, 1, n) \in Seq(Chars) /\ Len(SubSeq(s, 1, n)) = n
  BY <1>12, StartIs
<1>14. Lines(s)[1] = SubSeq(s, 1, n)
  BY <1>11, <1>12, Zenon
<1> QED
  BY <1>7, <1>12, <1>13, <1>14

LEMMA InQuotesIs ==
  ASSUME NEW v \in Seq(Chars)
  PROVE  /\ InQuotes(v) \in Seq(Chars) /\ Len(v) \in Nat /\ Len(InQuotes(v)) = Len(v) + 2
         /\ InQuotes(v)[1] = "quote" /\ InQuotes(v)[Len(v) + 2] = "quote"
         /\ \A i \in 1 .. Len(v) : InQuotes(v)[i + 1] = v[i]
<1> DEFINE q == <<"quote">>
           w == q \o v
           u == w \o q
<1>1. q \in Seq(Chars) /\ Len(q) = 1 /\ q[1] = "quote"
  BY DEF Chars
<1> HIDE DEF q
<1>2. /\ w \in Seq(Chars) /\ Len(w) = Len(v) + 1 /\ Len(v) \in Nat
      /\ w[1] = "quote" /\ \A i \in 1 .. Len(v) : w[i + 1] = v[i]
  <2>1. /\ w \in Seq(Chars) /\ Len(w) = Len(q) + Len(v) /\ Len(v) \in Nat
        /\ \A i \in 1 .. Len(q) : w[i] = q[i]
        /\ \A i \in Len(q) + 1 .. Len(q) + Len(v) : w[i] = v[i - Len(q)]
    BY <1>1, ConcatIs, Zenon
  <2> HIDE DEF w
  <2>2. \A i \in 1 .. Len(v) : i + 1 \in Len(q) + 1 .. Len(q) + Len(v) /\ (i + 1) - Len(q) = i
    BY <1>1, <2>1
  <2> QED
    BY <1>1, <2>1, <2>2
<1> HIDE DEF w
<1>3. /\ u \in Seq(Chars) /\ Len(u) = Len(w) + Len(q)
      /\ \A i \in 1 .. Len(w) : u[i] = w[i]
      /\ \A i \in Len(w) + 1 .. Len(w) + Len(q) : u[i] = q[i - Len(w)]
  BY <1>1, <1>2, ConcatIs, Zenon
<1> HIDE DEF u
<1>4. u[1] = "quote" /\ \A i \in 1 .. Len(v) : u[i + 1] = v[i]
  <2>1. 1 \in 1 .. Len(w) /\ \A i \in 1 .. Len(v) : i + 1 \in 1 .. Len(w)
    BY <1>2
  <2> QED
    BY <1>2, <1>3, <2>1
<1>5. u[Len(v) + 2] = "quote" /\ Len(u) = Len(v) + 2
  <2>1. Len(v) + 2 \in Len(w) + 1 .. Len(w) + Len(q) /\ (Len(v) + 2) - Len(w) = 1
    BY <1>1, <1>2
  <2> QED
    BY <1>1, <1>2, <1>3, <2>1
<1> QED
  BY <1>2, <1>3, <1>4, <1>5, Zenon DEF InQuotes, u, w, q

\* Quotes around a text add no end of a line, and move those it has.
LEMMA QuotedEnds ==
  ASSUME NEW v \in Seq(Chars)
  PROVE  /\ \A e \in Ends(v) : e + 1 \in Ends(InQuotes(v))
         /\ Ends(v) = {} => Ends(InQuotes(v)) = {}
<1> DEFINE q == InQuotes(v)
           n == Len(v)
<1>1. /\ q \in Seq(Chars) /\ n \in Nat /\ Len(q) = n + 2
      /\ q[1] = "quote" /\ q[n + 2] = "quote" /\ \A i \in 1 .. n : q[i + 1] = v[i]
  BY InQuotesIs
<1> HIDE DEF q
<1>2. ASSUME NEW e \in Ends(v) PROVE e + 1 \in Ends(q)
  <2>1. e \in 1 .. n - 1 /\ v[e] = "cr" /\ v[e + 1] = "lf"
    BY DEF Ends
  <2>2. e + 1 \in 1 .. Len(q) - 1 /\ e \in 1 .. n /\ e + 1 \in 1 .. n
    BY <1>1, <2>1
  <2>3. q[e + 1] = "cr" /\ q[(e + 1) + 1] = "lf"
    BY <1>1, <2>1, <2>2
  <2> QED
    BY <2>2, <2>3 DEF Ends
<1>3. ASSUME NEW e \in Ends(q) PROVE e - 1 \in Ends(v)
  <2>1. e \in 1 .. n + 1 /\ q[e] = "cr" /\ q[e + 1] = "lf"
    BY <1>1 DEF Ends
  <2>2. e # 1 /\ e + 1 # n + 2
    BY <1>1, <2>1
  <2>3. e - 1 \in 1 .. n - 1 /\ e - 1 \in 1 .. n /\ e \in 1 .. n /\ (e - 1) + 1 = e
    BY <1>1, <2>1, <2>2
  <2>4. v[e - 1] = "cr" /\ v[e] = "lf"
    BY <1>1, <2>1, <2>3
  <2> QED
    BY <2>3, <2>4 DEF Ends
<1> QED
  BY <1>2, <1>3 DEF q

\* A value is quotable just if the quotes around it are closed by the last one and no other.
LEMMA QuotableIs ==
  ASSUME NEW v \in Seq(Chars), v # <<>>
  PROVE  Quotable(v) <=> \A n \in 2 .. Len(v) + 2 : Closes(InQuotes(v), n) <=> n = Len(v) + 2
<1> DEFINE q == InQuotes(v)
           m == Len(v)
<1>1. /\ q \in Seq(Chars) /\ m \in Nat /\ Len(q) = m + 2
      /\ q[1] = "quote" /\ q[m + 2] = "quote" /\ \A i \in 1 .. m : q[i + 1] = v[i]
  BY InQuotesIs
<1> HIDE DEF q
<1>2. m >= 1 /\ m \in 1 .. m /\ (m + 2) - 1 = m + 1 /\ q[m + 1] = v[m]
  BY <1>1
<1>3. ASSUME Quotable(v), NEW n \in 2 .. m + 2 PROVE Closes(q, n) <=> n = m + 2
  <2>1. CASE n = m + 2
    BY <1>1, <1>2, <1>3, <2>1 DEF Closes, Quotable
  <2>2. CASE n # m + 2
    <3>1. n - 1 \in 1 .. m /\ (n - 1) + 1 = n /\ n - 1 # 0
      BY <1>1, <2>2
    <3>2. q[n] = v[n - 1]
      BY <1>1, <3>1
    <3>3. ASSUME v[n - 1] = "quote" PROVE q[n - 1] = "backslash"
      <4>1. n - 1 > 1 /\ v[(n - 1) - 1] = "backslash"
        BY <1>3, <3>1, <3>3 DEF Quotable
      <4>2. (n - 1) - 1 \in 1 .. m /\ ((n - 1) - 1) + 1 = n - 1
        BY <1>1, <3>1, <4>1
      <4> QED
        BY <1>1, <4>1, <4>2
    <3> QED
      BY <2>2, <3>2, <3>3 DEF Closes
  <2> QED
    BY <2>1, <2>2
<1>4. ASSUME \A n \in 2 .. m + 2 : Closes(q, n) <=> n = m + 2
      PROVE  Quotable(v)
  <2>1. ASSUME NEW i \in 1 .. m, v[i] = "quote" PROVE i > 1 /\ v[i - 1] = "backslash"
    <3>1. i + 1 \in 2 .. m + 2 /\ i + 1 # m + 2 /\ (i + 1) - 1 = i
      BY <1>1
    <3>2. q[i + 1] = "quote"
      BY <1>1, <2>1
    <3>3. q[i] = "backslash"
      BY <1>4, <3>1, <3>2 DEF Closes
    <3>4. i # 1
      BY <1>1, <3>3
    <3>5. i - 1 \in 1 .. m /\ (i - 1) + 1 = i /\ i > 1
      BY <1>1, <3>4
    <3> QED
      BY <1>1, <3>3, <3>5
  <2>2. v[m] # "backslash"
    <3>1. m + 2 \in 2 .. m + 2
      BY <1>1
    <3> QED
      BY <1>2, <1>4, <3>1 DEF Closes
  <2> QED
    BY <2>1, <2>2 DEF Quotable
<1> QED
  BY <1>3, <1>4 DEF q

\* Not a command that sets the value v.
Wrong(words, v) == Len(words) < 3 \/ words[3] # v

\* The tokens of the prefix are there.
Headed(words) == Len(words) >= 2 /\ words[1] = Prefix[1] /\ words[2] = Prefix[2]

\* The first line of a synchronisation: a part of the value, or all of it.
Sent(v) ==
  /\ Ends(v) # {} => Len(text) < Len(v)
  /\ Ends(v) = {} => lines = <<>> /\ text = IF Spaced(v) THEN InQuotes(v) ELSE Stripped(v)

\* Tokens of a part of the value are not the value.
Cut(v) == \A i \in 3 .. Len(argv) : Len(argv[i]) < Len(v)

\* The scanner is inside the quotes, or has found what they enclose.
Quoting ==
  \/ p = 1 /\ state = 0 /\ argv = Prefix
  \/ p > 1 /\ state = 2 /\ start = 2 /\ argv = Prefix /\ \A n \in 2 .. p - 1 : ~Closes(text, n)
  \/ \E n \in 2 .. p - 1 :
       /\ Closes(text, n) /\ \A j \in 2 .. n - 1 : ~Closes(text, j)
       /\ Len(argv) >= 3 /\ argv[3] = SubSeq(text, 2, n - 1)
       /\ p = n + 1 => state = 0 /\ argv = Append(Prefix, SubSeq(text, 2, n - 1))

\* Without quotes no token has a space in it, and a text without one is a token.
Plain ==
  /\ state # 2
  /\ state = 1 => \A j \in start .. p - 1 : ~IsSpace(text[j])
  /\ \A i \in 3 .. Len(argv) : Solid(argv[i])
  /\ Solid(text) => argv = Prefix /\ IF p = 1 THEN state = 0 ELSE state = 1 /\ start = 1

Syncs(v) ==
  /\ Len(argv) >= 2 /\ Sent(v)
  /\ Ends(v) # {} => Cut(v)
  /\ Ends(v) = {} /\ Spaced(v) => Quoting
  /\ Ends(v) = {} /\ ~Spaced(v) => Plain

SInv ==
  /\ TInv
  /\ stage = "request" => Headed(argv)
  /\ ran # <<>> => Headed(ran)
  /\ stage \in {"request", "feed"} => synced = <<>>
  /\ stage = "sync" =>
       /\ Len(ran) >= 3 /\ FromRequest(ran)
       /\ synced = <<>> => Syncs(ran[3])
       /\ synced # <<>> => ~Transferable(ran[3]) /\ Wrong(synced[1], ran[3])
  /\ stage = "done" /\ Len(ran) >= 3 =>
       IF Transferable(ran[3]) THEN synced = <<SubSeq(ran, 1, 3)>>
       ELSE synced # <<>> /\ Wrong(synced[1], ran[3])

\* A step leaves the tokens, or adds the one the scanner is in.
LEMMA Longer ==
  ASSUME TInv, skip_spaces \/ in_token \/ in_quoted_token
  PROVE  /\ argv \in Seq(Word) /\ Len(argv) \in Nat /\ Token \in Seq(Chars) /\ Len(Token) <= Len(text)
         /\ Len(text) \in Nat /\ Len(Token) \in Nat
         /\ \/ argv' = argv
            \/ /\ argv' = Append(argv, Token) /\ Len(argv') = Len(argv) + 1
               /\ argv'[Len(argv) + 1] = Token
         /\ \A i \in 1 .. Len(argv) : argv'[i] = argv[i]
<1>1. argv \in Seq(Word) /\ Token \in Word /\ Token \in Seq(Chars) /\ Len(Token) <= Len(text) /\ text \in Seq(Chars)
  BY TokenTyped DEF TInv, Texts
<1>2. argv' = argv \/ argv' = Append(argv, Token)
  BY DEF skip_spaces, in_token, in_quoted_token
<1> HIDE DEF Token
<1>3. /\ Len(Append(argv, Token)) = Len(argv) + 1 /\ Len(argv) \in Nat
      /\ \A i \in 1 .. Len(argv) : Append(argv, Token)[i] = argv[i]
      /\ Append(argv, Token)[Len(argv) + 1] = Token
  BY <1>1, AppendIs
<1>4. Len(text) \in Nat /\ Len(Token) \in Nat
  BY <1>1
<1> QED
  BY <1>1, <1>2, <1>3, <1>4

LEMMA HeadedStep ==
  ASSUME TInv, skip_spaces \/ in_token \/ in_quoted_token
  PROVE  /\ Len(argv) >= 2 => Len(argv') >= 2
         /\ Headed(argv) => Headed(argv')
<1>1. /\ Len(argv) \in Nat /\ (argv' = argv \/ Len(argv') = Len(argv) + 1)
      /\ \A i \in 1 .. Len(argv) : argv'[i] = argv[i]
  BY Longer
<1>2. Len(argv) >= 2 => 1 \in 1 .. Len(argv) /\ 2 \in 1 .. Len(argv)
  BY <1>1
<1> QED
  BY <1>1, <1>2 DEF Headed

LEMMA CutStep ==
  ASSUME TInv, NEW v \in Seq(Chars), Len(text) < Len(v), Cut(v), skip_spaces \/ in_token \/ in_quoted_token
  PROVE  Cut(v)'
<1>1. /\ Len(argv) \in Nat /\ Len(Token) <= Len(text) /\ Len(text) \in Nat /\ Len(Token) \in Nat
      /\ argv' = argv \/ (Len(argv') = Len(argv) + 1 /\ argv'[Len(argv) + 1] = Token)
      /\ \A i \in 1 .. Len(argv) : argv'[i] = argv[i]
  BY Longer
<1> HIDE DEF Token
<1>2. Len(v) \in Nat /\ Len(Token) < Len(v)
  BY <1>1
<1>3. ASSUME NEW i \in 3 .. Len(argv') PROVE Len(argv'[i]) < Len(v)
  <2>1. CASE i \in 3 .. Len(argv)
    <3>1. i \in 1 .. Len(argv)
      BY <1>1, <2>1
    <3> QED
      BY <1>1, <2>1, <3>1 DEF Cut
  <2>2. CASE i \notin 3 .. Len(argv)
    <3>1. Len(argv') = Len(argv) + 1 /\ argv'[Len(argv) + 1] = Token /\ i = Len(argv) + 1
      BY <1>1, <2>2
    <3> QED
      BY <1>2, <3>1
  <2> QED
    BY <2>1, <2>2
<1> QED
  BY <1>3 DEF Cut

LEMMA PlainStep ==
  ASSUME TInv, Plain, ~Has(text, "quote"), skip_spaces \/ in_token \/ in_quoted_token
  PROVE  Plain'
<1>1. /\ p \in 1 .. Len(text) /\ p \in Nat /\ Len(text) \in Nat /\ p' = p + 1 /\ UNCHANGED text
      /\ start \in 1 .. p /\ text \in Seq(Chars) /\ p' - 1 = p /\ p' # 1
  BY StepIs, SMTT(40) DEF TInv, Texts
<1>2. c = text[p] /\ c # "quote" /\ (Solid(text) => ~IsSpace(c))
  BY <1>1 DEF c, Has, Solid
<1>3. /\ argv \in Seq(Word) /\ Len(argv) \in Nat /\ Token \in Seq(Chars)
      /\ argv' = argv \/ (Len(argv') = Len(argv) + 1 /\ argv'[Len(argv) + 1] = Token)
      /\ \A i \in 1 .. Len(argv) : argv'[i] = argv[i]
  BY Longer
<1>4. CASE skip_spaces
  <2>1. /\ state = 0 /\ argv' = argv
        /\ state' = IF IsSpace(c) THEN 0 ELSE 1
        /\ start' = IF IsSpace(c) THEN start ELSE p
    BY <1>2, <1>4 DEF skip_spaces, First
  <2>2. state' = 1 => \A j \in start' .. p' - 1 : ~IsSpace(text[j])
    <3>1. ASSUME state' = 1 PROVE ~IsSpace(c) /\ start' = p
      BY <2>1, <3>1
    <3>2. \A j \in p .. p : j = p
      BY <1>1
    <3> QED
      BY <1>1, <1>2, <3>1, <3>2
  <2>3. Solid(text) => argv = Prefix /\ p = 1 /\ state' = 1 /\ start' = 1
    BY <1>2, <2>1 DEF Plain
  <2> QED
    BY <1>1, <2>1, <2>2, <2>3 DEF Plain
<1>5. CASE in_token
  <2>1. /\ state = 1 /\ start' = start
        /\ state' = IF IsSpace(c) THEN 0 ELSE 1
        /\ argv' = IF IsSpace(c) THEN Append(argv, Token) ELSE argv
        /\ \A j \in start .. p - 1 : ~IsSpace(text[j])
    BY <1>5 DEF in_token, Plain
  <2>2. Solid(Token)
    <3>1. PICK m \in Nat \ {0}, n \in Nat : m = start /\ n = p - 1 /\ n <= Len(text)
      <4>1. start \in Nat \ {0} /\ p - 1 \in Nat /\ p - 1 <= Len(text)
        BY <1>1
      <4> QED
        BY <4>1
    <3>2. Token = SubSeq(text, m, n)
      BY <3>1, Zenon DEF Token
    <3>3. /\ Len(SubSeq(text, m, n)) = IF m <= n THEN n - m + 1 ELSE 0
          /\ \A i \in 1 .. Len(SubSeq(text, m, n)) : SubSeq(text, m, n)[i] = text[m + i - 1]
      BY <1>1, <3>1, PartIs
    <3> DEFINE u == SubSeq(text, m, n)
    <3> HIDE DEF u
    <3>4. \A i \in 1 .. Len(u) : u[i] = text[m + i - 1] /\ m + i - 1 \in start .. p - 1
      BY <3>1, <3>3 DEF u
    <3> QED
      BY <2>1, <3>2, <3>4 DEF Solid, u
  <2>3. \A i \in 3 .. Len(argv') : Solid(argv'[i])
    <3> HIDE DEF Token
    <3> SUFFICES ASSUME NEW i \in 3 .. Len(argv') PROVE Solid(argv'[i])
      OBVIOUS
    <3>1. CASE i \in 3 .. Len(argv)
      <4>1. i \in 1 .. Len(argv)
        BY <1>3, <3>1
      <4> QED
        BY <1>3, <3>1, <4>1 DEF Plain
    <3>2. CASE i \notin 3 .. Len(argv)
      <4>1. argv'[Len(argv) + 1] = Token /\ i = Len(argv) + 1
        BY <1>3, <3>2
      <4> QED
        BY <2>2, <4>1
    <3> QED
      BY <3>1, <3>2
  <2>4. state' = 1 => \A j \in start' .. p' - 1 : ~IsSpace(text[j])
    <3>1. ASSUME state' = 1, NEW j \in start .. p PROVE ~IsSpace(text[j])
      <4>1. j \in start .. p - 1 \/ j = p
        BY <1>1
      <4>2. ~IsSpace(c)
        BY <2>1, <3>1
      <4> QED
        BY <1>2, <2>1, <4>1, <4>2
    <3> QED
      BY <1>1, <2>1, <3>1
  <2>5. Solid(text) => argv' = Prefix /\ state' = 1 /\ start' = 1
    BY <1>2, <2>1 DEF Plain
  <2>6. state' # 2
    BY <2>1
  <2> QED
    BY <1>1, <2>3, <2>4, <2>5, <2>6 DEF Plain
<1>6. CASE in_quoted_token
  BY <1>6 DEF in_quoted_token, Plain
<1> QED
  BY <1>4, <1>5, <1>6

LEMMA QuotingStep ==
  ASSUME TInv, Quoting, text[1] = "quote", skip_spaces \/ in_token \/ in_quoted_token
  PROVE  Quoting'
<1>1. /\ p \in 1 .. Len(text) /\ p \in Nat /\ p' = p + 1 /\ UNCHANGED text
      /\ p' > 1 /\ p' # 1 /\ p' - 1 = p
  <2>1. p \in Nat \ {0} /\ Len(text) \in Nat /\ p' = p + 1 /\ p <= Len(text) /\ text' = text
    BY StepIs DEF TInv, Texts
  <2> QED
    BY <2>1
<1>2. CASE p = 1 /\ state = 0 /\ argv = Prefix
  <2>1. skip_spaces /\ c = "quote"
    BY <1>2 DEF in_token, in_quoted_token, c
  <2>2. state' = 2 /\ start' = 2 /\ argv' = Prefix
    BY <1>2, <2>1 DEF skip_spaces, IsSpace, First
  <2>3. \A n \in 2 .. p' - 1 : ~Closes(text', n)
    BY <1>1, <1>2
  <2> QED
    BY <1>1, <2>2, <2>3 DEF Quoting
<1>3. CASE p > 1 /\ state = 2 /\ start = 2 /\ argv = Prefix /\ \A n \in 2 .. p - 1 : ~Closes(text, n)
  <2>1. /\ state' = IF ClosesQuote THEN 0 ELSE 2
        /\ argv' = IF ClosesQuote THEN Append(argv, Token) ELSE argv
        /\ start' = start
    BY <1>3 DEF skip_spaces, in_token, in_quoted_token
  <2>2. ClosesQuote <=> Closes(text, p)
    BY DEF ClosesQuote, Closes, c
  <2>3. CASE Closes(text, p)
    <3>1. argv' = Append(Prefix, SubSeq(text, 2, p - 1)) /\ state' = 0
      BY <1>3, <2>1, <2>2, <2>3, Zenon DEF Token
    <3>2. Len(argv') >= 3 /\ argv'[3] = SubSeq(text, 2, p - 1)
      <4>1. Prefix \in Seq(Word) /\ Len(Prefix) = 2 /\ Token \in Word
        BY PrefixIs, TokenTyped
      <4> DEFINE w == Token
      <4>2. w = SubSeq(text, 2, p - 1)
        BY <1>3, Zenon DEF Token
      <4> HIDE DEF w
      <4>3. Len(Append(Prefix, w)) = Len(Prefix) + 1 /\ Append(Prefix, w)[Len(Prefix) + 1] = w
        <5>1. Prefix \in Seq(Word) /\ w \in Word
          BY <4>1 DEF w
        <5> QED
          BY <5>1, AppendIs, ZenonT(40)
      <4>4. Len(Prefix) + 1 = 3
        BY <4>1
      <4>5. argv' = Append(Prefix, w)
        BY <3>1, <4>2, Zenon
      <4>6. Len(argv') = 3 /\ argv'[3] = w
        BY <4>3, <4>4, <4>5, Zenon
      <4> QED
        BY <4>2, <4>6
    <3>3. p \in 2 .. p' - 1 /\ UNCHANGED text
      BY <1>1, <1>3
    <3> QED
      BY <1>3, <2>3, <3>1, <3>2, <3>3 DEF Quoting, Closes
  <2>4. CASE ~Closes(text, p)
    <3>1. state' = 2 /\ start' = 2 /\ argv' = Prefix
      BY <1>3, <2>1, <2>2, <2>4
    <3>2. \A n \in 2 .. p' - 1 : n \in 2 .. p - 1 \/ n = p
      BY <1>1
    <3>3. \A n \in 2 .. p' - 1 : ~Closes(text', n)
      BY <1>1, <1>3, <2>4, <3>2
    <3> QED
      BY <1>1, <3>1, <3>3 DEF Quoting
  <2> QED
    BY <2>3, <2>4
<1>4. ASSUME NEW n \in 2 .. p - 1,
             Closes(text, n), \A j \in 2 .. n - 1 : ~Closes(text, j),
             Len(argv) >= 3, argv[3] = SubSeq(text, 2, n - 1)
      PROVE  Quoting'
  <2>1. n \in 2 .. p' - 1 /\ p' # n + 1
    BY <1>1
  <2>2. Len(argv') >= 3 /\ argv'[3] = argv[3]
    <3>1. /\ Len(argv) \in Nat /\ (argv' = argv \/ Len(argv') = Len(argv) + 1)
          /\ \A i \in 1 .. Len(argv) : argv'[i] = argv[i]
      BY Longer
    <3>2. 3 \in 1 .. Len(argv)
      BY <1>4, <3>1
    <3> QED
      BY <1>4, <3>1, <3>2
  <2>3. argv'[3] = SubSeq(text', 2, n - 1)
    BY <1>1, <1>4, <2>2, Zenon
  <2>4. Closes(text', n) /\ \A j \in 2 .. n - 1 : ~Closes(text', j)
    BY <1>1, <1>4
  <2> QED
    BY <2>1, <2>2, <2>3, <2>4 DEF Quoting
<1> QED
  BY <1>2, <1>3, <1>4 DEF Quoting

\* What is found at the end are the tokens so far, and the one the scanner is in.
LEMMA FoundIs ==
  ASSUME TInv, p > Len(text)
  PROVE  /\ Found \in Seq(Word) /\ Len(Found) \in Nat /\ Len(argv) \in Nat /\ p - 1 = Len(text)
         /\ Len(Token) \in Nat /\ Len(Token) <= Len(text) /\ Len(text) \in Nat
         /\ \/ Found = argv /\ state # 1
            \/ /\ state = 1 /\ Found = Append(argv, Token) /\ Len(Found) = Len(argv) + 1
               /\ Found[Len(argv) + 1] = Token
         /\ \A i \in 1 .. Len(argv) : Found[i] = argv[i]
<1>1. argv \in Seq(Word) /\ Token \in Word /\ Token \in Seq(Chars) /\ Len(Token) <= Len(text) /\ text \in Seq(Chars)
  BY TokenTyped DEF TInv, Texts
<1>2. p - 1 = Len(text) /\ Len(text) \in Nat /\ Len(Token) \in Nat
  BY <1>1 DEF TInv
<1>3. Found = IF state = 1 THEN Append(argv, Token) ELSE argv
  BY DEF Found
<1> HIDE DEF Token
<1>4. /\ Append(argv, Token) \in Seq(Word) /\ Len(Append(argv, Token)) = Len(argv) + 1 /\ Len(argv) \in Nat
      /\ \A i \in 1 .. Len(argv) : Append(argv, Token)[i] = argv[i]
      /\ Append(argv, Token)[Len(argv) + 1] = Token
  BY <1>1, AppendIs
<1> QED
  BY <1>1, <1>2, <1>3, <1>4

LEMMA CutEnd ==
  ASSUME TInv, p > Len(text), NEW v \in Seq(Chars), Len(text) < Len(v), Cut(v)
  PROVE  Wrong(Found, v)
<1>1. /\ Len(Found) \in Nat /\ Len(argv) \in Nat
      /\ Len(Token) \in Nat /\ Len(Token) <= Len(text) /\ Len(text) \in Nat
      /\ \/ Found = argv
         \/ Len(Found) = Len(argv) + 1 /\ Found[Len(argv) + 1] = Token
      /\ \A i \in 1 .. Len(argv) : Found[i] = argv[i]
  BY FoundIs
<1> DEFINE f == Found
<1> HIDE DEF f, Token
<1>2. Len(v) \in Nat
  OBVIOUS
<1> SUFFICES ASSUME Len(f) >= 3, f[3] = v PROVE FALSE
  BY DEF Wrong, f
<1>3. CASE Len(argv) >= 3
  <2>1. 3 \in 1 .. Len(argv) /\ 3 \in 3 .. Len(argv)
    BY <1>1, <1>3
  <2>2. f[3] = argv[3]
    BY <1>1, <2>1 DEF f
  <2>3. Len(argv[3]) < Len(v)
    BY <2>1 DEF Cut
  <2> QED
    BY <1>2, <2>2, <2>3
<1>4. CASE ~(Len(argv) >= 3)
  <2>1. f[3] = Token
    BY <1>1, <1>4 DEF f
  <2> QED
    BY <1>1, <1>2, <2>1
<1> QED
  BY <1>3, <1>4

LEMMA PlainEnd ==
  ASSUME TInv, p > Len(text), Plain, NEW v \in Seq(Chars), text = Stripped(v), ~Has(v, "space"), Ends(v) = {}
  PROVE  IF v # <<>> /\ ~Has(v, "cr") /\ ~Has(v, "lf") THEN Found = Append(Prefix, v) ELSE Wrong(Found, v)
<1>1. /\ Len(Found) \in Nat /\ Len(argv) \in Nat /\ p - 1 = Len(text) /\ Len(text) \in Nat
      /\ \/ Found = argv /\ state # 1
         \/ state = 1 /\ Found = Append(argv, Token) /\ Len(Found) = Len(argv) + 1 /\ Found[Len(argv) + 1] = Token
      /\ \A i \in 1 .. Len(argv) : Found[i] = argv[i]
  BY FoundIs
<1>2. /\ Len(v) \in Nat /\ text \in Seq(Chars) /\ start \in 1 .. p /\ p \in Nat
  BY DEF TInv, Texts
<1>3. CASE v = <<>>
  <2>1. ~EndsLine(v) /\ Len(v) = 0
    BY <1>3 DEF EndsLine
  <2>2. text = v
    BY <2>1 DEF Stripped
  <2>3. Solid(text) /\ p = 1
    BY <1>1, <1>2, <2>1, <2>2 DEF Solid
  <2>4. Found = Prefix
    BY <1>1, <2>3 DEF Plain
  <2> QED
    BY <1>3, <2>4, PrefixIs DEF Wrong
<1>4. CASE v # <<>> /\ ~Has(v, "cr") /\ ~Has(v, "lf")
  <2>1. ~EndsLine(v) /\ Len(v) # 0 /\ v[Len(v)] # "lf"
    <3>1. ~EndsLine(v)
      BY EndsLineIs
    <3>2. Len(v) # 0
      BY <1>4
    <3>3. Len(v) \in 1 .. Len(v)
      BY <1>2, <3>2
    <3> QED
      BY <1>4, <3>1, <3>2, <3>3 DEF Has
  <2>2. text = v
    BY <2>1 DEF Stripped
  <2>3. Solid(text)
    BY <1>4, <2>2 DEF Solid, IsSpace, Has
  <2>4. p # 1
    BY <1>1, <1>2, <2>1, <2>2
  <2>5. argv = Prefix /\ state = 1 /\ start = 1
    BY <2>3, <2>4 DEF Plain
  <2>6. Token = v
    <3>1. PICK n \in Nat : n = p - 1 /\ n = Len(v)
      BY <1>1, <1>2, <2>2
    <3>2. SubSeq(v, 1, n) = v
      BY <3>1, WholeIs
    <3> QED
      BY <2>2, <2>5, <3>1, <3>2, Zenon DEF Token
  <2>7. Found = Append(Prefix, v)
    BY <1>1, <2>5, <2>6, Zenon
  <2> QED
    BY <1>4, <2>7
<1>5. CASE v # <<>> /\ (Has(v, "cr") \/ Has(v, "lf"))
  <2>1. ~Solid(v)
    BY <1>5 DEF Solid, Has, IsSpace
  <2>2. ASSUME state = 1 PROVE Solid(Token)
    <3>1. \A j \in start .. p - 1 : ~IsSpace(text[j])
      BY <2>2 DEF Plain
    <3>2. PICK m \in Nat \ {0}, n \in Nat : m = start /\ n = p - 1 /\ n <= Len(text)
      <4>1. start \in Nat \ {0} /\ p - 1 \in Nat /\ p - 1 <= Len(text)
        BY <1>1, <1>2
      <4> QED
        BY <4>1
    <3>3. Token = SubSeq(text, m, n)
      BY <3>2, Zenon DEF Token
    <3> DEFINE u == SubSeq(text, m, n)
    <3>4. /\ Len(u) = IF m <= n THEN n - m + 1 ELSE 0
          /\ \A i \in 1 .. Len(u) : u[i] = text[m + i - 1]
      BY <1>2, <3>2, PartIs
    <3> HIDE DEF u
    <3>5. \A i \in 1 .. Len(u) : u[i] = text[m + i - 1] /\ m + i - 1 \in start .. p - 1
      BY <3>2, <3>4
    <3> QED
      BY <3>1, <3>3, <3>5 DEF Solid, u
  <2> DEFINE f == Found
  <2> HIDE DEF f, Token
  <2>3. ASSUME Len(f) >= 3 PROVE Solid(f[3])
    <3>1. CASE Len(argv) >= 3
      <4>1. 3 \in 1 .. Len(argv) /\ 3 \in 3 .. Len(argv)
        BY <1>1, <3>1
      <4>2. f[3] = argv[3] /\ Solid(argv[3])
        BY <1>1, <4>1 DEF f, Plain
      <4> QED
        BY <4>2
    <3>2. CASE ~(Len(argv) >= 3)
      <4>1. f[3] = Token /\ state = 1
        BY <1>1, <2>3, <3>2 DEF f
      <4> QED
        BY <2>2, <4>1
    <3> QED
      BY <3>1, <3>2
  <2>4. Wrong(f, v)
    BY <1>1, <2>1, <2>3 DEF Wrong, f
  <2> QED
    BY <1>5, <2>4 DEF f
<1> QED
  BY <1>3, <1>4, <1>5

LEMMA BetweenQuotes ==
  ASSUME NEW v \in Seq(Chars), NEW n \in Nat, n = Len(v) + 1
  PROVE  SubSeq(InQuotes(v), 2, n) = v
<1> DEFINE q == InQuotes(v)
<1>1. /\ q \in Seq(Chars) /\ Len(v) \in Nat /\ Len(q) = Len(v) + 2 /\ n <= Len(q)
      /\ \A i \in 1 .. Len(v) : q[i + 1] = v[i]
  BY InQuotesIs
<1> HIDE DEF q
<1> DEFINE u == SubSeq(q, 2, n)
<1>2. /\ u \in Seq(Chars) /\ Len(u) = IF 2 <= n THEN n - 2 + 1 ELSE 0
      /\ \A i \in 1 .. Len(u) : u[i] = q[2 + i - 1]
  <2>1. 2 \in Nat \ {0}
    OBVIOUS
  <2> QED
    BY <1>1, <2>1, PartIs
<1> HIDE DEF u
<1>3. Len(u) = Len(v) /\ \A i \in 1 .. Len(v) : 2 + i - 1 = i + 1
  BY <1>1, <1>2
<1>4. u = v
  BY <1>1, <1>2, <1>3, SeqEqual
<1> QED
  BY <1>4 DEF u, q

LEMMA QuotingEnd ==
  ASSUME TInv, p > Len(text), Quoting, NEW v \in Seq(Chars), v # <<>>, text = InQuotes(v)
  PROVE  IF Quotable(v) THEN Found = Append(Prefix, v) ELSE Wrong(Found, v)
<1> DEFINE m == Len(v)
<1>1. /\ Len(Found) \in Nat /\ Len(argv) \in Nat /\ p - 1 = Len(text)
      /\ Found = argv \/ state = 1
      /\ \A i \in 1 .. Len(argv) : Found[i] = argv[i]
  BY FoundIs
<1>2. m \in Nat /\ Len(text) = m + 2 /\ text \in Seq(Chars) /\ p - 1 = m + 2 /\ p # 1 /\ p \in Nat
  BY <1>1, InQuotesIs, SMTT(30) DEF TInv
<1>3. Quotable(v) <=> \A n \in 2 .. m + 2 : Closes(text, n) <=> n = m + 2
  BY QuotableIs
<1> HIDE DEF m
<1>4. m + 2 \in 2 .. m + 2
  BY <1>2
<1>5. CASE state = 2 /\ argv = Prefix /\ \A n \in 2 .. p - 1 : ~Closes(text, n)
  <2>1. ~Quotable(v)
    BY <1>2, <1>3, <1>4, <1>5
  <2>2. Found = Prefix
    BY <1>1, <1>5
  <2> QED
    BY <2>1, <2>2, PrefixIs DEF Wrong
<1>6. ASSUME NEW n \in 2 .. p - 1,
             Closes(text, n), \A j \in 2 .. n - 1 : ~Closes(text, j),
             Len(argv) >= 3, argv[3] = SubSeq(text, 2, n - 1),
             p = n + 1 => state = 0 /\ argv = Append(Prefix, SubSeq(text, 2, n - 1))
      PROVE  IF Quotable(v) THEN Found = Append(Prefix, v) ELSE Wrong(Found, v)
  <2>1. CASE n = m + 2
    <3>1. PICK k \in Nat : k = n - 1 /\ k = m + 1
      BY <1>2, <2>1
    <3>2. SubSeq(text, 2, k) = v
      BY <3>1, BetweenQuotes DEF m
    <3>3. state = 0 /\ argv = Append(Prefix, SubSeq(text, 2, n - 1))
      BY <1>2, <1>6, <2>1
    <3>4. Found = Append(Prefix, v)
      <4>1. Found = argv
        BY <1>1, <3>3
      <4> QED
        BY <3>1, <3>2, <3>3, <4>1, Zenon
    <3>5. \A j \in 2 .. m + 2 : j \in 2 .. n - 1 \/ j = n
      BY <1>2, <2>1
    <3>6. Quotable(v)
      <4>1. ASSUME NEW j \in 2 .. m + 2 PROVE Closes(text, j) <=> j = m + 2
        <5>1. CASE j = n
          BY <1>6, <2>1, <5>1
        <5>2. CASE j # n
          BY <1>6, <2>1, <3>5, <5>2
        <5> QED
          BY <5>1, <5>2
      <4> QED
        BY <1>3, <4>1
    <3> QED
      BY <3>4, <3>6
  <2>2. CASE n # m + 2
    <3>1. ~Quotable(v)
      BY <1>2, <1>3, <1>6, <2>2
    <3>2. PICK k \in Nat : k = n - 1 /\ k <= Len(text) /\ k - 1 < m /\ k >= 1
      <4>1. PICK k \in Nat : k = n - 1
        OBVIOUS
      <4> QED
        BY <1>2, <2>2, <4>1
    <3>3. Len(SubSeq(text, 2, k)) = IF 2 <= k THEN k - 2 + 1 ELSE 0
      <4>1. 2 \in Nat \ {0}
        OBVIOUS
      <4> QED
        BY <1>2, <3>2, <4>1, PartIs
    <3> DEFINE u == SubSeq(text, 2, k)
    <3>4. argv[3] = u
      BY <1>6, <3>2, Zenon
    <3> HIDE DEF u
    <3>5. Len(u) < m
      BY <1>2, <3>2, <3>3 DEF u
    <3>6. u # v
      BY <1>2, <3>5 DEF m
    <3>7. Found[3] = argv[3]
      <4>1. 3 \in 1 .. Len(argv)
        BY <1>1, <1>6
      <4> QED
        BY <1>1, <4>1
    <3> QED
      BY <3>1, <3>4, <3>6, <3>7 DEF Wrong
  <2> QED
    BY <2>1, <2>2
<1> QED
  BY <1>2, <1>5, <1>6 DEF Quoting

\* The first line of a synchronisation, to its end.
LEMMA SyncsEnd ==
  ASSUME TInv, p > Len(text), NEW v \in Seq(Chars), Syncs(v)
  PROVE  /\ IF Transferable(v) THEN lines = <<>> /\ Found = Append(Prefix, v) ELSE Wrong(Found, v)
         /\ Found # <<>>
<1>1. Found # <<>>
  <2>1. /\ Found \in Seq(Word) /\ Len(argv) \in Nat
        /\ Found = argv \/ Len(Found) = Len(argv) + 1
    BY FoundIs
  <2>2. Len(argv) >= 2
    BY DEF Syncs
  <2> HIDE DEF Found
  <2>3. Len(Found) # 0
    BY <2>1, <2>2
  <2> QED
    BY <2>3
<1>2. CASE Ends(v) # {}
  <2>1. Wrong(Found, v)
    BY <1>2, CutEnd DEF Syncs, Sent
  <2>2. ~Transferable(v)
    BY <1>2 DEF Transferable
  <2> QED
    BY <1>1, <2>1, <2>2
<1>3. CASE Ends(v) = {} /\ Spaced(v)
  <2>1. v # <<>>
    BY <1>3 DEF Spaced, Has
  <2>2. text = InQuotes(v) /\ lines = <<>> /\ Quoting
    BY <1>3 DEF Syncs, Sent
  <2>3. Transferable(v) <=> Quotable(v)
    BY <1>3, <2>1 DEF Transferable, Spaced
  <2> QED
    BY <1>1, <2>1, <2>2, <2>3, QuotingEnd
<1>4. CASE Ends(v) = {} /\ ~Spaced(v)
  <2>1. text = Stripped(v) /\ lines = <<>> /\ Plain
    BY <1>4 DEF Syncs, Sent
  <2>2. Transferable(v) <=> v # <<>> /\ ~Has(v, "cr") /\ ~Has(v, "lf")
    BY <1>4 DEF Transferable, Spaced
  <2>3. ~Has(v, "space")
    BY <1>4 DEF Spaced
  <2> QED
    BY <1>1, <1>4, <2>1, <2>2, <2>3, PlainEnd
<1> QED
  BY <1>2, <1>3, <1>4

\* A step of the scanner in it.
LEMMA SyncsStep ==
  ASSUME TInv, NEW v \in Seq(Chars), Syncs(v), skip_spaces \/ in_token \/ in_quoted_token
  PROVE  Syncs(v)'
<1>1. UNCHANGED <<text, lines>>
  BY StepIs
<1>2. Len(argv') >= 2
  BY HeadedStep DEF Syncs
<1>3. Sent(v)'
  BY <1>1 DEF Syncs, Sent
<1>4. Ends(v) # {} => Cut(v)'
  BY CutStep DEF Syncs, Sent
<1>5. Ends(v) = {} /\ Spaced(v) => Quoting'
  <2>1. ASSUME Ends(v) = {}, Spaced(v) PROVE text[1] = "quote" /\ Quoting
    BY <2>1, InQuotesIs DEF Syncs, Sent
  <2> QED
    BY <2>1, QuotingStep
<1>6. Ends(v) = {} /\ ~Spaced(v) => Plain'
  <2>1. ASSUME Ends(v) = {}, ~Spaced(v) PROVE ~Has(text, "quote") /\ Plain
    <3>1. text = Stripped(v) /\ ~Has(v, "quote") /\ Plain
      BY <2>1 DEF Syncs, Sent, Spaced
    <3>2. Len(text) <= Len(v) /\ Len(text) \in Nat /\ Len(v) \in Nat /\ \A i \in 1 .. Len(text) : text[i] = v[i]
      BY <3>1, StrippedIs
    <3>3. \A i \in 1 .. Len(text) : i \in 1 .. Len(v)
      BY <3>2
    <3> QED
      BY <3>1, <3>2, <3>3 DEF Has
  <2> QED
    BY <2>1, PlainStep
<1> QED
  BY <1>2, <1>3, <1>4, <1>5, <1>6 DEF Syncs

\* What sync_replica sends for a value, and what of it the replica takes for a line.
LEMMA SentLine ==
  ASSUME NEW v \in Seq(Chars), NEW q, q = Quoted(v), NEW s, s = q \o CRLF
  PROVE  /\ s \in Seq(Chars) /\ Ends(s) # {}
         /\ Ends(v) # {} => Len(Stripped(Lines(s)[1])) < Len(v)
         /\ Ends(v) = {} => Lines(s) = <<q>> /\ Stripped(q) = IF Spaced(v) THEN InQuotes(v) ELSE Stripped(v)
<1>1. q \in Seq(Chars) /\ Len(q) \in Nat /\ Len(v) \in Nat
  BY QuotedIs
<1>2. q = IF Spaced(v) THEN InQuotes(v) ELSE v
  BY Zenon DEF Quoted, Spaced, InQuotes
<1>3. /\ s \in Seq(Chars) /\ Len(s) = Len(q) + 2 /\ Ends(s) = Ends(q) \cup {Len(q) + 1}
      /\ \A i \in 1 .. Len(q) : s[i] = q[i]
  BY <1>1, EndAdded
<1>4. ASSUME NEW e \in Ends(v) PROVE Len(Stripped(Lines(s)[1])) < Len(v)
  <2>1. PICK d \in Ends(s) : d <= Len(v)
    <3>1. e \in 1 .. Len(v) - 1
      BY DEF Ends
    <3>2. CASE Spaced(v)
      <4>1. e + 1 \in Ends(q)
        BY <1>2, <3>2, QuotedEnds
      <4> QED
        BY <1>1, <1>3, <3>1, <4>1
    <3>3. CASE ~Spaced(v)
      BY <1>1, <1>2, <1>3, <3>1, <3>3
    <3> QED
      BY <3>2, <3>3
  <2> DEFINE l == Lines(s)[1]
  <2>2. l \in Seq(Chars) /\ Len(l) \in Nat /\ Len(l) < d
    BY <1>3, FirstLine
  <2> HIDE DEF l
  <2>3. Len(Stripped(l)) \in Nat /\ Len(Stripped(l)) <= Len(l)
    BY <2>2, StrippedIs
  <2>4. d \in Int
    BY DEF Ends
  <2>5. Len(Stripped(l)) < Len(v)
    BY <1>1, <2>1, <2>2, <2>3, <2>4
  <2> QED
    BY <2>5 DEF l
<1>5. ASSUME Ends(v) = {}
      PROVE  Lines(s) = <<q>> /\ Stripped(q) = IF Spaced(v) THEN InQuotes(v) ELSE Stripped(v)
  <2>1. Ends(q) = {}
    BY <1>2, <1>5, QuotedEnds
  <2>2. PICK n \in Nat : n = Len(q)
    BY <1>1
  <2>3. Lines(s) = <<SubSeq(s, 1, n)>>
    <3>1. Len(s) = n + 2 /\ Ends(s) = {n + 1}
      BY <1>3, <2>1, <2>2
    <3> QED
      BY <1>3, <3>1, LinesOne
  <2>4. SubSeq(s, 1, n) = q
    <3>1. SubSeq(s, 1, n) = SubSeq(q, 1, n)
      <4>1. n <= Len(s) /\ n <= Len(q) /\ 1 \in Nat \ {0}
        BY <1>1, <1>3, <2>2
      <4> QED
        BY <1>1, <1>3, <2>2, <4>1, PartSame
    <3> QED
      BY <1>1, <2>2, <3>1, WholeIs
  <2>5. ASSUME Spaced(v) PROVE Stripped(q) = q
    <3>1. q[Len(q)] = "quote"
      BY <1>2, <2>5, InQuotesIs
    <3>2. ~EndsLine(q)
      BY <1>1, <2>1, EndsLineIs
    <3> QED
      BY <3>1, <3>2 DEF Stripped
  <2> QED
    BY <1>2, <2>3, <2>4, <2>5
<1> QED
  BY <1>3, <1>4, <1>5

\* So a synchronisation begins.
LEMMA SentIs ==
  ASSUME NEW v \in Seq(Chars), Receives(Quoted(v) \o CRLF)
  PROVE  Syncs(v)' /\ Headed(argv)'
<1> DEFINE q == Quoted(v)
           s == q \o CRLF
<1>1. /\ s \in Seq(Chars) /\ Ends(s) # {}
      /\ Ends(v) # {} => Len(Stripped(Lines(s)[1])) < Len(v)
      /\ Ends(v) = {} => Lines(s) = <<q>> /\ Stripped(q) = IF Spaced(v) THEN InQuotes(v) ELSE Stripped(v)
  BY SentLine
<1>2. lines' = Tail(Lines(s)) /\ text' = Stripped(Head(Lines(s))) /\ p' = 1 /\ state' = 0 /\ argv' = Prefix
  BY DEF Receives, Scan
<1> HIDE DEF s, q
<1> DEFINE l == Lines(s)
<1>3. l \in Seq(Seq(Chars)) /\ Len(l) > 0
  BY <1>1, LinesAre
<1>4. lines' = Tail(l) /\ text' = Stripped(Head(l))
  BY <1>2
<1>5. /\ Ends(v) # {} => Len(Stripped(l[1])) < Len(v)
      /\ Ends(v) = {} => l = <<q>>
  BY <1>1
<1> HIDE DEF l
<1>6. Head(l) = l[1]
  BY <1>3
<1>7. Sent(v)'
  <2>1. ASSUME Ends(v) # {} PROVE Len(text') < Len(v)
    BY <1>4, <1>5, <1>6, <2>1
  <2>2. ASSUME Ends(v) = {} PROVE lines' = <<>> /\ text' = IF Spaced(v) THEN InQuotes(v) ELSE Stripped(v)
    <3>1. Tail(<<q>>) = <<>> /\ Head(<<q>>) = q
      OBVIOUS
    <3> QED
      BY <1>1, <1>4, <1>5, <2>2, <3>1
  <2> QED
    BY <2>1, <2>2 DEF Sent
<1>8. Len(argv') >= 2 /\ Cut(v)' /\ Headed(argv)'
  BY <1>2, PrefixIs DEF Cut, Headed
<1>9. Quoting'
  BY <1>2 DEF Quoting
<1>10. Plain'
  BY <1>2, PrefixIs DEF Plain
<1> QED
  BY <1>7, <1>8, <1>9, <1>10 DEF Syncs

\* The first three tokens of a command that sets a value.
LEMMA TargetIs ==
  ASSUME NEW words \in Seq(Word), Headed(words), Len(words) >= 3
  PROVE  /\ SubSeq(words, 1, 3) = Append(Prefix, words[3])
         /\ ~Wrong(SubSeq(words, 1, 3), words[3])
<1>1. PICK w \in Word : w = words[3]
  OBVIOUS
<1> DEFINE u == SubSeq(words, 1, 3)
           t == Append(Prefix, w)
<1>2. u \in Seq(Word) /\ Len(u) = 3 /\ u[1] = words[1] /\ u[2] = words[2] /\ u[3] = w
  BY <1>1
<1>3. t \in Seq(Word) /\ Len(t) = 3 /\ t[1] = Prefix[1] /\ t[2] = Prefix[2] /\ t[3] = w
  <2>1. Prefix \in Seq(Word)
    BY PrefixIs
  <2>2. /\ t \in Seq(Word) /\ Len(t) = Len(Prefix) + 1 /\ Len(Prefix) \in Nat
        /\ \A i \in 1 .. Len(Prefix) : t[i] = Prefix[i]
        /\ t[Len(Prefix) + 1] = w
    BY <2>1, AppendIs, Zenon
  <2> HIDE DEF t
  <2>3. 1 \in 1 .. Len(Prefix) /\ 2 \in 1 .. Len(Prefix) /\ Len(Prefix) + 1 = 3
    BY PrefixIs
  <2> QED
    BY <2>1, <2>2, <2>3
<1> HIDE DEF u, t
<1>4. Len(u) = Len(t) /\ \A i \in 1 .. Len(u) : u[i] = t[i]
  <2>1. \A i \in 1 .. 3 : i = 1 \/ i = 2 \/ i = 3
    OBVIOUS
  <2> QED
    BY <1>2, <1>3, <2>1 DEF Headed
<1>5. u = t
  BY <1>2, <1>3, <1>4, SeqEqual, Zenon
<1>6. ~Wrong(u, w)
  BY <1>2 DEF Wrong
<1> QED
  BY <1>1, <1>5, <1>6, Zenon DEF u, t

LEMMA InitSInv == Init => SInv
<1> SUFFICES ASSUME Init PROVE SInv
  OBVIOUS
<1>1. TInv /\ stage = "request" /\ argv = Prefix /\ ran = <<>> /\ synced = <<>>
  BY InitTInv DEF Init
<1> QED
  BY <1>1, PrefixIs DEF SInv, Headed

\* The scanner takes a step.
LEMMA ScannerSInv ==
  ASSUME SInv, skip_spaces \/ in_token \/ in_quoted_token
  PROVE  SInv'
<1>1. TInv /\ TInv'
  BY StepTInv DEF SInv, Next
<1>2. UNCHANGED <<stage, ran, synced>>
  BY StepIs
<1>3. Headed(argv) => Headed(argv')
  BY <1>1, HeadedStep
<1>4. ASSUME stage = "sync", synced = <<>> PROVE Syncs(ran[3])'
  <2>1. Len(ran) >= 3 /\ FromRequest(ran) /\ Syncs(ran[3])
    BY <1>4 DEF SInv
  <2>2. PICK v \in Seq(Chars) : v = ran[3]
    BY <1>1, <2>1, ValueTyped DEF TInv
  <2>3. Syncs(v)'
    BY <1>1, <2>1, <2>2, SyncsStep
  <2>4. ran'[3] = v
    BY <1>2, <2>2
  <2> QED
    BY <2>3, <2>4 DEF Syncs, Sent, Cut
<1> QED
  BY <1>1, <1>2, <1>3, <1>4 DEF SInv, FromRequest

\* The primary executes the request.
LEMMA CommandSInv ==
  ASSUME SInv, execute_command
  PROVE  SInv'
<1>1. TInv /\ TInv'
  BY StepTInv DEF SInv, Next
<1>2. /\ stage = "request" /\ p > Len(text) /\ ran' = Found /\ synced' = synced
      /\ stage' = "feed" \/ (stage' = "done" /\ ~(Len(Found) >= 3))
  BY DEF execute_command, AtEnd
<1>3. Headed(argv) /\ synced = <<>>
  BY <1>2 DEF SInv
<1>4. Headed(Found)
  <2>1. /\ Len(Found) \in Nat /\ Len(argv) \in Nat
        /\ Found = argv \/ Len(Found) = Len(argv) + 1
        /\ \A i \in 1 .. Len(argv) : Found[i] = argv[i]
    BY <1>1, <1>2, FoundIs
  <2> HIDE DEF Found
  <2>2. 1 \in 1 .. Len(argv) /\ 2 \in 1 .. Len(argv) /\ Len(Found) >= 2
    BY <1>3, <2>1 DEF Headed
  <2> QED
    BY <1>3, <2>1, <2>2 DEF Headed
<1> QED
  BY <1>1, <1>2, <1>3, <1>4 DEF SInv

\* A replica has executed a line; after the last one the synchronisation begins.
LEMMA FedSInv ==
  ASSUME SInv, execute_fed
  PROVE  SInv'
<1>1. TInv /\ TInv'
  BY StepTInv DEF SInv, Next
<1>2. /\ stage = "feed" /\ UNCHANGED <<ran, synced>>
      /\ NextLine(stage' = "sync" /\ Receives(Quoted(ran[3]) \o CRLF))
  BY DEF execute_fed, AtEnd
<1>3. synced = <<>> /\ FromRequest(ran) /\ Len(ran) >= 3 /\ (ran # <<>> => Headed(ran))
  BY <1>1, <1>2 DEF SInv, TInv
<1>4. CASE lines # <<>>
  <2>1. stage' = "feed"
    BY <1>2, <1>4 DEF NextLine
  <2> QED
    BY <1>1, <1>2, <1>3, <2>1 DEF SInv
<1>5. CASE lines = <<>>
  <2>1. stage' = "sync" /\ Receives(Quoted(ran[3]) \o CRLF)
    BY <1>2, <1>5 DEF NextLine
  <2>2. PICK v \in Seq(Chars) : v = ran[3]
    BY <1>1, <1>3, ValueTyped DEF TInv
  <2>3. Receives(Quoted(v) \o CRLF)
    BY <2>1, <2>2
  <2>4. Syncs(v)'
    BY <2>3, SentIs
  <2>5. Syncs(ran[3])'
    <3>1. ran'[3] = v
      BY <1>2, <2>2
    <3> QED
      BY <2>4, <3>1 DEF Syncs, Sent, Cut
  <2> QED
    BY <1>1, <1>2, <1>3, <2>1, <2>5 DEF SInv, FromRequest
<1> QED
  BY <1>4, <1>5

\* The replica that connected later has executed a line: the first one decides.
LEMMA SyncedSInv ==
  ASSUME SInv, execute_synced
  PROVE  SInv'
<1>1. TInv /\ TInv'
  BY StepTInv DEF SInv, Next
<1>2. /\ stage = "sync" /\ p > Len(text) /\ UNCHANGED ran
      /\ synced' = IF Found = <<>> THEN synced ELSE Append(synced, Found)
      /\ stage' = IF lines # <<>> THEN "sync" ELSE "done"
  BY DEF execute_synced, AtEnd, NextLine
<1>3. /\ Len(ran) >= 3 /\ FromRequest(ran) /\ (ran # <<>> => Headed(ran)) /\ ran \in Seq(Word)
      /\ synced = <<>> => Syncs(ran[3])
      /\ synced # <<>> => ~Transferable(ran[3]) /\ Wrong(synced[1], ran[3])
  BY <1>1, <1>2 DEF SInv, TInv
<1>4. PICK v \in Seq(Chars) : v = ran[3]
  BY <1>3, ValueTyped
<1>5. Headed(ran)
  <2>1. ran # <<>>
    BY <1>3
  <2> QED
    BY <1>3, <2>1
<1>6. Found \in Seq(Word) /\ synced \in Seq(Seq(Word))
  BY <1>1, FoundTyped DEF TInv
<1>7. /\ ~Transferable(v) => synced' # <<>> /\ Wrong(synced'[1], v)
      /\ Transferable(v) => lines = <<>> /\ synced' = <<SubSeq(ran, 1, 3)>>
  <2>1. CASE synced = <<>>
    <3>1. /\ IF Transferable(v) THEN lines = <<>> /\ Found = Append(Prefix, v) ELSE Wrong(Found, v)
          /\ Found # <<>>
      BY <1>1, <1>2, <1>3, <1>4, <2>1, SyncsEnd
    <3>2. SubSeq(ran, 1, 3) = Append(Prefix, v)
      BY <1>3, <1>4, <1>5, TargetIs
    <3> DEFINE f == Found
    <3>3. synced' = Append(<<>>, f)
      BY <1>2, <2>1, <3>1
    <3> HIDE DEF f
    <3>4. Append(<<>>, f) = <<f>> /\ <<f>> # <<>> /\ <<f>>[1] = f
      OBVIOUS
    <3> QED
      BY <3>1, <3>2, <3>3, <3>4 DEF f
  <2>2. CASE synced # <<>>
    <3>1. ~Transferable(v) /\ Wrong(synced[1], v)
      BY <1>3, <1>4, <2>2
    <3> DEFINE f == Found
    <3>2. synced' = synced \/ synced' = Append(synced, f)
      BY <1>2
    <3>3. f \in Seq(Word)
      BY <1>6
    <3> HIDE DEF f
    <3>4. Append(synced, f) # <<>> /\ Append(synced, f)[1] = synced[1]
      <4> DEFINE a == Append(synced, f)
      <4>1. /\ a \in Seq(Seq(Word)) /\ Len(a) = Len(synced) + 1 /\ Len(synced) \in Nat
            /\ \A i \in 1 .. Len(synced) : a[i] = synced[i]
        BY <1>6, <3>3, AppendIs
      <4>2. Len(synced) # 0
        BY <1>6, <2>2
      <4> HIDE DEF a
      <4>3. 1 \in 1 .. Len(synced) /\ Len(a) # 0
        BY <4>1, <4>2
      <4>4. a # <<>> /\ a[1] = synced[1]
        BY <4>1, <4>3
      <4> QED
        BY <4>4 DEF a
    <3> QED
      BY <2>2, <3>1, <3>2, <3>4
  <2> QED
    BY <2>1, <2>2
<1>8. stage' \in {"sync", "done"} /\ (Transferable(v) => stage' = "done") /\ ran'[3] = v /\ ran' = ran
  BY <1>2, <1>4, <1>7
<1>9. ~Transferable(v) => synced' # <<>>
  BY <1>7
<1>10. stage' = "sync" => ~Transferable(v) /\ synced' # <<>> /\ Wrong(synced'[1], v)
  BY <1>7, <1>8
<1> QED
  BY <1>1, <1>3, <1>5, <1>7, <1>8, <1>10 DEF SInv, FromRequest

LEMMA StepSInv == SInv /\ [Next]_vars => SInv'
<1> SUFFICES ASSUME SInv, [Next]_vars PROVE SInv'
  OBVIOUS
<1>1. CASE UNCHANGED vars
  <2>1. TInv'
    BY <1>1, StepTInv DEF SInv
  <2>2. UNCHANGED <<stage, lines, text, p, state, start, argv, ran, synced>>
    BY <1>1 DEF vars
  <2>3. stage = "sync" /\ synced = <<>> => Syncs(ran[3])'
    BY <2>2 DEF SInv, Syncs, Sent, Cut, Quoting, Plain
  <2> QED
    BY <2>1, <2>2, <2>3 DEF SInv, FromRequest
<1> QED
  BY <1>1, ScannerSInv, CommandSInv, FedSInv, SyncedSInv DEF Next

\* A replica that connects later (sync_replica, replication_thread) ends with the value
\* the primary executed just if the value is transferable, whatever its length: one that
\* is empty or has an end of a line in it, that needs quotes and cannot be read inside
\* them, or needs none and has a line feed or a carriage return, never arrives as it was.
THEOREM SyncFaithful == Spec => []SyncSame
<1>1. SInv => SyncSame
  <2> SUFFICES ASSUME SInv, stage = "done", Len(ran) >= 3
               PROVE  synced = <<SubSeq(ran, 1, 3)>> <=> Transferable(ran[3])
    BY DEF SyncSame
  <2>1. IF Transferable(ran[3]) THEN synced = <<SubSeq(ran, 1, 3)>>
        ELSE synced # <<>> /\ Wrong(synced[1], ran[3])
    BY DEF SInv
  <2>2. ran \in Seq(Word) /\ Headed(ran)
    <3>1. ran \in Seq(Word) /\ (ran # <<>> => Headed(ran))
      BY DEF SInv, TInv
    <3> QED
      BY <3>1
  <2>3. ~Wrong(SubSeq(ran, 1, 3), ran[3])
    BY <2>2, TargetIs
  <2> DEFINE u == SubSeq(ran, 1, 3)
  <2> HIDE DEF u
  <2>4. <<u>>[1] = u
    OBVIOUS
  <2> QED
    BY <2>1, <2>3, <2>4 DEF u
<1>2. Spec => []SInv
  BY InitSInv, StepSInv, PTL DEF Spec
<1> QED
  BY <1>1, <1>2, PTL

=============================================================================
