------------------------- MODULE ReplicationProofs -------------------------
(***************************************************************************)
(* For any number of keys, sockets, connections and events: a replica in   *)
(* step has lost nothing of the primary's database but for the line glued  *)
(* to a rest of an earlier one, whatever was cut, closed, connected twice, *)
(* killed or told to change its role before.  And what the two             *)
(* counterexamples of Replication are due to: keys that the primary        *)
(* deletes, and a promotion in the sleep of the replica's thread.          *)
(***************************************************************************)
EXTENDS Replication, FiniteSetTheorems, SequenceTheorems, WellFoundedInduction, TLAPS

-----------------------------------------------------------------------------
(* Numbers and lists                                                       *)

\* Natural numbers have a least element.
LEMMA LeastExists ==
  ASSUME NEW T, T \subseteq Nat, T # {}
  PROVE  \E n \in T : \A m \in T : n <= m
<1> DEFINE Less == {p \in Nat \X Nat : p[1] < p[2]}
<1>1. IsWellFoundedOn(Less, Nat)
  BY NatLessThanWellFounded DEF OpToRel
<1> HIDE DEF Less
<1>2. PICK n \in T : \A m \in T : ~(<<m, n>> \in Less)
  BY <1>1, WFMin
<1>3. ASSUME NEW m \in T PROVE n <= m
  <2>1. m \in Nat /\ n \in Nat
    OBVIOUS
  <2>2. ~(m < n)
    BY <1>2, <2>1 DEF Less
  <2> QED
    BY <2>1, <2>2
<1> QED
  BY <1>3

LEMMA MinIs ==
  ASSUME NEW T, T \subseteq Nat, T # {}
  PROVE  Min(T) \in T
<1>1. \E n \in T : \A m \in T : n <= m
  BY LeastExists
<1> QED
  BY <1>1 DEF Min

\* The function KeptUpTo chooses.
KeptBy(l, S, n, g) ==
  g = [i \in 0 .. n |->
         IF i = 0 THEN <<>> ELSE IF l[i] \in S THEN Append(g[i - 1], l[i]) ELSE g[i - 1]]

LEMMA KeptExists ==
  ASSUME NEW l, NEW S, NEW n \in Nat
  PROVE  \E g : KeptBy(l, S, n, g)
<1> DEFINE T == {k \in Nat : ~\E g : KeptBy(l, S, k, g)}
<1> SUFFICES ASSUME n \in T PROVE FALSE
  OBVIOUS
<1>1. PICK k \in T : \A m \in T : k <= m
  BY LeastExists
<1>2. k \in Nat /\ ~\E g : KeptBy(l, S, k, g)
  OBVIOUS
<1>3. CASE k = 0
  <2>1. KeptBy(l, S, 0, [i \in 0 .. 0 |-> <<>>])
    BY DEF KeptBy
  <2> QED
    BY <1>2, <1>3, <2>1
<1>4. CASE k # 0
  <2>1. k - 1 \in Nat /\ ~(k <= k - 1)
    BY <1>2, <1>4
  <2>2. PICK g : KeptBy(l, S, k - 1, g)
    BY <1>1, <2>1
  <2> DEFINE x == IF l[k] \in S THEN Append(g[k - 1], l[k]) ELSE g[k - 1]
             h == [i \in 0 .. k |-> IF i = k THEN x ELSE g[i]]
  <2>3. \A i \in 0 .. k - 1 :
          g[i] = IF i = 0 THEN <<>> ELSE IF l[i] \in S THEN Append(g[i - 1], l[i]) ELSE g[i - 1]
    BY <2>2 DEF KeptBy
  <2>4. \A i \in 0 .. k : i # k => i \in 0 .. k - 1
    BY <1>2
  <2>5. \A i \in 0 .. k : i # 0 => i - 1 \in 0 .. k /\ i - 1 # k
    BY <1>2
  <2>6. \A i \in 0 .. k : i # 0 => h[i - 1] = g[i - 1]
    BY <2>5
  <2>7. \A i \in 0 .. k :
          h[i] = IF i = 0 THEN <<>> ELSE IF l[i] \in S THEN Append(h[i - 1], l[i]) ELSE h[i - 1]
    BY <1>4, <2>3, <2>4, <2>6
  <2>8. KeptBy(l, S, k, h)
    BY <2>7 DEF KeptBy
  <2> QED
    BY <1>2, <2>8
<1> QED
  BY <1>3, <1>4

LEMMA KeptIs ==
  ASSUME NEW T, NEW l \in Seq(T), NEW S
  PROVE  /\ KeptUpTo(l, S)[0] = <<>>
         /\ \A i \in 1 .. Len(l) :
              KeptUpTo(l, S)[i] = IF l[i] \in S THEN Append(KeptUpTo(l, S)[i - 1], l[i])
                                                ELSE KeptUpTo(l, S)[i - 1]
<1>1. Len(l) \in Nat
  OBVIOUS
<1>2. \E g : KeptBy(l, S, Len(l), g)
  BY <1>1, KeptExists
<1>3. KeptUpTo(l, S) = CHOOSE g : KeptBy(l, S, Len(l), g)
  BY DEF KeptUpTo, KeptBy
<1>4. KeptBy(l, S, Len(l), KeptUpTo(l, S))
  BY <1>2, <1>3
<1> DEFINE f == KeptUpTo(l, S)
<1>5. f = [i \in 0 .. Len(l) |->
             IF i = 0 THEN <<>> ELSE IF l[i] \in S THEN Append(f[i - 1], l[i]) ELSE f[i - 1]]
  BY <1>4 DEF KeptBy
<1> HIDE DEF f
<1>6. /\ 0 \in 0 .. Len(l)
      /\ \A i \in 1 .. Len(l) : i \in 0 .. Len(l) /\ i # 0
  BY <1>1
<1>7. f[0] = <<>>
  BY <1>5, <1>6
<1>8. \A i \in 1 .. Len(l) : f[i] = IF l[i] \in S THEN Append(f[i - 1], l[i]) ELSE f[i - 1]
  BY <1>5, <1>6
<1> QED
  BY <1>7, <1>8 DEF f

\* What is kept of a list is in it and in the set, and nothing of the set is lost.
KeepsSome(l, S, i, g) ==
  /\ g \in Seq(S)
  /\ \A h \in 1 .. i : l[h] \in S => \E j \in 1 .. Len(g) : g[j] = l[h]

LEMMA KeptKeeps ==
  ASSUME NEW T, NEW l \in Seq(T), NEW S
  PROVE  KeepsSome(l, S, Len(l), Kept(l, S))
<1> DEFINE f == KeptUpTo(l, S)
           U == {i \in 0 .. Len(l) : ~KeepsSome(l, S, i, f[i])}
<1> SUFFICES ASSUME U # {} PROVE FALSE
  BY DEF Kept
<1>1. Len(l) \in Nat /\ U \subseteq Nat
  OBVIOUS
<1>2. PICK k \in U : \A i \in U : k <= i
  <2> HIDE DEF U
  <2> QED
    BY <1>1, LeastExists
<1>3. /\ f[0] = <<>>
      /\ \A i \in 1 .. Len(l) : f[i] = IF l[i] \in S THEN Append(f[i - 1], l[i]) ELSE f[i - 1]
  BY KeptIs
<1>4. k \in 0 .. Len(l) /\ ~KeepsSome(l, S, k, f[k])
  OBVIOUS
<1>5. k # 0
  <2>1. KeepsSome(l, S, 0, <<>>)
    BY DEF KeepsSome
  <2> HIDE DEF f
  <2> QED
    BY <1>3, <1>4, <2>1
<1>6. k - 1 \in 0 .. Len(l) /\ k - 1 \notin U /\ k \in 1 .. Len(l)
  <2>1. k - 1 \in 0 .. Len(l) /\ ~(k <= k - 1) /\ k \in 1 .. Len(l)
    BY <1>1, <1>4, <1>5
  <2> QED
    BY <1>2, <2>1
<1>7. KeepsSome(l, S, k - 1, f[k - 1])
  BY <1>6
<1> DEFINE g == f[k - 1]
           x == l[k]
<1>8. f[k] = IF x \in S THEN Append(g, x) ELSE g
  BY <1>3, <1>6
<1>9. \A h \in 1 .. k : h \in 1 .. k - 1 \/ h = k
  BY <1>4
<1> HIDE DEF f, U
<1>10. g \in Seq(S) /\ \A h \in 1 .. k - 1 : l[h] \in S => \E j \in 1 .. Len(g) : g[j] = l[h]
  BY <1>7 DEF KeepsSome
<1> HIDE DEF g
<1>11. CASE x \notin S
  BY <1>4, <1>8, <1>9, <1>10, <1>11 DEF KeepsSome
<1>12. CASE x \in S
  <2> DEFINE y == Append(g, x)
  <2>1. /\ y \in Seq(S) /\ Len(y) = Len(g) + 1 /\ Len(g) \in Nat /\ y[Len(g) + 1] = x
        /\ \A j \in 1 .. Len(g) : y[j] = g[j]
    BY <1>10, <1>12
  <2> HIDE DEF y, x
  <2>2. \A j \in 1 .. Len(g) : j \in 1 .. Len(y)
    BY <2>1
  <2>3. Len(g) + 1 \in 1 .. Len(y)
    BY <2>1
  <2>4. ASSUME NEW h \in 1 .. k, l[h] \in S PROVE \E j \in 1 .. Len(y) : y[j] = l[h]
    <3>1. CASE h = k
      BY <2>1, <2>3, <3>1 DEF x
    <3>2. CASE h \in 1 .. k - 1
      BY <1>10, <2>1, <2>2, <2>4, <3>2
    <3> QED
      BY <1>9, <3>1, <3>2
  <2>5. KeepsSome(l, S, k, y)
    BY <2>1, <2>4 DEF KeepsSome
  <2> QED
    BY <1>4, <1>8, <1>12, <2>5 DEF y
<1> QED
  BY <1>11, <1>12

-----------------------------------------------------------------------------
(* The invariant                                                           *)

\* After the lines l have run key k has value v, if it has value x before.
Settled(l, k, x, v) ==
  \/ \E i \in 1 .. Len(l) : l[i].key = k /\ \A j \in i .. Len(l) : l[j].key = k => l[j].val = v
  \/ x = v /\ \A j \in 1 .. Len(l) : l[j].key # k

\* The primary feeds this connection.
Served(c) == conn[c].here /\ Alive(c) /\ SocketsOf(c) # {}

\* With what is in flight to it the replica has the keys of the primary, but for e.
Covered(c, e) ==
  \A k \in Keys : db[k] # None /\ k # e => Settled(conn[c].lines, k, copy[k], db[k])

\* A connection that is there: what was left in the buffer is not of this one, and
\* it was there from the first.
BufferClean ==
  primary_fd # None /\ Alive(primary_fd) => half # "this" /\ (half = "earlier" => glued)

\* The thread receives from a connection.
Connected == state \in {"sync", "connected"} => primary_fd # None

\* An open socket is a connection's, and in the list of those that are fed.
SocketsFed ==
  \A f \in Fds : sock[f] # None =>
    conn[sock[f]].here /\ \E i \in 1 .. Len(replicas) : replicas[i] = f

\* Only the line glued to a rest of an earlier one can have been lost; until it is
\* run none is.
NothingLost ==
  primary_fd # None /\ Served(primary_fd) =>
    \E e \in Keys \cup {None} :
      Covered(primary_fd, e) /\ (~glued \/ half = "earlier" => e = None)

RInv == TypeOK /\ Connected /\ SocketsFed /\ BufferClean /\ NothingLost

-----------------------------------------------------------------------------
(* What lines do                                                           *)

LEMMA LinesAre ==
  /\ \A k \in Keys, v \in Values \cup {None} :
       Command(k, v) \in Line /\ Command(k, v).key = k /\ Command(k, v).val = v
  /\ Reply \in Line /\ Reply.key = None
  /\ None \notin Keys
  BY ReplicationAssumption DEF Command, Reply, Line, Keys

\* The first line is run.
LEMMA SettledRun ==
  ASSUME NEW l \in Seq(Line), l # <<>>, NEW k, NEW x, NEW v, Settled(l, k, x, v),
         NEW y, IF Head(l).key = k THEN y = Head(l).val ELSE y = x
  PROVE  Settled(Tail(l), k, y, v)
<1> DEFINE t == Tail(l)
<1>1. /\ Len(l) \in Nat /\ Len(l) >= 1 /\ t \in Seq(Line) /\ Len(t) = Len(l) - 1 /\ Head(l) = l[1]
      /\ \A i \in 1 .. Len(t) : t[i] = l[i + 1]
  OBVIOUS
<1> HIDE DEF t
<1>2. CASE x = v /\ \A j \in 1 .. Len(l) : l[j].key # k
  <2>1. \A j \in 1 .. Len(t) : t[j].key # k
    BY <1>1, <1>2
  <2>2. y = v
    BY <1>1, <1>2
  <2> QED
    BY <2>1, <2>2 DEF Settled, t
<1>3. ASSUME NEW i \in 1 .. Len(l), l[i].key = k, \A j \in i .. Len(l) : l[j].key = k => l[j].val = v
      PROVE  Settled(Tail(l), k, y, v)
  <2>1. CASE i > 1
    <3>1. i - 1 \in 1 .. Len(t) /\ t[i - 1] = l[i]
      BY <1>1, <2>1
    <3>2. \A j \in i - 1 .. Len(t) : t[j] = l[j + 1] /\ j + 1 \in i .. Len(l)
      BY <1>1, <2>1
    <3>3. \A j \in i - 1 .. Len(t) : t[j].key = k => t[j].val = v
      BY <1>3, <3>2
    <3> QED
      BY <1>3, <3>1, <3>3 DEF Settled, t
  <2>2. CASE ~(i > 1)
    <3>1. i = 1 /\ y = v
      BY <1>1, <1>3, <2>2
    <3>2. ASSUME NEW h \in 1 .. Len(t), t[h].key = k PROVE Settled(t, k, y, v)
      <4>1. \A j \in h .. Len(t) : j \in 1 .. Len(t) /\ j + 1 \in i .. Len(l)
        BY <1>1, <3>1
      <4>2. \A j \in h .. Len(t) : t[j].key = k => t[j].val = v
        BY <1>1, <1>3, <4>1
      <4> QED
        BY <3>2, <4>2 DEF Settled
    <3>3. CASE \A h \in 1 .. Len(t) : t[h].key # k
      BY <3>1, <3>3 DEF Settled, t
    <3> QED
      BY <3>2, <3>3 DEF t
  <2> QED
    BY <2>1, <2>2
<1> QED
  BY <1>2, <1>3 DEF Settled

LEMMA ConcatIs ==
  ASSUME NEW l \in Seq(Line), NEW m \in Seq(Line)
  PROVE  /\ l \o m \in Seq(Line) /\ Len(l \o m) = Len(l) + Len(m) /\ Len(l) \in Nat /\ Len(m) \in Nat
         /\ \A i \in 1 .. Len(l) : (l \o m)[i] = l[i]
         /\ \A i \in Len(l) + 1 .. Len(l) + Len(m) : (l \o m)[i] = m[i - Len(l)]
  OBVIOUS

\* Lines of another key are fed ...
LEMMA SettledStill ==
  ASSUME NEW l \in Seq(Line), NEW m \in Seq(Line), NEW k, NEW x, NEW v, Settled(l, k, x, v),
         \A i \in 1 .. Len(m) : m[i].key # k
  PROVE  Settled(l \o m, k, x, v)
<1> DEFINE s == l \o m
<1>1. /\ Len(s) = Len(l) + Len(m) /\ Len(l) \in Nat /\ Len(m) \in Nat
      /\ \A i \in 1 .. Len(l) : s[i] = l[i]
      /\ \A i \in Len(l) + 1 .. Len(l) + Len(m) : s[i] = m[i - Len(l)]
  BY ConcatIs
<1> HIDE DEF s
<1>2. \A i \in 1 .. Len(s) : i \in 1 .. Len(l) \/ (i \in Len(l) + 1 .. Len(l) + Len(m) /\ i - Len(l) \in 1 .. Len(m))
  BY <1>1
<1>3. \A i \in 1 .. Len(s) : s[i].key = k => i \in 1 .. Len(l) /\ s[i] = l[i]
  BY <1>1, <1>2
<1>4. CASE x = v /\ \A j \in 1 .. Len(l) : l[j].key # k
  BY <1>3, <1>4 DEF Settled, s
<1>5. ASSUME NEW i \in 1 .. Len(l), l[i].key = k, \A j \in i .. Len(l) : l[j].key = k => l[j].val = v
      PROVE  Settled(l \o m, k, x, v)
  <2>1. i \in 1 .. Len(s) /\ s[i].key = k
    BY <1>1, <1>5
  <2>2. \A j \in i .. Len(s) : s[j].key = k => s[j].val = v
    <3> TAKE j \in i .. Len(s)
    <3>1. j \in 1 .. Len(s)
      BY <1>1, <1>5
    <3>2. j \in 1 .. Len(l) => j \in i .. Len(l)
      BY <1>1, <1>5
    <3> QED
      BY <1>3, <1>5, <3>1, <3>2
  <2> QED
    BY <2>1, <2>2 DEF Settled, s
<1> QED
  BY <1>4, <1>5 DEF Settled

\* ... or one of the key itself.
LEMMA SettledFed ==
  ASSUME NEW l \in Seq(Line), NEW m \in Seq(Line), Len(m) > 0, NEW k, NEW x, NEW v,
         \A i \in 1 .. Len(m) : m[i].key = k /\ m[i].val = v
  PROVE  Settled(l \o m, k, x, v)
<1> DEFINE s == l \o m
<1>1. /\ Len(s) = Len(l) + Len(m) /\ Len(l) \in Nat /\ Len(m) \in Nat
      /\ \A i \in Len(l) + 1 .. Len(l) + Len(m) : s[i] = m[i - Len(l)]
  BY ConcatIs
<1> HIDE DEF s
<1>2. \A i \in Len(l) + 1 .. Len(s) : i - Len(l) \in 1 .. Len(m) /\ i \in Len(l) + 1 .. Len(l) + Len(m)
  BY <1>1
<1>3. \A i \in Len(l) + 1 .. Len(s) : s[i].key = k /\ s[i].val = v
  BY <1>1, <1>2
<1>4. Len(l) + 1 \in 1 .. Len(s) /\ Len(l) + 1 \in Len(l) + 1 .. Len(s)
  BY <1>1
<1> QED
  BY <1>3, <1>4 DEF Settled, s

\* The database that is sent has all keys of the primary.
LEMMA SnapshotSettles ==
  ASSUME db \in [Keys -> Values \cup {None}]
  PROVE  /\ Append(Snapshot, Reply) \in Seq(Line)
         /\ \A k \in Keys : \A x : db[k] # None => Settled(Append(Snapshot, Reply), k, x, db[k])
<1> DEFINE all == [k \in Keys |-> k]
           S == {k \in Keys : db[k] # None}
           ks == Kept(all, S)
           L == [i \in 1 .. Len(ks) |-> Command(ks[i], db[ks[i]])]
<1>1. all \in Seq(Keys) /\ Len(all) = KeyCount /\ \A k \in Keys : all[k] = k /\ k \in 1 .. KeyCount
  BY ReplicationAssumption DEF Keys
<1>2. L = Snapshot
  BY DEF Snapshot
<1> HIDE DEF all
<1>3. KeepsSome(all, S, Len(all), ks)
  BY <1>1, KeptKeeps
<1>4. ks \in Seq(S) /\ \A k \in S : \E i \in 1 .. Len(ks) : ks[i] = k
  BY <1>1, <1>3 DEF KeepsSome
<1> HIDE DEF ks, S
<1>5. Len(ks) \in Nat /\ \A i \in 1 .. Len(ks) : ks[i] \in S
  BY <1>4
<1>6. \A i \in 1 .. Len(ks) : /\ L[i] = Command(ks[i], db[ks[i]]) /\ L[i] \in Line
                              /\ L[i].key = ks[i] /\ L[i].val = db[ks[i]]
  BY <1>5, LinesAre DEF S
<1>7. L \in Seq(Line) /\ Len(L) = Len(ks)
  BY <1>5, <1>6
<1> HIDE DEF L
<1> DEFINE A == Append(L, Reply)
<1>8. /\ A \in Seq(Line) /\ Len(A) = Len(L) + 1 /\ A[Len(L) + 1] = Reply
      /\ \A i \in 1 .. Len(L) : A[i] = L[i]
  BY <1>7, LinesAre
<1> HIDE DEF A
<1>9. ASSUME NEW k \in Keys, db[k] # None, NEW x PROVE Settled(A, k, x, db[k])
  <2>1. PICK i \in 1 .. Len(ks) : ks[i] = k
    BY <1>4, <1>9 DEF S
  <2>2. i \in 1 .. Len(A) /\ A[i].key = k
    BY <1>5, <1>6, <1>7, <1>8, <2>1
  <2>3. \A j \in i .. Len(A) : A[j].key = k => A[j].val = db[k]
    <3> TAKE j \in i .. Len(A)
    <3>1. CASE j = Len(L) + 1
      BY <1>8, <3>1, LinesAre
    <3>2. CASE j # Len(L) + 1
      <4>1. j \in 1 .. Len(ks)
        BY <1>5, <1>7, <1>8, <3>2
      <4> QED
        BY <1>6, <1>7, <1>8, <4>1
    <3> QED
      BY <3>1, <3>2
  <2> QED
    BY <2>2, <2>3 DEF Settled
<1> QED
  BY <1>2, <1>8, <1>9 DEF A

\* The entries of the list that are not closed stay, and those that stay are open.
LEMMA RemainingKeeps ==
  ASSUME replicas \in Seq(Fds)
  PROVE  /\ Remaining \in Seq(Fds)
         /\ \A f \in Fds : sock[f] # None /\ (\E i \in 1 .. Len(replicas) : replicas[i] = f)
              => \E i \in 1 .. Len(Remaining) : Remaining[i] = f
<1> DEFINE S == {f \in Fds : sock[f] # None}
<1>1. KeepsSome(replicas, S, Len(replicas), Kept(replicas, S))
  BY KeptKeeps
<1>2. Remaining = Kept(replicas, S)
  BY DEF Remaining
<1>3. Remaining \in Seq(S)
  BY <1>1, <1>2 DEF KeepsSome
<1>4. Remaining \in Seq(Fds)
  <2> HIDE DEF S
  <2>1. S \subseteq Fds
    BY DEF S
  <2> QED
    BY <1>3, <2>1, SeqMonotonic
<1> QED
  BY <1>1, <1>2, <1>4 DEF KeepsSome

\* A connection that is served is fed at least once.
LEMMA TimesIs ==
  ASSUME RInv, NEW c
  PROVE  /\ Times(c) \in Nat
         /\ Times(c) = 0 => SocketsOf(c) = {} \/ c = None
<1> DEFINE I == {i \in 1 .. Len(replicas) : sock[replicas[i]] = c}
<1>1. Len(replicas) \in Nat
  BY DEF RInv, TypeOK
<1>2. IsFiniteSet(1 .. Len(replicas))
  <2> DEFINE n == Len(replicas)
  <2>1. n \in Int /\ 1 \in Int
    BY <1>1
  <2> HIDE DEF n
  <2> QED
    BY <2>1, FS_Interval DEF n
<1>3. I \in SUBSET (1 .. Len(replicas))
  OBVIOUS
<1>4. Times(c) = Cardinality(I)
  BY DEF Times
<1>5. c # None /\ SocketsOf(c) # {} => I # {}
  BY DEF SocketsOf, RInv, SocketsFed
<1> HIDE DEF I
<1>6. IsFiniteSet(I)
  BY <1>2, <1>3, FS_Subset
<1>7. Cardinality(I) \in Nat /\ (Cardinality(I) = 0 <=> I = {})
  BY <1>6, FS_CardinalityType, FS_EmptySet
<1> QED
  BY <1>4, <1>5, <1>7

-----------------------------------------------------------------------------
(* The steps                                                               *)

LEMMA HungIs ==
  ASSUME NEW r \in Connection
  PROVE  /\ Hung(r) \in Connection
         /\ Hung(r).here = r.here
         /\ Hung(r).there = r.there
         /\ Hung(r).there => Hung(r) = r
<1>1. Closed \in Connection /\ Closed.here = FALSE /\ Closed.there = FALSE
  BY DEF Closed, Connection
<1>2. r.here \in BOOLEAN /\ r.there \in BOOLEAN
  BY DEF Connection
<1> QED
  BY <1>1, <1>2 DEF Hung

\* A step that changes neither copy nor database, and of the connection of the
\* replica nothing unless it ends, loses nothing.
LEMMA NothingMore ==
  ASSUME RInv, UNCHANGED <<db, copy, primary_fd, glued>>,
         primary_fd # None /\ Alive(primary_fd)' =>
           /\ conn'[primary_fd] = conn[primary_fd] /\ half' = half
           /\ SocketsOf(primary_fd)' \subseteq SocketsOf(primary_fd)
  PROVE  BufferClean' /\ NothingLost'
<1>1. primary_fd # None /\ Alive(primary_fd)' => Alive(primary_fd)
  BY DEF Alive
<1>2. BufferClean'
  BY <1>1 DEF RInv, BufferClean, Alive
<1>3. ASSUME primary_fd' # None, Served(primary_fd)'
      PROVE  \E e \in Keys \cup {None} :
               Covered(primary_fd, e)' /\ (~glued' \/ half' = "earlier" => e = None)
  <2>1. Served(primary_fd) /\ conn'[primary_fd] = conn[primary_fd] /\ half' = half
    BY <1>1, <1>3 DEF Served, Alive
  <2>2. PICK e \in Keys \cup {None} :
          Covered(primary_fd, e) /\ (~glued \/ half = "earlier" => e = None)
    BY <1>3, <2>1 DEF RInv, NothingLost
  <2>3. Covered(primary_fd, e)'
    BY <2>1, <2>2 DEF Covered
  <2> QED
    BY <2>1, <2>2, <2>3
<1> QED
  BY <1>2, <1>3 DEF NothingLost

\* primary_fd is closed.
LEMMA HangsKeeps ==
  ASSUME RInv, Hangs, UNCHANGED <<sock, replicas>>
  PROVE  /\ conn' \in [Conns -> Connection] /\ half' \in {"none", "this", "earlier"}
         /\ primary_fd' = None
         /\ SocketsFed' /\ BufferClean' /\ NothingLost'
<1>1. primary_fd' = None
  BY DEF Hangs
<1>2. BufferClean' /\ NothingLost'
  BY <1>1 DEF BufferClean, NothingLost
<1>3. CASE primary_fd = None
  <2>1. UNCHANGED <<conn, half, sock, replicas>>
    BY <1>3 DEF Hangs
  <2>2. SocketsFed'
    BY <2>1 DEF RInv, SocketsFed
  <2> QED
    BY <1>1, <1>2, <2>1, <2>2 DEF RInv, TypeOK
<1>4. CASE primary_fd # None
  <2> DEFINE r == [conn[primary_fd] EXCEPT !.there = FALSE, !.lines = <<>>]
  <2>1. /\ primary_fd \in Conns /\ conn \in [Conns -> Connection] /\ conn[primary_fd] \in Connection
    BY <1>4 DEF RInv, TypeOK
  <2>2. r \in Connection /\ r.here = conn[primary_fd].here
    <3>1. <<>> \in Seq(Line)
      OBVIOUS
    <3> QED
      BY <2>1, <3>1 DEF Connection
  <2>3. conn' = [conn EXCEPT ![primary_fd] = Hung(r)] /\ Torn(0)
    BY <1>4 DEF Hangs
  <2> HIDE DEF r
  <2>4. conn' \in [Conns -> Connection] /\ \A c \in Conns : conn'[c].here = conn[c].here
    BY <2>1, <2>2, <2>3, HungIs
  <2>5. half' \in {"none", "this", "earlier"}
    BY <2>3 DEF Torn, RInv, TypeOK
  <2>6. SocketsFed'
    BY <2>4 DEF RInv, SocketsFed, TypeOK
  <2> QED
    BY <1>1, <1>2, <2>4, <2>5, <2>6
<1> QED
  BY <1>3, <1>4

LEMMA SetPrimaryKeeps ==
  ASSUME RInv, set_primary, events' \in Nat,
         thread' \in {"loop", "sleeping", "connecting"}, client' \in {"idle", "connecting"},
         promoted' \in BOOLEAN
  PROVE  RInv'
<1>1. Hangs /\ UNCHANGED <<db, sock, replicas, copy, glued>> /\ role' = "replica" /\ state' = "connecting"
  BY DEF set_primary, primary
<1>2. /\ conn' \in [Conns -> Connection] /\ half' \in {"none", "this", "earlier"}
      /\ primary_fd' = None
      /\ SocketsFed' /\ BufferClean' /\ NothingLost'
  BY <1>1, HangsKeeps
<1>3. TypeOK'
  BY <1>1, <1>2 DEF RInv, TypeOK
<1> QED
  BY <1>1, <1>2, <1>3 DEF RInv, Connected

LEMMA UnsetPrimaryKeeps ==
  ASSUME RInv, replication_unset_primary
  PROVE  RInv'
<1>1. /\ Hangs /\ UNCHANGED <<db, sock, replicas, copy, glued, thread, client>>
      /\ role' = "primary" /\ state' = "none" /\ promoted' = TRUE /\ events' = events + 1
  BY DEF replication_unset_primary, primary, Happens
<1>2. /\ conn' \in [Conns -> Connection] /\ half' \in {"none", "this", "earlier"}
      /\ primary_fd' = None
      /\ SocketsFed' /\ BufferClean' /\ NothingLost'
  BY <1>1, HangsKeeps
<1>3. TypeOK'
  BY <1>1, <1>2 DEF RInv, TypeOK
<1> QED
  BY <1>1, <1>2, <1>3 DEF RInv, Connected

LEMMA LoseKeeps ==
  ASSUME RInv, lose
  PROVE  RInv'
<1>1. /\ Hangs /\ UNCHANGED <<db, sock, replicas, copy, role, glued, client, promoted, events>>
      /\ state' = "connecting" /\ thread' = "sleeping"
  BY DEF lose, primary
<1>2. /\ conn' \in [Conns -> Connection] /\ half' \in {"none", "this", "earlier"}
      /\ primary_fd' = None
      /\ SocketsFed' /\ BufferClean' /\ NothingLost'
  BY <1>1, HangsKeeps
<1>3. TypeOK'
  BY <1>1, <1>2 DEF RInv, TypeOK
<1> QED
  BY <1>1, <1>2, <1>3 DEF RInv, Connected

\* No socket of the primary is of a connection that begins.
LEMMA ConnectedKeeps ==
  ASSUME RInv, NEW c \in Conns, connected(c),
         thread' \in {"loop", "sleeping", "connecting"}, client' \in {"idle", "connecting"}
  PROVE  RInv'
<1> DEFINE r == [Closed EXCEPT !.here = TRUE, !.there = TRUE]
<1>1. /\ ~conn[c].here /\ primary_fd' = c /\ state' = "sync"
      /\ half' = IF half = "this" THEN "earlier" ELSE half
      /\ glued' = (half # "none")
      /\ conn' = [conn EXCEPT ![c] = r]
      /\ UNCHANGED <<db, sock, replicas, copy, role, promoted, events>>
  BY DEF connected, Free, primary
<1>2. r \in Connection
  <2>1. Closed \in Connection
    BY DEF Closed, Connection
  <2> QED
    BY <2>1 DEF Connection
<1> HIDE DEF r
<1>3. c # None
  BY ReplicationAssumption
<1>4. TypeOK'
  BY <1>1, <1>2 DEF RInv, TypeOK
<1>5. \A f \in Fds : sock[f] # None => sock[f] # c /\ sock[f] \in Conns
  BY <1>1 DEF RInv, SocketsFed, TypeOK
<1>6. SocketsFed'
  BY <1>1, <1>5 DEF RInv, SocketsFed, TypeOK
<1>7. BufferClean'
  BY <1>1 DEF BufferClean, RInv, TypeOK
<1>8. SocketsOf(c)' = {}
  BY <1>1, <1>3, <1>5 DEF SocketsOf
<1>9. NothingLost'
  <2>1. ~Served(primary_fd)'
    BY <1>1, <1>8 DEF Served, SocketsOf
  <2> QED
    BY <2>1 DEF NothingLost
<1> QED
  BY <1>1, <1>3, <1>4, <1>6, <1>7, <1>9 DEF RInv, Connected

LEMMA AddReplicaKeeps ==
  ASSUME RInv, NEW c \in Conns, add_replica(c)
  PROVE  RInv'
<1> DEFINE F == {f \in Fds : sock[f] = None}
           fd == Min(F)
<1>1. /\ conn[c].here /\ SocketsOf(c) = {} /\ F # {}
      /\ sock' = [sock EXCEPT ![fd] = c]
      /\ replicas' = <<fd>> \o replicas
      /\ conn' = IF Alive(c) THEN [conn EXCEPT ![c].lines = Append(Snapshot, Reply)] ELSE conn
      /\ UNCHANGED <<db, copy, role, state, primary_fd, half, glued, thread, client, promoted, events>>
  BY DEF add_replica, link, actors
<1>2. F \subseteq Nat /\ F \subseteq Fds
  BY DEF Fds
<1> HIDE DEF F
<1>3. fd \in F
  BY <1>1, <1>2, MinIs
<1> HIDE DEF fd
<1>4. fd \in Fds /\ sock[fd] = None
  BY <1>2, <1>3 DEF F
<1>5. c # None
  BY ReplicationAssumption
<1> DEFINE s == Append(Snapshot, Reply)
<1>6. s \in Seq(Line) /\ \A k \in Keys : \A x : db[k] # None => Settled(s, k, x, db[k])
  BY SnapshotSettles DEF RInv, TypeOK
<1>7. conn' = IF Alive(c) THEN [conn EXCEPT ![c].lines = s] ELSE conn
  BY <1>1
<1> HIDE DEF s
<1>8. /\ conn \in [Conns -> Connection] /\ replicas \in Seq(Fds) /\ sock \in [Fds -> Conns \cup {None}]
  BY DEF RInv, TypeOK
<1>9. /\ conn' \in [Conns -> Connection]
      /\ \A d \in Conns : /\ conn'[d].here = conn[d].here /\ conn'[d].there = conn[d].there
                          /\ conn'[d].cut = conn[d].cut
                          /\ d # c => conn'[d] = conn[d]
      /\ Alive(c) => conn'[c].lines = s
  <2>1. \A d \in Conns : conn[d] \in Connection
    BY <1>8
  <2> QED
    BY <1>6, <1>7, <1>8, <2>1 DEF Connection
<1>10. /\ replicas' \in Seq(Fds) /\ replicas'[1] = fd /\ Len(replicas') = Len(replicas) + 1
       /\ Len(replicas) \in Nat
       /\ \A i \in 1 .. Len(replicas) : replicas'[i + 1] = replicas[i]
  BY <1>1, <1>4, <1>8
<1>11. TypeOK'
  <2>1. sock' \in [Fds -> Conns \cup {None}]
    BY <1>1, <1>4, <1>8
  <2> QED
    BY <1>1, <1>9, <1>10, <2>1 DEF RInv, TypeOK
<1>12. SocketsFed'
  <2> SUFFICES ASSUME NEW f \in Fds, sock'[f] # None
               PROVE  conn'[sock'[f]].here /\ \E i \in 1 .. Len(replicas') : replicas'[i] = f
    BY DEF SocketsFed
  <2>1. CASE f = fd
    <3>1. 1 \in 1 .. Len(replicas')
      BY <1>10
    <3> QED
      BY <1>1, <1>4, <1>8, <1>9, <1>10, <2>1, <3>1
  <2>2. CASE f # fd
    <3>1. sock'[f] = sock[f] /\ sock[f] \in Conns
      BY <1>1, <1>8, <2>2
    <3>2. conn[sock[f]].here /\ \E i \in 1 .. Len(replicas) : replicas[i] = f
      BY <3>1 DEF RInv, SocketsFed
    <3>3. \A i \in 1 .. Len(replicas) : i + 1 \in 1 .. Len(replicas')
      BY <1>10
    <3> QED
      BY <1>9, <1>10, <3>1, <3>2, <3>3
  <2> QED
    BY <2>1, <2>2
<1>13. CASE primary_fd = c
  <2>1. BufferClean'
    BY <1>1, <1>9, <1>13 DEF RInv, BufferClean, Alive
  <2>2. NothingLost'
    <3> SUFFICES ASSUME Served(c)'
                 PROVE  Covered(c, None)'
      BY <1>1, <1>13 DEF NothingLost
    <3>1. conn'[c].lines = s
      BY <1>9 DEF Served, Alive
    <3> QED
      BY <1>1, <1>6, <3>1 DEF Covered
  <2> QED
    BY <1>1, <1>11, <1>12, <2>1, <2>2 DEF RInv, Connected
<1>14. CASE primary_fd # c
  <2>1. primary_fd # None => primary_fd \in Conns /\ conn'[primary_fd] = conn[primary_fd]
    BY <1>9, <1>14 DEF RInv, TypeOK
  <2>2. SocketsOf(primary_fd)' \subseteq SocketsOf(primary_fd)
    BY <1>1, <1>8, <1>14 DEF SocketsOf
  <2>3. BufferClean' /\ NothingLost'
    BY <1>1, <2>1, <2>2, NothingMore
  <2> QED
    BY <1>1, <1>11, <1>12, <2>3 DEF RInv, Connected
<1> QED
  BY <1>13, <1>14

\* Who is served is fed what is written.
LEMMA WriteKeeps ==
  ASSUME RInv, NEW k \in Keys, NEW v \in Values \cup {None}, write_command(k, v)
  PROVE  RInv'
<1> DEFINE fed(c) == [i \in 1 .. Times(c) |-> Command(k, v)]
<1>1. /\ db' = [db EXCEPT ![k] = v] /\ replicas' = Remaining /\ events' = events + 1
      /\ conn' = [c \in Conns |-> IF Alive(c) THEN [conn[c] EXCEPT !.lines = @ \o fed(c)] ELSE conn[c]]
      /\ UNCHANGED <<sock, copy, role, state, primary_fd, half, glued, thread, client, promoted>>
  BY DEF write_command, link, actors, Happens
<1>2. Command(k, v) \in Line /\ Command(k, v).key = k /\ Command(k, v).val = v
  BY LinesAre
<1>3. ASSUME NEW c \in Conns
      PROVE  /\ fed(c) \in Seq(Line) /\ Len(fed(c)) = Times(c) /\ Times(c) \in Nat
             /\ \A i \in 1 .. Len(fed(c)) : fed(c)[i].key = k /\ fed(c)[i].val = v
             /\ SocketsOf(c) # {} => Len(fed(c)) > 0
  <2>1. Times(c) \in Nat /\ (Times(c) = 0 => SocketsOf(c) = {})
    BY TimesIs, ReplicationAssumption
  <2>2. fed(c) \in Seq(Line) /\ Len(fed(c)) = Times(c)
    <3> HIDE DEF Times
    <3> QED
      BY <1>2, <2>1
  <2> QED
    BY <1>2, <2>1, <2>2
<1> HIDE DEF fed
<1>4. /\ conn \in [Conns -> Connection]
      /\ \A c \in Conns : conn[c] \in Connection /\ conn[c].lines \in Seq(Line)
  BY DEF RInv, TypeOK, Connection
<1>5. \A c \in Conns : conn[c].lines \o fed(c) \in Seq(Line)
  BY <1>3, <1>4, ConcatIs
<1>6. /\ conn' \in [Conns -> Connection]
      /\ \A c \in Conns : /\ conn'[c].here = conn[c].here /\ conn'[c].there = conn[c].there
                          /\ conn'[c].cut = conn[c].cut
                          /\ Alive(c) => conn'[c].lines = conn[c].lines \o fed(c)
  <2>1. \A c \in Conns : conn'[c] = IF Alive(c) THEN [conn[c] EXCEPT !.lines = conn[c].lines \o fed(c)] ELSE conn[c]
    BY <1>1
  <2>2. \A c \in Conns : conn'[c] \in Connection
    BY <1>4, <1>5, <2>1 DEF Connection
  <2>3. \A c \in Conns : /\ conn'[c].here = conn[c].here /\ conn'[c].there = conn[c].there
                         /\ conn'[c].cut = conn[c].cut
                         /\ Alive(c) => conn'[c].lines = conn[c].lines \o fed(c)
    BY <1>4, <2>1 DEF Connection
  <2>4. conn' = [c \in Conns |-> conn'[c]]
    BY <1>1
  <2> QED
    BY <2>2, <2>3, <2>4
<1>7. /\ Remaining \in Seq(Fds)
      /\ \A f \in Fds : sock[f] # None /\ (\E i \in 1 .. Len(replicas) : replicas[i] = f)
           => \E i \in 1 .. Len(Remaining) : Remaining[i] = f
  BY RemainingKeeps DEF RInv, TypeOK
<1>8. TypeOK'
  <2>1. db' \in [Keys -> Values \cup {None}]
    BY <1>1 DEF RInv, TypeOK
  <2>2. replicas' \in Seq(Fds) /\ events' \in Nat
    BY <1>1, <1>7 DEF RInv, TypeOK
  <2>3. UNCHANGED <<sock, copy, role, state, primary_fd, half, glued, thread, client, promoted>>
    BY <1>1
  <2>4. conn' \in [Conns -> Connection]
    BY <1>6
  <2> QED
    BY <2>1, <2>2, <2>3, <2>4 DEF RInv, TypeOK
<1>9. SocketsFed'
  <2>1. \A f \in Fds : sock[f] # None => sock[f] \in Conns
    BY DEF RInv, TypeOK
  <2> QED
    BY <1>1, <1>6, <1>7, <2>1 DEF RInv, SocketsFed
<1>10. \A c \in Conns : Alive(c)' <=> Alive(c)
  BY <1>6 DEF Alive
<1>11. BufferClean'
  BY <1>1, <1>10 DEF RInv, BufferClean, TypeOK
<1>12. NothingLost'
  <2> SUFFICES ASSUME primary_fd' # None, Served(primary_fd)'
               PROVE  \E e \in Keys \cup {None} :
                        Covered(primary_fd, e)' /\ (~glued' \/ half' = "earlier" => e = None)
    BY DEF NothingLost
  <2>1. PICK c \in Conns : c = primary_fd
    BY <1>1 DEF RInv, TypeOK
  <2>2. Served(c) /\ Alive(c) /\ SocketsOf(c) # {}
    BY <1>1, <1>6, <1>10, <2>1 DEF Served, SocketsOf
  <2>3. PICK e \in Keys \cup {None} :
          Covered(c, e) /\ (~glued \/ half = "earlier" => e = None)
    BY <1>1, <2>1, <2>2 DEF RInv, NothingLost
  <2>4. ASSUME NEW j \in Keys, db'[j] # None, j # e
        PROVE  Settled(conn'[c].lines, j, copy[j], db'[j])
    <3>1. conn'[c].lines = conn[c].lines \o fed(c)
      BY <1>6, <2>2
    <3>2. CASE j = k
      <4>1. db'[j] = v
        BY <1>1, <3>2 DEF RInv, TypeOK
      <4>2. Len(fed(c)) > 0 /\ fed(c) \in Seq(Line) /\ \A i \in 1 .. Len(fed(c)) : fed(c)[i].key = k /\ fed(c)[i].val = v
        BY <1>3, <2>2
      <4>3. Settled(conn[c].lines \o fed(c), k, copy[k], v)
        BY <1>4, <4>2, SettledFed
      <4> QED
        BY <3>1, <3>2, <4>1, <4>3
    <3>3. CASE j # k
      <4>1. db'[j] = db[j]
        BY <1>1, <3>3 DEF RInv, TypeOK
      <4>2. Settled(conn[c].lines, j, copy[j], db[j])
        BY <2>3, <2>4, <4>1 DEF Covered
      <4>3. fed(c) \in Seq(Line) /\ \A i \in 1 .. Len(fed(c)) : fed(c)[i].key # j
        BY <1>3, <3>3
      <4>4. Settled(conn[c].lines \o fed(c), j, copy[j], db[j])
        BY <1>4, <4>2, <4>3, SettledStill
      <4> QED
        BY <3>1, <4>1, <4>4
    <3> QED
      BY <3>2, <3>3
  <2>5. Covered(primary_fd, e)'
    BY <1>1, <2>1, <2>4 DEF Covered
  <2> QED
    BY <1>1, <2>3, <2>5
<1> QED
  BY <1>1, <1>8, <1>9, <1>11, <1>12 DEF RInv, Connected

LEMMA KilledKeeps ==
  ASSUME RInv, NEW c \in Conns, killed(c)
  PROVE  RInv'
<1>1. /\ db' \in [Keys -> Values \cup {None}]
      /\ sock' = [f \in Fds |-> None] /\ replicas' = <<>> /\ events' = events + 1
      /\ conn' = [d \in Conns |-> Hung([conn[d] EXCEPT !.here = FALSE])]
      /\ UNCHANGED <<copy, role, state, primary_fd, half, glued, thread, client, promoted>>
  BY DEF killed, link, actors, Happens
<1>2. \A d \in Conns : conn[d] \in Connection
  BY DEF RInv, TypeOK
<1>3. \A d \in Conns : /\ conn'[d] \in Connection
                       /\ ~conn'[d].here
                       /\ Alive(d)' => Alive(d)
  <2> TAKE d \in Conns
  <2> DEFINE r == [conn[d] EXCEPT !.here = FALSE]
  <2>1. r \in Connection /\ r.here = FALSE /\ r.there = conn[d].there /\ r.cut = conn[d].cut
    BY <1>2 DEF Connection
  <2>2. conn'[d] = Hung(r)
    BY <1>1
  <2> HIDE DEF r
  <2>3. /\ Hung(r) \in Connection /\ Hung(r).here = r.here
        /\ Hung(r).there = r.there /\ (Hung(r).there => Hung(r) = r)
    BY <2>1, HungIs
  <2> QED
    BY <2>1, <2>2, <2>3 DEF Alive
<1>4. conn' \in [Conns -> Connection]
  <2>1. conn' = [d \in Conns |-> conn'[d]]
    BY <1>1
  <2> QED
    BY <1>3, <2>1
<1>5. TypeOK'
  <2>1. replicas' \in Seq(Fds) /\ events' \in Nat /\ sock' \in [Fds -> Conns \cup {None}]
    BY <1>1 DEF RInv, TypeOK
  <2>2. UNCHANGED <<copy, role, state, primary_fd, half, glued, thread, client, promoted>>
    BY <1>1
  <2> QED
    BY <1>1, <1>4, <2>1, <2>2 DEF RInv, TypeOK
<1>6. SocketsFed'
  BY <1>1 DEF SocketsFed
<1>7. primary_fd # None => primary_fd \in Conns
  BY DEF RInv, TypeOK
<1>8. BufferClean'
  BY <1>1, <1>3, <1>7 DEF RInv, BufferClean, TypeOK
<1>9. NothingLost'
  BY <1>1, <1>3, <1>7 DEF NothingLost, Served
<1> QED
  BY <1>1, <1>5, <1>6, <1>8, <1>9 DEF RInv, Connected

LEMMA HangUpKeeps ==
  ASSUME RInv, NEW c \in Conns, hang_up(c)
  PROVE  RInv'
<1> DEFINE r == [conn[c] EXCEPT !.here = FALSE]
<1>1. /\ ~Alive(c)
      /\ sock' = [f \in Fds |-> IF sock[f] = c THEN None ELSE sock[f]]
      /\ conn' = [conn EXCEPT ![c] = Hung(r)]
      /\ UNCHANGED <<db, replicas, copy, role, state, primary_fd, half, glued, thread, client, promoted, events>>
  BY DEF hang_up, link, actors
<1>2. conn \in [Conns -> Connection] /\ conn[c] \in Connection
  BY DEF RInv, TypeOK
<1>3. r \in Connection /\ r.here = FALSE /\ r.there = conn[c].there /\ r.cut = conn[c].cut
  BY <1>2 DEF Connection
<1> HIDE DEF r
<1>4. /\ Hung(r) \in Connection /\ Hung(r).here = r.here
      /\ Hung(r).there = r.there /\ (Hung(r).there => Hung(r) = r)
  BY <1>3, HungIs
<1>5. conn' \in [Conns -> Connection] /\ \A d \in Conns : d # c => conn'[d] = conn[d]
  BY <1>1, <1>2, <1>4
<1>6. ~Alive(c)'
  BY <1>1, <1>2, <1>3, <1>4 DEF Alive
<1>7. TypeOK'
  <2>1. sock' \in [Fds -> Conns \cup {None}]
    BY <1>1 DEF RInv, TypeOK
  <2> QED
    BY <1>1, <1>5, <2>1 DEF RInv, TypeOK
<1>8. \A f \in Fds : sock'[f] # None => sock'[f] = sock[f] /\ sock[f] # c /\ sock[f] \in Conns
  BY <1>1 DEF RInv, TypeOK
<1>9. SocketsFed'
  BY <1>1, <1>5, <1>8 DEF RInv, SocketsFed
<1>10. primary_fd # None /\ Alive(primary_fd)' =>
         /\ conn'[primary_fd] = conn[primary_fd] /\ half' = half
         /\ SocketsOf(primary_fd)' \subseteq SocketsOf(primary_fd)
  <2>1. primary_fd # None => primary_fd \in Conns
    BY DEF RInv, TypeOK
  <2>2. primary_fd = c => ~Alive(primary_fd)'
    BY <1>1, <1>6 DEF Alive
  <2>3. primary_fd # None => SocketsOf(primary_fd)' \subseteq SocketsOf(primary_fd)
    BY <1>1, <1>8 DEF SocketsOf
  <2> QED
    BY <1>1, <1>5, <2>1, <2>2, <2>3
<1>11. BufferClean' /\ NothingLost'
  BY <1>1, <1>10, NothingMore
<1> QED
  BY <1>1, <1>7, <1>9, <1>11 DEF RInv, Connected

LEMMA CutKeeps ==
  ASSUME RInv, NEW c \in Conns, Cut(c)
  PROVE  RInv'
<1>1. /\ events' = events + 1 /\ ~conn[c].cut
      /\ UNCHANGED <<db, sock, replicas, copy, role, state, primary_fd, glued, thread, client, promoted>>
  BY DEF Cut, Happens, primary, actors
<1>2. PICK n \in 0 .. Len(conn[c].lines) :
        /\ conn' = [conn EXCEPT ![c] = [conn[c] EXCEPT !.cut = TRUE, !.lines = SubSeq(conn[c].lines, 1, n)]]
        /\ IF c = primary_fd THEN Torn(n) ELSE UNCHANGED half
  BY DEF Cut
<1>3. conn \in [Conns -> Connection] /\ conn[c] \in Connection /\ conn[c].lines \in Seq(Line)
  BY DEF RInv, TypeOK, Connection
<1> DEFINE l == SubSeq(conn[c].lines, 1, n)
           r == [conn[c] EXCEPT !.cut = TRUE, !.lines = l]
<1>4. l \in Seq(Line)
  <2>1. \A i \in 1 .. n : i \in 1 .. Len(conn[c].lines)
    BY <1>3
  <2> QED
    BY <1>3, <2>1
<1>5. conn' = [conn EXCEPT ![c] = r]
  BY <1>2
<1> HIDE DEF l
<1>6. r \in Connection /\ r.here = conn[c].here /\ r.cut
  BY <1>3, <1>4 DEF Connection
<1> HIDE DEF r
<1>7. /\ conn' \in [Conns -> Connection]
      /\ \A d \in Conns : conn'[d].here = conn[d].here /\ (d # c => conn'[d] = conn[d])
      /\ ~Alive(c)'
  BY <1>3, <1>5, <1>6 DEF Alive
<1>8. half' \in {"none", "this", "earlier"}
  BY <1>2 DEF Torn, RInv, TypeOK
<1>9. TypeOK'
  <2>1. events' \in Nat
    BY <1>1 DEF RInv, TypeOK
  <2> QED
    BY <1>1, <1>7, <1>8, <2>1 DEF RInv, TypeOK
<1>10. SocketsFed'
  <2>1. \A f \in Fds : sock[f] # None => sock[f] \in Conns
    BY DEF RInv, TypeOK
  <2> QED
    BY <1>1, <1>7, <2>1 DEF RInv, SocketsFed
<1>11. primary_fd # None /\ Alive(primary_fd)' =>
         /\ conn'[primary_fd] = conn[primary_fd] /\ half' = half
         /\ SocketsOf(primary_fd)' \subseteq SocketsOf(primary_fd)
  <2>1. primary_fd # None => primary_fd \in Conns
    BY DEF RInv, TypeOK
  <2>2. primary_fd = c => ~Alive(primary_fd)'
    BY <1>1, <1>7 DEF Alive
  <2>3. SocketsOf(primary_fd)' \subseteq SocketsOf(primary_fd)
    BY <1>1 DEF SocketsOf
  <2> QED
    BY <1>2, <1>7, <2>1, <2>2, <2>3
<1>12. BufferClean' /\ NothingLost'
  BY <1>1, <1>11, NothingMore
<1> QED
  BY <1>1, <1>9, <1>10, <1>12 DEF RInv, Connected

\* A line that is run takes its key's value along; glued to a rest of an earlier
\* one it takes the key itself.
LEMMA ReceiveKeeps ==
  ASSUME RInv, receive
  PROVE  RInv'
<1>1. /\ primary_fd # None /\ conn[primary_fd].lines # <<>>
      /\ copy' \in Outcomes(Head(conn[primary_fd].lines))
      /\ half' = IF half = "earlier" THEN "none" ELSE half
      /\ state' = "connected"
      /\ UNCHANGED <<db, sock, replicas, role, primary_fd, glued, thread, client, promoted, events>>
  BY DEF receive, primary, actors, RInv, Connected
<1>2. PICK c \in Conns : c = primary_fd
  BY <1>1 DEF RInv, TypeOK
<1>3. conn' = [conn EXCEPT ![c].lines = Tail(conn[c].lines)]
  BY <1>2 DEF receive
<1>4. conn \in [Conns -> Connection] /\ conn[c] \in Connection /\ conn[c].lines \in Seq(Line)
  BY DEF RInv, TypeOK, Connection
<1> DEFINE l == conn[c].lines
           x == Head(l)
<1>5. l \in Seq(Line) /\ l # <<>> /\ Tail(l) \in Seq(Line) /\ x \in Line
  BY <1>1, <1>2, <1>4
<1>6. /\ conn' \in [Conns -> Connection] /\ conn'[c].lines = Tail(l)
      /\ \A d \in Conns : conn'[d].here = conn[d].here /\ conn'[d].there = conn[d].there /\ conn'[d].cut = conn[d].cut
  BY <1>3, <1>4, <1>5 DEF Connection
<1>7. copy' \in Outcomes(x)
  BY <1>1, <1>2
<1> HIDE DEF l, x
<1>8. x.key \in Keys \cup {None} /\ x.val \in Values \cup {None} /\ None \notin Keys
  BY <1>5, LinesAre DEF Line
<1>9. /\ copy' \in [Keys -> Values \cup {None}]
      /\ \A k \in Keys : k # x.key => copy'[k] = copy[k]
      /\ half # "earlier" => \A k \in Keys : k = x.key => copy'[k] = x.val
  BY <1>7, <1>8 DEF Outcomes, RInv, TypeOK
<1>10. TypeOK'
  <2>1. half' \in {"none", "this", "earlier"}
    BY <1>1 DEF RInv, TypeOK
  <2> QED
    BY <1>1, <1>6, <1>9, <2>1 DEF RInv, TypeOK
<1>11. SocketsFed'
  <2>1. \A f \in Fds : sock[f] # None => sock[f] \in Conns
    BY DEF RInv, TypeOK
  <2> QED
    BY <1>1, <1>6, <2>1 DEF RInv, SocketsFed
<1>12. Alive(c)' <=> Alive(c)
  BY <1>6 DEF Alive
<1>13. BufferClean'
  BY <1>1, <1>2, <1>12 DEF RInv, BufferClean
<1>14. NothingLost'
  <2> SUFFICES ASSUME Served(c)'
               PROVE  \E e \in Keys \cup {None} :
                        Covered(c, e)' /\ (~glued' \/ half' = "earlier" => e = None)
    BY <1>1, <1>2 DEF NothingLost
  <2>1. Served(c) /\ Alive(c)
    BY <1>1, <1>6, <1>12 DEF Served, SocketsOf
  <2>2. PICK e \in Keys \cup {None} :
          Covered(c, e) /\ (~glued \/ half = "earlier" => e = None)
    BY <1>1, <1>2, <2>1 DEF RInv, NothingLost
  <2>3. half # "this" /\ (half = "earlier" => glued)
    BY <1>1, <1>2, <2>1 DEF RInv, BufferClean
  <2>4. ASSUME NEW k \in Keys, db[k] # None, k # e, k = x.key => half # "earlier"
        PROVE  Settled(Tail(l), k, copy'[k], db[k])
    <3>1. Settled(l, k, copy[k], db[k])
      BY <2>2, <2>4 DEF Covered, l
    <3>2. IF Head(l).key = k THEN copy'[k] = Head(l).val ELSE copy'[k] = copy[k]
      BY <1>9, <2>4 DEF x
    <3> QED
      BY <1>5, <3>1, <3>2, SettledRun
  <2>5. CASE half = "earlier"
    <3>1. PICK h \in Keys \cup {None} : h = x.key
      BY <1>8
    <3>2. e = None
      BY <2>2, <2>5
    <3>3. \A k \in Keys : db[k] # None /\ k # h => Settled(Tail(l), k, copy'[k], db[k])
      BY <1>8, <2>4, <3>1, <3>2
    <3>4. Covered(c, h)'
      BY <1>1, <1>6, <3>3 DEF Covered
    <3>5. glued' /\ half' # "earlier"
      BY <1>1, <2>3, <2>5
    <3> QED
      BY <3>4, <3>5
  <2>6. CASE half # "earlier"
    <3>1. Covered(c, e)'
      BY <1>1, <1>6, <2>4, <2>6 DEF Covered
    <3> QED
      BY <1>1, <2>2, <2>6, <3>1
  <2> QED
    BY <2>5, <2>6
<1> QED
  BY <1>1, <1>10, <1>11, <1>13, <1>14 DEF RInv, Connected

-----------------------------------------------------------------------------
(* The theorems                                                            *)

LEMMA InitRInv == Init => RInv
<1> SUFFICES ASSUME Init PROVE RInv
  OBVIOUS
<1>1. Closed \in Connection
  BY DEF Closed, Connection
<1>2. TypeOK
  <2>1. /\ db \in [Keys -> Values \cup {None}] /\ copy \in [Keys -> Values \cup {None}]
        /\ sock \in [Fds -> Conns \cup {None}] /\ conn \in [Conns -> Connection]
    BY <1>1 DEF Init
  <2>2. replicas \in Seq(Fds)
    BY DEF Init
  <2> QED
    BY <2>1, <2>2 DEF Init, TypeOK
<1> QED
  BY <1>2 DEF Init, RInv, Connected, SocketsFed, BufferClean, NothingLost

LEMMA StepRInv == RInv /\ [Next]_vars => RInv'
<1> SUFFICES ASSUME RInv, [Next]_vars PROVE RInv'
  OBVIOUS
<1>1. ASSUME UNCHANGED vars PROVE RInv'
  BY <1>1 DEF vars, RInv, TypeOK, Connected, SocketsFed, BufferClean, NothingLost, Alive,
     Served, SocketsOf, Covered
<1>2. ASSUME connect_failed, thread' \in {"loop", "sleeping", "connecting"}, client' \in {"idle", "connecting"}
      PROVE  RInv'
  <2>1. UNCHANGED <<db, sock, replicas, conn, copy, role, state, primary_fd, half, glued, promoted, events>>
    BY <1>2 DEF connect_failed, primary, link
  <2> QED
    BY <1>2, <2>1 DEF RInv, TypeOK, Connected, SocketsFed, BufferClean, NothingLost, Alive,
       Served, SocketsOf, Covered
<1>3. /\ thread \in {"loop", "sleeping", "connecting"} /\ client \in {"idle", "connecting"}
      /\ promoted \in BOOLEAN /\ events \in Nat /\ events + 1 \in Nat
  BY DEF RInv, TypeOK
<1>4. CASE PrimaryStep
  BY <1>4, AddReplicaKeeps, HangUpKeeps DEF PrimaryStep
<1>5. CASE receive
  BY <1>5, ReceiveKeeps
<1>6. CASE lose
  BY <1>6, LoseKeeps
<1>7. CASE reconnect
  BY <1>3, <1>7, SetPrimaryKeeps DEF reconnect
<1>8. CASE reconnect_fails
  BY <1>2, <1>3, <1>8 DEF reconnect_fails
<1>9. ASSUME NEW c \in Conns, reconnect_connects(c) PROVE RInv'
  BY <1>3, <1>9, ConnectedKeeps DEF reconnect_connects
<1>10. ASSUME NEW k \in Keys, NEW v \in Values \cup {None}, write_command(k, v) PROVE RInv'
  BY <1>10, WriteKeeps
<1>11. CASE replicaof_command
  BY <1>3, <1>11, SetPrimaryKeeps DEF replicaof_command, Happens
<1>12. CASE replicaof_fails
  BY <1>2, <1>3, <1>12 DEF replicaof_fails
<1>13. CASE replication_unset_primary
  BY <1>13, UnsetPrimaryKeeps
<1>14. ASSUME NEW c \in Conns, replicaof_connects(c) PROVE RInv'
  BY <1>3, <1>14, ConnectedKeeps DEF replicaof_connects
<1>15. ASSUME NEW c \in Conns, killed(c) PROVE RInv'
  BY <1>15, KilledKeeps
<1>16. ASSUME NEW c \in Conns, Cut(c) PROVE RInv'
  BY <1>16, CutKeeps
<1> QED
  BY <1>1, <1>4, <1>5, <1>6, <1>7, <1>8, <1>9, <1>10, <1>11, <1>12, <1>13, <1>14, <1>15, <1>16
     DEF Next, ThreadStep

LEMMA Invariance == Spec => []RInv
<1> QED
  BY InitRInv, StepRInv, PTL DEF Spec

\* No line that is left to run: the replica has every key but e.
LEMMA InStepCaughtUp == RInv => CaughtUp
<1> SUFFICES ASSUME RInv, InStep PROVE Cardinality(Missing) <= IF glued THEN 1 ELSE 0
  BY DEF CaughtUp
<1>1. primary_fd # None /\ Served(primary_fd) /\ conn[primary_fd].lines = <<>>
  BY DEF InStep, Served
<1>2. PICK e \in Keys \cup {None} :
        Covered(primary_fd, e) /\ (~glued \/ half = "earlier" => e = None)
  BY <1>1 DEF RInv, NothingLost
<1>3. \A k \in Keys : db[k] # None /\ k # e => copy[k] = db[k]
  BY <1>1, <1>2 DEF Covered, Settled
<1>4. Missing \subseteq {e}
  BY <1>3 DEF Missing
<1>5. Missing = {} \/ Missing = {e}
  BY <1>4
<1>6. e = None => Missing = {}
  BY <1>4, LinesAre DEF Missing
<1>7. Cardinality({}) = 0 /\ Cardinality({e}) = 1
  BY FS_EmptySet, FS_Singleton
<1> HIDE DEF Missing
<1>8. CASE glued
  BY <1>5, <1>7, <1>8
<1>9. CASE ~glued
  BY <1>2, <1>6, <1>7, <1>9
<1> QED
  BY <1>8, <1>9

\* The list of replicas has descriptors only and the connections stay as the
\* actions take them, for any number of keys, sockets and connections: what
\* replication.c and server_repl hold is well-formed throughout.
THEOREM TypeCorrect == Spec => []TypeOK
<1>1. RInv => TypeOK
  BY DEF RInv
<1> QED
  BY <1>1, Invariance, PTL

\* replication.c resynchronises: a replica that has run all its primary sent on a
\* whole connection has every key of the primary with its value, but for one if
\* the connection began with a rest of an earlier one in the buffer; whatever was
\* lost, closed, connected twice, killed or told to change its role before, and
\* although the list of replicas may hold closed descriptors and one twice.
THEOREM ReplicaCaughtUp == Spec => []CaughtUp
<1> QED
  BY InStepCaughtUp, Invariance, PTL

-----------------------------------------------------------------------------
(* What the two counterexamples of the replica need                        *)

\* No key of the primary is deleted, nor lost by a restart of it.
NothingDeleted == \A k \in Keys : db[k] # None

\* A resynchronisation of replication.c only adds keys: where the primary deletes
\* none, a replica in step has the very database of the primary.  That FullResync
\* fails elsewhere is due to what sync_replica leaves at the replica, and to
\* nothing else.
THEOREM FullWithoutDeletes == Spec /\ []NothingDeleted => []FullResync
<1>1. RInv /\ NothingDeleted => FullResync
  <2> SUFFICES ASSUME RInv, NothingDeleted, InStep, ~glued PROVE copy = db
    BY DEF FullResync
  <2>1. primary_fd # None /\ Served(primary_fd) /\ conn[primary_fd].lines = <<>>
    BY DEF InStep, Served
  <2>2. PICK e \in Keys \cup {None} : Covered(primary_fd, e) /\ e = None
    BY <2>1 DEF RInv, NothingLost
  <2>3. \A k \in Keys : copy[k] = db[k]
    BY <2>1, <2>2, LinesAre DEF Covered, Settled, NothingDeleted
  <2>4. copy \in [Keys -> Values \cup {None}] /\ db \in [Keys -> Values \cup {None}]
    BY DEF RInv, TypeOK
  <2> QED
    BY <2>3, <2>4
<1> QED
  BY <1>1, Invariance, PTL

\* REPLICAOF NO ONE does not arrive while replication_thread sleeps before its
\* next attempt to connect.
Awake == [][replication_unset_primary => thread # "sleeping"]_vars

\* A promoted server has left the thread no attempt to make.
Settles == promoted => role = "primary" /\ thread # "sleeping"

LEMMA SettlesStep ==
  Settles /\ [Next]_vars /\ [replication_unset_primary => thread # "sleeping"]_vars => Settles'
<1> SUFFICES ASSUME Settles, [Next]_vars, [replication_unset_primary => thread # "sleeping"]_vars
             PROVE  Settles'
  OBVIOUS
<1>1. CASE UNCHANGED vars
  BY <1>1 DEF Settles, vars
<1>2. CASE replicaof_command
  BY <1>2 DEF Settles, replicaof_command
<1>3. CASE replication_unset_primary
  <2>1. role' = "primary" /\ thread' = thread
    BY <1>3 DEF replication_unset_primary
  <2>2. CASE vars' = vars
    BY <1>1, <2>2
  <2> QED
    BY <1>3, <2>1, <2>2 DEF Settles
<1>4. CASE receive \/ replicaof_fails \/ \E k \in Keys, v \in Values \cup {None} : write_command(k, v)
  BY <1>4 DEF Settles, receive, replicaof_fails, connect_failed, write_command, link, actors
<1>5. CASE lose
  BY <1>5 DEF Settles, lose, Following
<1>6. CASE reconnect
  BY <1>6 DEF Settles, reconnect, Following
<1>7. CASE reconnect_fails
  BY <1>7 DEF Settles, reconnect_fails, connect_failed, link
<1>8. ASSUME NEW c \in Conns,
             \/ add_replica(c) \/ hang_up(c) \/ killed(c) \/ Cut(c)
             \/ reconnect_connects(c) \/ replicaof_connects(c)
      PROVE  Settles'
  BY <1>8 DEF Settles, add_replica, hang_up, killed, Cut, reconnect_connects, replicaof_connects,
              connected, link, actors
<1> QED
  BY <1>1, <1>2, <1>3, <1>4, <1>5, <1>6, <1>7, <1>8 DEF Next, PrimaryStep, ThreadStep

\* The answer to REPLICAOF NO ONE is kept, until the next REPLICAOF, against every
\* order of the commands and of replication_thread's steps but one: the sleep of
\* the thread, after which it calls replication_set_primary without a look at the
\* role, is the only place where a promotion is lost.
THEOREM PromotionHolds == Spec /\ Awake => []PromotionSticks
<1>1. Init => Settles
  BY DEF Init, Settles
<1>2. Settles => PromotionSticks
  BY DEF Settles, PromotionSticks
<1> QED
  BY <1>1, <1>2, SettlesStep, PTL DEF Spec, Awake

=============================================================================
