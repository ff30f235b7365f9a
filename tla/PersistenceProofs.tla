------------------------- MODULE PersistenceProofs -------------------------
(***************************************************************************)
(* Proofs about Persistence: its types; that dump.rdb is whole however the *)
(* saves before it ended; and that it is current, as long as saves run one *)
(* at a time, the event loop serves the clients and fclose does not fail.  *)
(***************************************************************************)
EXTENDS Persistence, FiniteSetTheorems, SequenceTheorems, WellFoundedInduction, TLAPS

-----------------------------------------------------------------------------
(* Numbers and blocks                                                      *)

\* Natural numbers have a least element.
LEMMA LeastExists ==
  ASSUME NEW T, T \subseteq Nat, T # {}
  PROVE  \E n \in T : \A m \in T : n <= m
<1> DEFINE Less == {p \in Nat \X Nat : p[1] < p[2]}
<1>1. IsWellFoundedOn(Less, Nat)
  BY NatLessThanWellFounded DEF OpToRel
<1> HIDE DEF Less
<1>2. PICK n \in T : \A m \in T : ~(<<m, n>> \in Less)
  BY <1>1, WFMin
<1>3. ASSUME NEW m \in T PROVE n <= m
  <2>1. m \in Nat /\ n \in Nat
    OBVIOUS
  <2>2. ~(m < n)
    BY <1>2, <2>1 DEF Less
  <2> QED
    BY <2>1, <2>2
<1> QED
  BY <1>3

LEMMA MinIs ==
  ASSUME NEW T, T \subseteq Nat, T # {}
  PROVE  Min(T) \in T
<1>1. \E n \in T : \A m \in T : n <= m
  BY LeastExists
<1> QED
  BY <1>1 DEF Min

\* A set of numbers with an upper bound has a greatest one, and Max is it.
LEMMA MaxIs ==
  ASSUME NEW T, T \subseteq Nat, T # {}, NEW b \in Nat, \A n \in T : n <= b
  PROVE  Max(T) \in T /\ \A n \in T : n <= Max(T)
<1> DEFINE U == {b - n : n \in T}
<1>1. U \subseteq Nat /\ U # {}
  <2>1. \A n \in T : b - n \in Nat
    OBVIOUS
  <2>2. PICK n \in T : TRUE
    OBVIOUS
  <2> QED
    BY <2>1, <2>2
<1>2. PICK u \in U : \A v \in U : u <= v
  <2> HIDE DEF U
  <2> QED
    BY <1>1, LeastExists
<1>3. PICK m \in T : u = b - m
  OBVIOUS
<1>4. \A n \in T : m >= n
  <2> TAKE n \in T
  <2>1. b - n \in U
    OBVIOUS
  <2>2. u <= b - n
    BY <1>2, <2>1
  <2>3. m \in Nat /\ n \in Nat
    OBVIOUS
  <2> HIDE DEF U
  <2> QED
    BY <1>3, <2>2, <2>3
<1>5. Max(T) \in T /\ \A n \in T : Max(T) >= n
  BY <1>4 DEF Max
<1> QED
  BY <1>5

LEMMA MaxOfTwo ==
  ASSUME NEW a \in Nat, NEW b \in Nat
  PROVE  Max({a, b}) = IF a >= b THEN a ELSE b
<1> DEFINE T == {a, b}
<1>1. T \subseteq Nat /\ T # {} /\ a + b \in Nat /\ \A n \in T : n <= a + b
  OBVIOUS
<1>2. Max(T) \in T /\ \A n \in T : n <= Max(T)
  <2> HIDE DEF T
  <2> QED
    BY <1>1, MaxIs
<1> QED
  BY <1>2

\* The blocks a save writes.
LEMMA BlocksAre ==
  /\ \A n \in 0 .. KeyCount : Header(n) \in Block
  /\ \A k \in Keys, o \in Object : Entry(k, o) \in Block
  /\ End \in Block /\ Hole \in Block
  BY DEF Block

LEMMA WriteTyped ==
  ASSUME NEW f \in Seq(Block), NEW n \in Nat, NEW bs \in Seq(Block)
  PROVE  WriteAt(f, n, bs) \in Seq(Block)
<1> DEFINE m == Max({Len(f), n + Len(bs)})
           W == [i \in 1 .. m |->
                   IF i \in n + 1 .. n + Len(bs) THEN bs[i - n] ELSE IF i <= Len(f) THEN f[i] ELSE Hole]
<1>1. m \in Nat
  BY MaxOfTwo
<1>2. ASSUME NEW i \in 1 .. m
      PROVE  (IF i \in n + 1 .. n + Len(bs) THEN bs[i - n] ELSE IF i <= Len(f) THEN f[i] ELSE Hole) \in Block
  <2>1. CASE i \in n + 1 .. n + Len(bs)
    <3>1. i - n \in 1 .. Len(bs)
      BY <2>1
    <3> QED
      BY <2>1, <3>1
  <2>2. CASE i \notin n + 1 .. n + Len(bs) /\ i <= Len(f)
    <3>1. i \in 1 .. Len(f)
      BY <1>1, <2>2
    <3> QED
      BY <2>2, <3>1
  <2>3. CASE i \notin n + 1 .. n + Len(bs) /\ ~(i <= Len(f))
    BY <2>3, BlocksAre
  <2> QED
    BY <2>1, <2>2, <2>3
<1>3. W \in Seq(Block)
  <2> HIDE DEF m
  <2> QED
    BY <1>1, <1>2
<1> QED
  BY <1>3 DEF WriteAt

\* What is written at the end of a file is appended to it.
LEMMA WriteAppends ==
  ASSUME NEW f \in Seq(Block), NEW bs \in Seq(Block)
  PROVE  WriteAt(f, Len(f), bs) = f \o bs
<1> DEFINE n == Len(f)
           W == [i \in 1 .. n + Len(bs) |->
                   IF i \in n + 1 .. n + Len(bs) THEN bs[i - n] ELSE IF i <= Len(f) THEN f[i] ELSE Hole]
<1>1. Max({Len(f), n + Len(bs)}) = n + Len(bs)
  BY MaxOfTwo
<1>2. WriteAt(f, n, bs) = W
  BY <1>1 DEF WriteAt
<1>3. W = f \o bs
  <2>1. f \o bs \in Seq(Block) /\ Len(f \o bs) = n + Len(bs) /\ DOMAIN (f \o bs) = 1 .. n + Len(bs)
    OBVIOUS
  <2>2. \A i \in 1 .. n + Len(bs) : W[i] = (f \o bs)[i]
    OBVIOUS
  <2> DEFINE g == f \o bs
             m == n + Len(bs)
  <2>3. g = [i \in 1 .. m |-> g[i]]
    <3> HIDE DEF g, m
    <3>1. DOMAIN g = 1 .. m /\ g \in Seq(Block) /\ m \in Nat
      BY <2>1 DEF g, m
    <3>2. g \in [1 .. m -> Block]
      BY <3>1
    <3> QED
      BY <3>2
  <2> QED
    BY <2>2, <2>3
<1> QED
  BY <1>2, <1>3


-----------------------------------------------------------------------------
(* Types                                                                   *)

Writing(s) == saver[s].pc \in {"header", "entries", "close", "failed"}

\* A saver has a file open exactly from its fopen to its fclose: it is why fopen
\* always finds a free inode in the model.
OpenFiles == \A s \in Savers : saver[s].ino # None <=> Writing(s)

TInv == TypeOK /\ OpenFiles

LEMMA RestTyped == Rest \in Locals
<1>1. Empty \in [Keys -> Object \cup {None}] /\ <<>> \in Seq(Block) /\ 1 \in 1 .. KeyCount + 1
  BY PersistenceAssumption DEF Empty
<1> QED
  BY <1>1 DEF Rest, Locals

LEMMA NoneIsNoInode == None \notin Inodes /\ Inodes \subseteq Nat
<1>1. Cardinality(Savers) \in Nat
  BY PersistenceAssumption, FS_CardinalityType
<1> QED
  BY <1>1, PersistenceAssumption DEF Inodes

\* fopen finds a free inode: those in use are the two with a name and at most one
\* of each saver, but none of the saver that opens.
LEMMA FreeExists ==
  ASSUME TInv, NEW s \in Savers, At(s, "open")
  PROVE  FreeInodes # {} /\ FreeInodes \subseteq Nat /\ Min(FreeInodes) \in FreeInodes
<1> DEFINE f == [t \in Savers |-> saver[t].ino]
           U == {saver[t].ino : t \in Savers}
           V == U \cup {dump}
           W == V \cup {tmp}
           n == Cardinality(Savers)
<1>1. IsFiniteSet(Savers) /\ n \in Nat
  BY PersistenceAssumption, FS_CardinalityType
<1>2. f \in Surjection(Savers, U)
  <2>1. f \in [Savers -> U]
    OBVIOUS
  <2>2. \A u \in U : \E t \in Savers : f[t] = u
    OBVIOUS
  <2> QED
    BY <2>1, <2>2 DEF Surjection
<1>3. None \in U
  BY DEF TInv, OpenFiles, At, Writing
<1> HIDE DEF f, U
<1>4. IsFiniteSet(U) /\ Cardinality(U) <= n
  BY <1>1, <1>2, FS_Surjection
<1>5. IsFiniteSet(V) /\ Cardinality(V) <= n + 1
  <2>1. Cardinality(U) \in Nat
    BY <1>4, FS_CardinalityType
  <2>2. IsFiniteSet(V) /\ Cardinality(V) = IF dump \in U THEN Cardinality(U) ELSE Cardinality(U) + 1
    BY <1>4, FS_AddElement
  <2> QED
    BY <1>1, <1>4, <2>1, <2>2
<1> HIDE DEF V
<1>6. IsFiniteSet(W) /\ Cardinality(W) <= n + 2
  <2>1. Cardinality(V) \in Nat
    BY <1>5, FS_CardinalityType
  <2>2. IsFiniteSet(W) /\ Cardinality(W) = IF tmp \in V THEN Cardinality(V) ELSE Cardinality(V) + 1
    BY <1>5, FS_AddElement
  <2> QED
    BY <1>1, <1>5, <2>1, <2>2
<1>7. None \in W
  BY <1>3 DEF V
<1> HIDE DEF W
<1>8. IsFiniteSet(W \ {None}) /\ Cardinality(W \ {None}) <= n + 1
  <2>1. Cardinality(W) \in Nat
    BY <1>6, FS_CardinalityType
  <2>2. IsFiniteSet(W \ {None}) /\ Cardinality(W \ {None}) = IF None \in W THEN Cardinality(W) - 1 ELSE Cardinality(W)
    BY <1>6, FS_RemoveElement
  <2> QED
    BY <1>1, <1>6, <1>7, <2>1, <2>2
<1>9. Cardinality(Inodes) = n + 2
  <2> DEFINE m == n + 2
  <2>1. m \in Int /\ 1 \in Int /\ ~(1 > m)
    BY <1>1
  <2> HIDE DEF m
  <2>2. Cardinality(1 .. m) = m
    <3>1. Cardinality(1 .. m) = IF 1 > m THEN 0 ELSE m - 1 + 1
      BY <2>1, FS_Interval
    <3> QED
      BY <2>1, <3>1
  <2> QED
    BY <2>2 DEF m, Inodes
<1>10. ~(Inodes \subseteq W \ {None})
  <2> SUFFICES ASSUME Inodes \in SUBSET (W \ {None}) PROVE FALSE
    OBVIOUS
  <2>1. Cardinality(Inodes) <= Cardinality(W \ {None})
    BY <1>8, FS_Subset
  <2>2. Cardinality(W \ {None}) \in Nat
    BY <1>8, FS_CardinalityType
  <2> QED
    BY <1>1, <1>8, <1>9, <2>1, <2>2
<1>11. PICK i \in Inodes : i \notin W
  BY <1>10, NoneIsNoInode
<1>12. i \in FreeInodes
  BY <1>11 DEF W, V, U, FreeInodes
<1>13. FreeInodes # {} /\ FreeInodes \subseteq Nat
  BY <1>12, NoneIsNoInode DEF FreeInodes
<1> QED
  BY <1>13, MinIs

\* The count of a header is one the model has a block for.
LEMMA UsedBounded ==
  ASSUME NEW d
  PROVE  Used(d) \in 0 .. KeyCount
<1> DEFINE T == {k \in Keys : d[k] # None}
<1>1. IsFiniteSet(Keys) /\ Cardinality(Keys) = KeyCount
  <2>1. KeyCount \in Int /\ 1 \in Int /\ KeyCount \in Nat
    BY PersistenceAssumption
  <2>2. IsFiniteSet(1 .. KeyCount) /\ Cardinality(1 .. KeyCount) = IF 1 > KeyCount THEN 0 ELSE KeyCount - 1 + 1
    BY <2>1, FS_Interval
  <2> QED
    BY <2>1, <2>2 DEF Keys
<1>2. T \in SUBSET Keys
  OBVIOUS
<1> HIDE DEF T
<1>3. IsFiniteSet(T) /\ Cardinality(T) <= Cardinality(Keys)
  BY <1>1, <1>2, FS_Subset
<1>4. Cardinality(T) \in Nat
  BY <1>3, FS_CardinalityType
<1>5. Cardinality(T) \in 0 .. KeyCount
  BY <1>1, <1>3, <1>4, PersistenceAssumption
<1> QED
  BY <1>5 DEF T, Used

LEMMA BlocksAssociative ==
  ASSUME NEW l \in Seq(Block), NEW m \in Seq(Block), NEW n \in Seq(Block)
  PROVE  (l \o m) \o n = l \o (m \o n)
BY SMTT(60)

\* What fwrite leaves: the locals are w and the file has the contents g.  Nothing
\* of the block is lost, or the saver goes to clean up.
SameBut(w, r) ==
  /\ w.pc = r.pc /\ w.ino = r.ino /\ w.at = r.at /\ w.now = r.now
  /\ w.mem = r.mem /\ w.touched = r.touched

Wrote(s, b, r, w, g) ==
  /\ saver' = [saver EXCEPT ![s] = w]
  /\ files' = [files EXCEPT ![r.ino] = g]
  /\ \/ /\ SameBut(w, r)
        /\ r.off = Len(files[r.ino]) =>
             w.off = Len(g) /\ g \o w.buf = Append(files[r.ino] \o r.buf, b)
     \/ /\ w.pc = "failed" /\ w.ino = saver[s].ino
        /\ g = files[r.ino]

LEMMA WriteShows ==
  ASSUME TInv, NEW s \in Savers, NEW b \in Block, NEW r \in Locals, r.ino \in Inodes, Write(s, b, r)
  PROVE  \E w \in Locals, g \in Seq(Block) : Wrote(s, b, r, w, g)
<1> DEFINE full == Len(r.buf) = BufferSize
           f == files[r.ino]
<1>1. f \in Seq(Block) /\ r.buf \in Seq(Block) /\ r.off \in Nat /\ files \in [Inodes -> Seq(Block)]
  BY DEF TInv, TypeOK, Locals
<1>2. files = [files EXCEPT ![r.ino] = f]
  <2>1. [files EXCEPT ![r.ino] = f] = [i \in Inodes |-> files[i]]
    BY <1>1
  <2>2. files = [i \in Inodes |-> files[i]]
    BY <1>1
  <2> QED
    BY <2>1, <2>2
<1>3. CASE ~full /\ saver' = [saver EXCEPT ![s] = [r EXCEPT !.buf = Append(@, b)]] /\ UNCHANGED files
  <2> DEFINE x == Append(r.buf, b)
             w == [r EXCEPT !.buf = x]
  <2>1. x \in Seq(Block)
    BY <1>1
  <2>2. f \o x = Append(f \o r.buf, b)
    <3>1. x = r.buf \o <<b>> /\ <<b>> \in Seq(Block)
      BY <1>1, AppendIsConcat
    <3>2. f \o r.buf \in Seq(Block)
      BY <1>1
    <3>3. Append(f \o r.buf, b) = (f \o r.buf) \o <<b>>
      BY <3>2, AppendIsConcat
    <3>4. (f \o r.buf) \o <<b>> = f \o (r.buf \o <<b>>)
      <4>1. f \in Seq(Block) /\ r.buf \in Seq(Block) /\ <<b>> \in Seq(Block)
        BY <1>1, <3>1
      <4> HIDE DEF f
      <4> QED
        BY <4>1, BlocksAssociative, Zenon
    <3> QED
      BY <3>1, <3>3, <3>4
  <2>3. saver' = [saver EXCEPT ![s] = w]
    BY <1>3
  <2> HIDE DEF x
  <2>4. w \in Locals /\ SameBut(w, r) /\ w.off = r.off /\ w.buf = x
    BY <2>1 DEF Locals, SameBut
  <2> HIDE DEF w
  <2>5. Wrote(s, b, r, w, f)
    BY <1>2, <1>3, <2>2, <2>3, <2>4 DEF Wrote
  <2> QED
    BY <1>1, <2>4, <2>5
<1>4. CASE /\ full
           /\ files' = [files EXCEPT ![r.ino] = WriteAt(@, r.off, r.buf)]
           /\ saver' = [saver EXCEPT ![s] = [r EXCEPT !.off = @ + Len(r.buf), !.buf = <<b>>]]
  <2> DEFINE o == r.off + Len(r.buf)
             x == <<b>>
             w == [r EXCEPT !.off = o, !.buf = x]
             g == WriteAt(f, r.off, r.buf)
  <2>1. o \in Nat /\ x \in Seq(Block)
    BY <1>1
  <2>2. g \in Seq(Block)
    BY <1>1, WriteTyped
  <2>3. saver' = [saver EXCEPT ![s] = w]
    BY <1>4
  <2>4. files' = [files EXCEPT ![r.ino] = g]
    BY <1>1, <1>4
  <2>5. ASSUME r.off = Len(f)
        PROVE  o = Len(g) /\ g \o x = Append(f \o r.buf, b)
    <3>1. g = f \o r.buf
      BY <1>1, <2>5, WriteAppends
    <3>2. Len(f \o r.buf) = Len(f) + Len(r.buf)
      BY <1>1
    <3>3. f \o r.buf \in Seq(Block)
      BY <1>1
    <3>4. Append(f \o r.buf, b) = (f \o r.buf) \o <<b>>
      BY <3>3, AppendIsConcat
    <3> QED
      BY <2>5, <3>1, <3>2, <3>4
  <2> HIDE DEF o, x, g
  <2>6. w \in Locals /\ SameBut(w, r) /\ w.off = o /\ w.buf = x
    BY <2>1 DEF Locals, SameBut
  <2> HIDE DEF w
  <2>7. Wrote(s, b, r, w, g)
    BY <2>3, <2>4, <2>5, <2>6 DEF Wrote
  <2> QED
    BY <2>2, <2>6, <2>7
<1>5. CASE saver' = [saver EXCEPT ![s].pc = "failed"] /\ UNCHANGED files
  <2> DEFINE l == saver[s]
             w == [l EXCEPT !.pc = "failed"]
  <2>1. l \in Locals /\ saver \in [Savers -> Locals]
    BY DEF TInv, TypeOK
  <2>2. saver' = [saver EXCEPT ![s] = w]
    BY <1>5, <2>1
  <2> HIDE DEF l
  <2>3. w \in Locals /\ w.pc = "failed" /\ w.ino = l.ino
    BY <2>1 DEF Locals
  <2> HIDE DEF w
  <2>4. Wrote(s, b, r, w, f)
    BY <1>2, <1>5, <2>2, <2>3 DEF Wrote, l
  <2> QED
    BY <1>1, <2>3, <2>4
<1> QED
  BY <1>3, <1>4, <1>5 DEF Write

\* What a saver leaves behind when save_rdb_to_file returns.
LEMMA ReturnTyped ==
  ASSUME TInv, NEW s \in Savers, NEW ok, Return(s, ok)
  PROVE  /\ saver' \in [Savers -> Locals]
         /\ \A t \in Savers : t # s => saver'[t] = saver[t]
         /\ saver'[s].pc \in {"idle", "reset"} /\ saver'[s].ino = None
<1> DEFINE w == [Rest EXCEPT !.pc = "reset"]
<1>1. w \in Locals /\ w.pc = "reset" /\ w.ino = None
  BY RestTyped DEF Locals, Rest
<1>2. Rest \in Locals /\ Rest.pc = "idle" /\ Rest.ino = None
  BY RestTyped DEF Rest
<1>3. saver \in [Savers -> Locals]
  BY DEF TInv, TypeOK
<1>4. saver' = [saver EXCEPT ![s] = w] \/ saver' = [saver EXCEPT ![s] = Rest]
  BY DEF Return
<1> HIDE DEF w
<1> QED
  BY <1>1, <1>2, <1>3, <1>4

\* A step of saver s that leaves it with the locals w.
LEMMA SaverTyped ==
  ASSUME TInv, NEW s \in Savers, NEW w \in Locals, saver' = [saver EXCEPT ![s] = w],
         w.ino # None <=> w.pc \in {"header", "entries", "close", "failed"}
  PROVE  saver' \in [Savers -> Locals] /\ OpenFiles'
  BY DEF TInv, TypeOK, OpenFiles, Writing

LEMMA BeginTyped ==
  ASSUME TInv, NEW s \in Savers, Begin(s)
  PROVE  TInv'
<1> DEFINE d == IF s \in Children THEN db ELSE Empty
           w == [Rest EXCEPT !.pc = "open", !.mem = d]
<1>1. d \in [Keys -> Object \cup {None}]
  BY DEF TInv, TypeOK, Empty
<1> HIDE DEF d
<1>2. w \in Locals /\ w.pc = "open" /\ w.ino = None
  BY <1>1, RestTyped DEF Locals, Rest
<1>3. saver' = [saver EXCEPT ![s] = w]
  BY DEF Begin, d
<1> HIDE DEF w
<1>4. saver' \in [Savers -> Locals] /\ OpenFiles'
  BY <1>2, <1>3, SaverTyped
<1> QED
  BY <1>4 DEF Begin, TInv, TypeOK, disk

LEMMA OpenTyped ==
  ASSUME TInv, NEW s \in Savers, open_temp(s)
  PROVE  TInv'
<1>1. CASE "open" \in Failures /\ Return(s, FALSE) /\ UNCHANGED <<files, tmp>>
  <2>1. /\ saver' \in [Savers -> Locals]
        /\ \A t \in Savers : t # s => saver'[t] = saver[t]
        /\ saver'[s].pc \in {"idle", "reset"} /\ saver'[s].ino = None
    BY <1>1, ReturnTyped
  <2>2. OpenFiles'
    BY <2>1 DEF TInv, OpenFiles, Writing
  <2> QED
    BY <1>1, <2>1, <2>2 DEF open_temp, TInv, TypeOK
<1>2. ASSUME NEW i \in IF tmp = None THEN {Min(FreeInodes)} ELSE {tmp},
             tmp' = i, files' = [files EXCEPT ![i] = <<>>],
             saver' = [saver EXCEPT ![s] = [saver[s] EXCEPT !.pc = "header", !.ino = i]]
      PROVE  TInv'
  <2>1. i \in Inodes
    <3>1. At(s, "open")
      BY DEF open_temp
    <3>2. Min(FreeInodes) \in Inodes
      BY <3>1, FreeExists DEF FreeInodes
    <3> QED
      BY <3>2 DEF TInv, TypeOK
  <2>2. i # None
    BY <2>1, NoneIsNoInode
  <2> DEFINE l == saver[s]
             w == [l EXCEPT !.pc = "header", !.ino = i]
  <2>3. l \in Locals
    BY DEF TInv, TypeOK
  <2>4. saver' = [saver EXCEPT ![s] = w]
    BY <1>2
  <2> HIDE DEF l
  <2>5. w \in Locals /\ w.pc = "header" /\ w.ino = i
    BY <2>1, <2>3 DEF Locals
  <2> HIDE DEF w
  <2>6. saver' \in [Savers -> Locals] /\ OpenFiles'
    BY <2>2, <2>4, <2>5, SaverTyped
  <2>7. files' \in [Inodes -> Seq(Block)]
    <3>1. <<>> \in Seq(Block)
      OBVIOUS
    <3> QED
      BY <1>2, <3>1 DEF TInv, TypeOK
  <2> QED
    BY <1>2, <2>1, <2>6, <2>7 DEF open_temp, TInv, TypeOK
<1> QED
  BY <1>1, <1>2 DEF open_temp

\* A step that writes block b leaves types right, whatever becomes of the block.
LEMMA WriteKeepsTypes ==
  ASSUME TInv, NEW s \in Savers, NEW b \in Block, NEW r \in Locals, r.ino = saver[s].ino,
         saver[s].ino # None, r.pc \in {"entries", "close"}, Write(s, b, r),
         UNCHANGED <<up, clock, db, changes, overdue, dump, tmp, late>>
  PROVE  TInv'
<1>1. r.ino \in Inodes
  BY DEF TInv, TypeOK, Locals
<1>2. PICK w \in Locals, g \in Seq(Block) : Wrote(s, b, r, w, g)
  BY <1>1, WriteShows
<1>3. w.ino # None /\ w.pc \in {"header", "entries", "close", "failed"}
  BY <1>2 DEF Wrote, SameBut
<1>4. saver' \in [Savers -> Locals] /\ OpenFiles'
  BY <1>2, <1>3, SaverTyped DEF Wrote
<1>5. files' \in [Inodes -> Seq(Block)]
  BY <1>1, <1>2 DEF Wrote, TInv, TypeOK
<1> QED
  BY <1>4, <1>5 DEF TInv, TypeOK

\* The locals with which each write goes on.
HeaderNext(s) == [saver[s] EXCEPT !.pc = "entries", !.now = clock]
EntryNext(s) == [saver[s] EXCEPT !.at = saver[s].at + 1]
EndNext(s) == [saver[s] EXCEPT !.pc = "close"]

LEMMA NextLocals ==
  ASSUME TInv, NEW s \in Savers
  PROVE  /\ /\ HeaderNext(s) \in Locals
            /\ HeaderNext(s).pc = "entries" /\ HeaderNext(s).now = clock
            /\ HeaderNext(s).ino = saver[s].ino /\ HeaderNext(s).off = saver[s].off
            /\ HeaderNext(s).buf = saver[s].buf /\ HeaderNext(s).at = saver[s].at
            /\ HeaderNext(s).mem = saver[s].mem /\ HeaderNext(s).touched = saver[s].touched
         /\ /\ saver[s].at <= KeyCount => EntryNext(s) \in Locals
            /\ EntryNext(s).pc = saver[s].pc /\ EntryNext(s).now = saver[s].now
            /\ EntryNext(s).ino = saver[s].ino /\ EntryNext(s).off = saver[s].off
            /\ EntryNext(s).buf = saver[s].buf /\ EntryNext(s).at = saver[s].at + 1
            /\ EntryNext(s).mem = saver[s].mem /\ EntryNext(s).touched = saver[s].touched
         /\ /\ EndNext(s) \in Locals
            /\ EndNext(s).pc = "close" /\ EndNext(s).now = saver[s].now
            /\ EndNext(s).ino = saver[s].ino /\ EndNext(s).off = saver[s].off
            /\ EndNext(s).buf = saver[s].buf /\ EndNext(s).at = saver[s].at
            /\ EndNext(s).mem = saver[s].mem /\ EndNext(s).touched = saver[s].touched
<1> DEFINE l == saver[s]
           a == l.at + 1
<1>1. l \in Locals /\ clock \in Nat
  BY DEF TInv, TypeOK
<1>2. l.at <= KeyCount => a \in 1 .. KeyCount + 1
  BY <1>1, PersistenceAssumption DEF Locals
<1> HIDE DEF l
<1>3. [l EXCEPT !.pc = "entries", !.now = clock] \in Locals
  BY <1>1 DEF Locals
<1>4. [l EXCEPT !.pc = "close"] \in Locals
  BY <1>1 DEF Locals
<1>5. l.at <= KeyCount => [l EXCEPT !.at = a] \in Locals
  <2> HIDE DEF a
  <2> QED
    BY <1>1, <1>2 DEF Locals
<1>6. l \in [pc : {"idle", "open", "header", "entries", "close", "failed", "rename", "unlink", "reset"},
             ino : Inodes \cup {None}, off : Nat, buf : Seq(Block), at : 1 .. KeyCount + 1, now : Nat,
             mem : [Keys -> Object \cup {None}], touched : SUBSET Keys]
  BY <1>1 DEF Locals
<1> QED
  BY <1>3, <1>4, <1>5, <1>6 DEF HeaderNext, EntryNext, EndNext, l

LEMMA WritersTyped ==
  ASSUME TInv, NEW s \in Savers, write_header(s) \/ write_entry(s) \/ write_end(s)
  PROVE  TInv'
<1>1. saver[s].ino # None
  BY DEF write_header, write_entry, write_end, At, TInv, OpenFiles, Writing
<1>2. CASE write_header(s)
  <2>1. Header(Used(Memory(s))) \in Block
    BY UsedBounded, BlocksAre
  <2>2. Write(s, Header(Used(Memory(s))), HeaderNext(s))
    BY <1>2 DEF write_header, HeaderNext
  <2>3. UNCHANGED <<up, clock, db, changes, overdue, dump, tmp, late>>
    BY <1>2 DEF write_header
  <2> QED
    BY <1>1, <2>1, <2>2, <2>3, NextLocals, WriteKeepsTypes
<1>3. CASE write_entry(s)
  <2> DEFINE k == saver[s].at
             o == Memory(s)[k]
  <2>1. k \in Keys /\ saver[s].pc = "entries" /\ k <= KeyCount
    BY <1>3 DEF write_entry, At, TInv, TypeOK, Locals, Keys
  <2>2. o \in Object \cup {None}
    BY <2>1 DEF Memory, TInv, TypeOK, Locals
  <2>3. UNCHANGED <<up, clock, db, changes, overdue, dump, tmp, late>>
    BY <1>3 DEF write_entry
  <2>4. CASE saver' = [saver EXCEPT ![s] = EntryNext(s)] /\ UNCHANGED files
    <3>1. EntryNext(s) \in Locals /\ EntryNext(s).pc = "entries" /\ EntryNext(s).ino # None
      BY <1>1, <2>1, NextLocals
    <3>2. saver' \in [Savers -> Locals] /\ OpenFiles'
      BY <2>4, <3>1, SaverTyped
    <3> QED
      BY <2>3, <2>4, <3>2 DEF TInv, TypeOK
  <2>5. CASE o # None /\ Write(s, Entry(k, o), EntryNext(s))
    <3>1. Entry(k, o) \in Block
      BY <2>1, <2>2, <2>5, BlocksAre
    <3> QED
      BY <1>1, <2>1, <2>3, <2>5, <3>1, NextLocals, WriteKeepsTypes
  <2> QED
    BY <1>3, <2>4, <2>5 DEF write_entry, EntryNext
<1>4. CASE write_end(s)
  <2>1. Write(s, End, EndNext(s))
    BY <1>4 DEF write_end, EndNext
  <2>2. UNCHANGED <<up, clock, db, changes, overdue, dump, tmp, late>>
    BY <1>4 DEF write_end
  <2> QED
    BY <1>1, <2>1, <2>2, NextLocals, BlocksAre, WriteKeepsTypes
<1> QED
  BY <1>2, <1>3, <1>4

LEMMA EndersTyped ==
  ASSUME TInv, NEW s \in Savers,
         close_temp(s) \/ rename_temp(s) \/ unlink_temp(s) \/ auto_save_reset(s)
  PROVE  TInv'
<1>1. CASE close_temp(s)
  <2> DEFINE l == saver[s]
             p == IF At(s, "close") THEN "rename" ELSE "unlink"
             w == [l EXCEPT !.pc = p, !.ino = None]
             g == WriteAt(files[l.ino], l.off, l.buf)
  <2>1. l \in Locals /\ l.ino # None
    BY <1>1 DEF close_temp, At, TInv, TypeOK, OpenFiles, Writing
  <2>2. l.ino \in Inodes
    BY <2>1 DEF Locals
  <2>3. g \in Seq(Block)
    BY <2>1, <2>2, WriteTyped DEF TInv, TypeOK, Locals
  <2>4. files' = [files EXCEPT ![l.ino] = g] \/ UNCHANGED files
    BY <1>1 DEF close_temp
  <2>5. files' \in [Inodes -> Seq(Block)]
    <3> HIDE DEF g
    <3> QED
      BY <2>3, <2>4 DEF TInv, TypeOK
  <2>6. saver' = [saver EXCEPT ![s] = w]
    BY <1>1 DEF close_temp
  <2>7. p \in {"rename", "unlink"}
    OBVIOUS
  <2> HIDE DEF l, p
  <2>8. w \in Locals /\ w.pc = p /\ w.ino = None
    BY <2>1, <2>7 DEF Locals
  <2> HIDE DEF w
  <2>9. saver' \in [Savers -> Locals] /\ OpenFiles'
    BY <2>6, <2>7, <2>8, SaverTyped
  <2> QED
    BY <1>1, <2>5, <2>9 DEF close_temp, TInv, TypeOK
<1>2. ASSUME NEW ok, Return(s, ok) PROVE saver' \in [Savers -> Locals] /\ OpenFiles'
  <2>1. /\ saver' \in [Savers -> Locals]
        /\ \A t \in Savers : t # s => saver'[t] = saver[t]
        /\ saver'[s].pc \in {"idle", "reset"} /\ saver'[s].ino = None
    BY <1>2, ReturnTyped
  <2> QED
    BY <2>1 DEF TInv, OpenFiles, Writing
<1>3. CASE rename_temp(s)
  <2>1. saver' \in [Savers -> Locals] /\ OpenFiles'
    BY <1>2, <1>3 DEF rename_temp
  <2>2. saver[s].touched \subseteq Keys
    BY DEF TInv, TypeOK, Locals
  <2> QED
    BY <1>3, <2>1, <2>2 DEF rename_temp, TInv, TypeOK
<1>4. CASE unlink_temp(s)
  <2>1. saver' \in [Savers -> Locals] /\ OpenFiles'
    BY <1>2, <1>4 DEF unlink_temp
  <2> QED
    BY <1>4, <2>1 DEF unlink_temp, TInv, TypeOK
<1>5. CASE auto_save_reset(s)
  <2>1. saver' \in [Savers -> Locals] /\ OpenFiles'
    BY <1>5, RestTyped, SaverTyped DEF auto_save_reset, Rest
  <2> QED
    BY <1>5, <2>1 DEF auto_save_reset, TInv, TypeOK, disk
<1> QED
  BY <1>1, <1>3, <1>4, <1>5

\* A block by its kind.
LEMMA KindsAre ==
  ASSUME NEW b \in Block
  PROVE  /\ b.kind = "entry" => b.key \in Keys /\ b.obj \in Object /\ b = Entry(b.key, b.obj)
         /\ b.kind = "header" => b.count \in 0 .. KeyCount
<1>1. CASE \E n \in 0 .. KeyCount : b = Header(n)
  BY <1>1 DEF Header
<1>2. CASE \E k \in Keys, o \in Object : b = Entry(k, o)
  BY <1>2 DEF Entry
<1>3. CASE b = End \/ b = Hole
  BY <1>3 DEF End, Hole
<1> QED
  BY <1>1, <1>2, <1>3 DEF Block

\* The entries that are read are entries of the file.
LEMMA ReadableAre ==
  ASSUME NEW f \in Seq(Block), NEW i \in Readable(f)
  PROVE  /\ i \in Nat /\ i >= 1 /\ i + 1 <= Len(f) /\ f[i + 1] \in Block
         /\ f[i + 1].kind = "entry"
<1>1. HasHeader(f) /\ i \in {j \in 1 .. f[1].count : \A h \in 1 .. j : h < Len(f) /\ f[h + 1].kind = "entry"}
  BY DEF Readable
<1>2. f[1].count \in Nat
  BY <1>1, KindsAre, PersistenceAssumption DEF HasHeader
<1>3. i \in 1 .. i /\ i \in Nat /\ i >= 1
  BY <1>1, <1>2
<1>4. i < Len(f) /\ f[i + 1].kind = "entry"
  BY <1>1, <1>3
<1> QED
  BY <1>3, <1>4

LEMMA LoadedTyped ==
  ASSUME NEW f \in Seq(Block)
  PROVE  Loaded(f) \in [Keys -> Object \cup {None}]
<1> SUFFICES ASSUME NEW k \in Keys
             PROVE  (LET at == {i \in Readable(f) : f[i + 1].key = k /\ ~Expired(f[i + 1].obj, clock)}
                     IN  IF at = {} THEN None ELSE f[Max(at) + 1].obj) \in Object \cup {None}
  BY DEF Loaded
<1> DEFINE at == {i \in Readable(f) : f[i + 1].key = k /\ ~Expired(f[i + 1].obj, clock)}
<1>1. CASE at = {}
  BY <1>1
<1>2. CASE at # {}
  <2>1. at \subseteq Nat /\ Len(f) \in Nat /\ \A i \in at : i <= Len(f)
    BY ReadableAre
  <2>2. at \subseteq Readable(f)
    OBVIOUS
  <2> DEFINE m == Max(at)
  <2>3. m \in at
    <3> HIDE DEF at
    <3> QED
      BY <1>2, <2>1, MaxIs
  <2> HIDE DEF at
  <2>4. m \in Readable(f)
    BY <2>2, <2>3
  <2> HIDE DEF m
  <2>5. f[m + 1].obj \in Object
    BY <2>4, ReadableAre, KindsAre
  <2> QED
    BY <1>2, <2>5 DEF m, at
<1> QED
  BY <1>1, <1>2

LEMMA TouchTyped ==
  ASSUME TInv, NEW ks \in SUBSET Keys, Touch(ks)
  PROVE  /\ saver' \in [Savers -> Locals] /\ OpenFiles'
         /\ \A s \in Savers : /\ SameBut(saver'[s], [saver[s] EXCEPT !.touched = saver'[s].touched])
                              /\ saver'[s].off = saver[s].off /\ saver'[s].buf = saver[s].buf
                              /\ saver'[s].touched = IF Idle(s) THEN saver[s].touched ELSE saver[s].touched \cup ks
<1>1. ASSUME NEW s \in Savers
      PROVE  /\ saver'[s] \in Locals
             /\ saver'[s].pc = saver[s].pc /\ saver'[s].ino = saver[s].ino
             /\ SameBut(saver'[s], [saver[s] EXCEPT !.touched = saver'[s].touched])
             /\ saver'[s].off = saver[s].off /\ saver'[s].buf = saver[s].buf
             /\ saver'[s].touched = IF Idle(s) THEN saver[s].touched ELSE saver[s].touched \cup ks
  <2> DEFINE l == saver[s]
             u == l.touched \cup ks
             w == [l EXCEPT !.touched = u]
  <2>1. l \in Locals
    BY DEF TInv, TypeOK
  <2>2. u \in SUBSET Keys
    BY <2>1 DEF Locals
  <2>3. saver'[s] = IF Idle(s) THEN l ELSE w
    BY DEF Touch
  <2> HIDE DEF l, u
  <2>4. w \in Locals /\ w.touched = u /\ w.off = l.off /\ w.buf = l.buf
        /\ SameBut(w, [l EXCEPT !.touched = u]) /\ w.pc = l.pc /\ w.ino = l.ino
    BY <2>1, <2>2 DEF Locals, SameBut
  <2>5. SameBut(l, [l EXCEPT !.touched = l.touched])
    BY <2>1 DEF Locals, SameBut
  <2> HIDE DEF w
  <2> QED
    BY <2>1, <2>3, <2>4, <2>5 DEF l, u
<1>2. saver' = [s \in Savers |-> saver'[s]]
  BY DEF Touch
<1>3. saver' \in [Savers -> Locals]
  BY <1>1, <1>2
<1>4. OpenFiles'
  BY <1>1 DEF TInv, OpenFiles, Writing
<1> QED
  BY <1>1, <1>3, <1>4

LEMMA InitTInv == Init => TInv
<1> SUFFICES ASSUME Init PROVE TInv
  OBVIOUS
<1>1. \A s \in Savers : saver[s] = Rest
  BY DEF Init
<1>2. OpenFiles
  BY <1>1 DEF OpenFiles, Writing, Rest
<1>3. saver \in [Savers -> Locals]
  BY RestTyped DEF Init
<1>4. files \in [Inodes -> Seq(Block)]
  <2>1. <<>> \in Seq(Block)
    OBVIOUS
  <2> QED
    BY <2>1 DEF Init
<1> QED
  BY <1>2, <1>3, <1>4 DEF Init, TInv, TypeOK, Empty

LEMMA WorldTyped ==
  ASSUME TInv,
         \/ \E k \in Keys, o \in Object \cup {None} : write_command(k, o)
         \/ cleanup_expired_keys \/ Tick \/ SecondsPass \/ Crash \/ Start
  PROVE  TInv'
<1>1. ASSUME NEW k \in Keys, NEW o \in Object \cup {None}, write_command(k, o) PROVE TInv'
  <2>1. saver' \in [Savers -> Locals] /\ OpenFiles'
    BY <1>1, TouchTyped DEF write_command
  <2>2. db' \in [Keys -> Object \cup {None}]
    BY <1>1 DEF write_command, TInv, TypeOK
  <2> QED
    BY <1>1, <2>1, <2>2 DEF write_command, TInv, TypeOK, disk
<1>2. CASE cleanup_expired_keys
  <2>1. db' \in [Keys -> Object \cup {None}]
    BY <1>2 DEF cleanup_expired_keys, Live, TInv, TypeOK
  <2> QED
    BY <1>2, <2>1 DEF cleanup_expired_keys, TInv, TypeOK, OpenFiles, Writing, disk
<1>3. CASE Tick
  BY <1>3 DEF Tick, TInv, TypeOK, OpenFiles, Writing, disk
<1>4. CASE SecondsPass
  BY <1>4 DEF SecondsPass, TInv, TypeOK, OpenFiles, Writing, disk
<1>5. CASE Crash
  <2>1. saver' \in [Savers -> Locals]
    BY <1>5, RestTyped DEF Crash, TInv, TypeOK
  <2>2. OpenFiles'
    BY <1>5 DEF Crash, TInv, OpenFiles, Writing, Rest
  <2> QED
    BY <1>5, <2>1, <2>2 DEF Crash, Empty, TInv, TypeOK, disk
<1>6. CASE Start
  <2>1. saver' \in [Savers -> Locals] /\ OpenFiles'
    BY <1>6, TouchTyped DEF Start
  <2>2. OnDisk \in [Keys -> Object \cup {None}]
    <3>1. dump # None => files[dump] \in Seq(Block)
      BY DEF TInv, TypeOK
    <3> QED
      BY <3>1, LoadedTyped DEF OnDisk, Empty
  <2> QED
    BY <1>6, <2>1, <2>2 DEF Start, TInv, TypeOK, disk
<1> QED
  BY <1>1, <1>2, <1>3, <1>4, <1>5, <1>6

LEMMA StepTInv == TInv /\ [Next]_vars => TInv'
<1> SUFFICES ASSUME TInv, [Next]_vars PROVE TInv'
  OBVIOUS
<1>1. ASSUME NEW s \in Savers, auto_save(s) \/ save_command(s) \/ background_save(s)
      PROVE  TInv'
  BY <1>1, BeginTyped DEF auto_save, save_command, background_save
<1>2. CASE UNCHANGED vars
  BY <1>2 DEF vars, TInv, TypeOK, OpenFiles, Writing
<1> QED
  BY <1>1, <1>2, OpenTyped, WritersTyped, EndersTyped, WorldTyped DEF Next, Savers

\* Whatever the savers do to each other's files, the state keeps its types, and a
\* saver has a file open exactly from its fopen to its fclose.
THEOREM TypesInvariance == Spec => []TInv
<1> QED
  BY InitTInv, StepTInv, PTL DEF Spec

\* The types of persistence.c's state and of what its files are made of.
THEOREM TypeCorrect == Spec => []TypeOK
<1>1. TInv => TypeOK
  BY DEF TInv
<1> QED
  BY <1>1, TypesInvariance, PTL

-----------------------------------------------------------------------------
(* A whole file                                                            *)

Begun(f) == HasHeader(f) /\ \A i \in 2 .. Len(f) : f[i].kind = "entry"

Whole(f) ==
  /\ HasHeader(f) /\ Len(f) > 1 /\ f[Len(f)] = End
  /\ \A i \in 2 .. Len(f) - 1 : f[i].kind = "entry"

\* What a saver has written so far, to the file or to its buffer.
Content(s) == files[saver[s].ino] \o saver[s].buf

\* The saver under way has dump.rdb.tmp open, and writes at its end.
OwnsTemp(s) ==
  /\ Writing(s) => saver[s].ino = tmp
  /\ At(s, "open") => saver[s].off = 0 /\ saver[s].buf = <<>>
  /\ saver[s].pc \in {"header", "entries", "close"} => saver[s].off = Len(files[tmp])
  /\ At(s, "header") => files[tmp] = <<>> /\ saver[s].buf = <<>>

\* How far it has got with it.
Progress(s) ==
  /\ At(s, "entries") => Begun(Content(s))
  /\ At(s, "close") => Whole(Content(s))
  /\ At(s, "rename") => tmp # None /\ Whole(files[tmp])

WInv ==
  /\ TInv
  /\ tmp # None => tmp # dump
  /\ \A s \in Savers : OwnsTemp(s) /\ Progress(s)
  /\ DumpWhole

-----------------------------------------------------------------------------
(* A current file                                                          *)

\* Each key is at most once in a file, in the order of the walk, and the entries
\* are for keys below n.
Sorted(f) ==
  \A i, j \in 2 .. Len(f) : f[i].kind = "entry" /\ f[j].kind = "entry" /\ i < j => f[i].key < f[j].key
Below(f, n) == \A i \in 2 .. Len(f) : f[i].kind = "entry" => f[i].key < n

\* What file f shows of key k that has not expired is what database d has.
Has(f, k, o) == \E i \in 2 .. Len(f) : f[i] = Entry(k, o)
Shows(f, k, d, now) == \A o \in Object : ~Expired(o, now) => (Has(f, k, o) <=> d[k] = o)

\* A loader that stops after the count of the header has read all entries.
Counted(f) == Len(f) - 2 <= f[1].count

\* The keys memory m has for a walk that has come to key a.
Ahead(m, a) == {k \in a .. KeyCount : m[k] # None}

\* Memory m has of key k what database d has, but for what has expired.
Remembers(m, k, d, now) == \A o \in Object : ~Expired(o, now) => (m[k] = o <=> d[k] = o)

\* The file a saver makes will be readable to its end, each key once.
Faithful(s) ==
  /\ At(s, "open") \/ At(s, "header") => saver[s].at = 1
  /\ At(s, "entries") =>
       /\ saver[s].now <= clock
       /\ Sorted(Content(s)) /\ Below(Content(s), saver[s].at)
       /\ Len(Content(s)) - 1 + Cardinality(Ahead(Memory(s), saver[s].at)) <= Content(s)[1].count
  /\ At(s, "close") => Sorted(Content(s)) /\ Counted(Content(s))
  /\ At(s, "rename") => Sorted(files[tmp]) /\ Counted(files[tmp])

\* Of a key that was not written since the save began, the saver's memory and what
\* it has written are what the database has.
Agrees(s) ==
  up => \A k \in Keys \ saver[s].touched :
    /\ saver[s].pc \in {"open", "header", "entries"} => Remembers(Memory(s), k, db, clock)
    /\ At(s, "entries") /\ k < saver[s].at => Shows(Content(s), k, db, clock)
    /\ At(s, "close") => Shows(Content(s), k, db, clock)
    /\ At(s, "rename") => Shows(files[tmp], k, db, clock)

\* The file that is named dump.rdb; an empty one shows as much as none.
DumpFile == IF dump = None THEN <<>> ELSE files[dump]

DumpAgrees ==
  /\ dump # None => Sorted(DumpFile) /\ Counted(DumpFile)
  /\ up => \A k \in Keys \ late : Shows(DumpFile, k, db, clock)

CInv ==
  /\ WInv
  /\ ~up => \A s \in Savers \ Children : Idle(s)
  /\ \A s \in Savers : Faithful(s) /\ Agrees(s)
  /\ DumpAgrees

-----------------------------------------------------------------------------
(* dump.rdb is whole                                                       *)

LEMMA BegunWith ==
  ASSUME NEW b \in Block, b.kind = "header"
  PROVE  Begun(Append(<<>> \o <<>>, b))
<1>1. Append(<<>> \o <<>>, b) = <<b>>
  <2>1. <<>> \in Seq(Block) /\ <<>> \o <<>> = <<>>
    OBVIOUS
  <2>2. Append(<<>>, b) = <<b>>
    BY <2>1
  <2> QED
    BY <2>1, <2>2
<1>2. Len(<<b>>) = 1 /\ <<b>>[1] = b
  OBVIOUS
<1> QED
  BY <1>1, <1>2 DEF Begun, HasHeader

LEMMA BegunGrows ==
  ASSUME NEW f \in Seq(Block), NEW b \in Block, Begun(f)
  PROVE  /\ b.kind = "entry" => Begun(Append(f, b))
         /\ b = End => Whole(Append(f, b))
<1> DEFINE g == Append(f, b)
<1>1. /\ Len(g) = Len(f) + 1 /\ Len(f) \in Nat /\ g[Len(f) + 1] = b
      /\ \A i \in 1 .. Len(f) : g[i] = f[i]
  OBVIOUS
<1>2. Len(f) > 0 /\ f[1].kind = "header" /\ \A i \in 2 .. Len(f) : f[i].kind = "entry"
  BY DEF Begun, HasHeader
<1> HIDE DEF g
<1>3. HasHeader(g) /\ \A i \in 2 .. Len(f) : g[i].kind = "entry"
  BY <1>1, <1>2 DEF HasHeader
<1>4. b.kind = "entry" => Begun(g)
  BY <1>1, <1>3 DEF Begun
<1>5. b = End => Whole(g)
  BY <1>1, <1>2, <1>3 DEF Whole
<1> QED
  BY <1>4, <1>5 DEF g

\* A write of the saver under way: the block is the next of its content, or the
\* saver goes to clean up; dump.rdb is another file.
Grown(s, b, r) ==
  \/ saver'[s].pc = "failed"
  \/ SameBut(saver'[s], r) /\ Content(s)' = Append(Content(s), b)

LEMMA WriteGrows ==
  ASSUME WInv, NEW s \in Savers, NEW b \in Block, NEW r \in Locals,
         At(s, "header") \/ At(s, "entries"), r.pc \in {"entries", "close"},
         r.ino = saver[s].ino, r.off = saver[s].off, r.buf = saver[s].buf,
         Write(s, b, r), UNCHANGED <<dump, tmp>>
  PROVE  /\ OwnsTemp(s)' /\ Grown(s, b, r) /\ DumpWhole'
         /\ Content(s) \in Seq(Block)
         /\ dump # None => files'[dump] = files[dump]
         /\ \A t \in Savers : t # s => saver'[t] = saver[t]
<1>1. /\ saver[s].ino = tmp /\ tmp \in Inodes /\ tmp # dump /\ saver[s].off = Len(files[tmp])
      /\ saver \in [Savers -> Locals] /\ files \in [Inodes -> Seq(Block)]
      /\ dump \in Inodes \cup {None}
  BY DEF WInv, TInv, TypeOK, OpenFiles, OwnsTemp, Writing, At
<1>2. PICK w \in Locals, g \in Seq(Block) : Wrote(s, b, r, w, g)
  BY <1>1, WriteShows DEF WInv
<1>3. /\ saver'[s] = w /\ files'[tmp] = g
      /\ dump # None => files'[dump] = files[dump]
      /\ \A t \in Savers : t # s => saver'[t] = saver[t]
  BY <1>1, <1>2 DEF Wrote
<1>4. Content(s) = files[tmp] \o r.buf /\ Content(s) \in Seq(Block)
  <2>1. saver[s].buf \in Seq(Block)
    BY <1>1 DEF Locals
  <2> QED
    BY <1>1, <2>1 DEF Content
<1>0. tmp' = tmp /\ dump' = dump
  OBVIOUS
<1>5. ASSUME w.pc = "failed" /\ w.ino = saver[s].ino
      PROVE  OwnsTemp(s)' /\ Grown(s, b, r)
  <2>1. saver'[s].pc = "failed" /\ saver'[s].ino = tmp'
    BY <1>0, <1>1, <1>3, <1>5
  <2>2. OwnsTemp(s)'
    BY <2>1 DEF OwnsTemp, At, Writing
  <2>3. Grown(s, b, r)
    BY <2>1 DEF Grown
  <2> QED
    BY <2>2, <2>3
<1>6. ASSUME SameBut(w, r) /\ w.off = Len(g) /\ g \o w.buf = Append(files[tmp] \o r.buf, b)
      PROVE  OwnsTemp(s)' /\ Grown(s, b, r)
  <2>1. w.pc = r.pc /\ w.ino = tmp
    BY <1>1, <1>6 DEF SameBut
  <2>2. Content(s)' = g \o w.buf
    BY <1>3, <2>1 DEF Content
  <2>3. OwnsTemp(s)'
    <3>1. /\ saver'[s].pc \in {"entries", "close"} /\ saver'[s].ino = tmp'
          /\ saver'[s].off = Len(files'[tmp'])
      BY <1>0, <1>3, <1>6, <2>1
    <3> QED
      BY <3>1 DEF OwnsTemp, At, Writing
  <2>4. SameBut(saver'[s], r)
    BY <1>3, <1>6
  <2>5. Content(s)' = Append(Content(s), b)
    BY <1>4, <1>6, <2>2
  <2>6. Grown(s, b, r)
    BY <2>4, <2>5 DEF Grown
  <2> QED
    BY <2>3, <2>6
<1>7. OwnsTemp(s)' /\ Grown(s, b, r)
  BY <1>1, <1>2, <1>5, <1>6 DEF Wrote
<1>8. DumpWhole'
  BY <1>3 DEF WInv, DumpWhole
<1> QED
  BY <1>3, <1>4, <1>7, <1>8

\* While one saver is under way the others are idle, and stay as they are.
LEMMA OthersIdle ==
  ASSUME OneAtATime, NEW s \in Savers, ~Idle(s),
         \A t \in Savers : t # s => saver'[t] = saver[t],
         OwnsTemp(s)', Progress(s)'
  PROVE  \A t \in Savers : OwnsTemp(t)' /\ Progress(t)'
<1> TAKE t \in Savers
<1>1. t # s => saver'[t] = saver[t] /\ saver[t].pc = "idle"
  BY DEF OneAtATime, Idle
<1> QED
  BY <1>1 DEF OwnsTemp, Progress, Writing, At

LEMMA WritersWhole ==
  ASSUME WInv, TInv', OneAtATime, NEW s \in Savers,
         write_header(s) \/ write_entry(s) \/ write_end(s)
  PROVE  WInv'
<1>0. ~Idle(s) /\ UNCHANGED <<dump, tmp>>
  BY DEF write_header, write_entry, write_end, Idle, At
<1>1. CASE write_header(s)
  <2> DEFINE b == Header(Used(Memory(s)))
             r == HeaderNext(s)
  <2>1. b \in Block /\ b.kind = "header"
    BY UsedBounded, BlocksAre DEF Header
  <2>2. Write(s, b, r) /\ At(s, "header")
    BY <1>1 DEF write_header, HeaderNext
  <2>3. /\ r \in Locals /\ r.pc = "entries" /\ r.ino = saver[s].ino
        /\ r.off = saver[s].off /\ r.buf = saver[s].buf
    BY NextLocals DEF WInv
  <2> HIDE DEF b, r
  <2>4. /\ OwnsTemp(s)' /\ Grown(s, b, r) /\ DumpWhole'
        /\ \A t \in Savers : t # s => saver'[t] = saver[t]
    BY <1>0, <2>1, <2>2, <2>3, WriteGrows
  <2>5. Content(s) = <<>> \o <<>>
    BY <2>2 DEF WInv, OwnsTemp, At, Writing, Content
  <2>6. Begun(Append(Content(s), b))
    BY <2>1, <2>5, BegunWith
  <2>7. Progress(s)'
    BY <2>3, <2>4, <2>6 DEF Progress, Grown, SameBut, At
  <2> QED
    BY <1>0, <2>4, <2>7, OthersIdle DEF WInv
<1>2. CASE write_entry(s)
  <2> DEFINE k == saver[s].at
             o == Memory(s)[k]
             r == EntryNext(s)
  <2>1. k \in Keys /\ At(s, "entries") /\ k <= KeyCount
    BY <1>2 DEF write_entry, At, WInv, TInv, TypeOK, Locals, Keys
  <2>2. /\ r \in Locals /\ r.pc = "entries" /\ r.ino = saver[s].ino
        /\ r.off = saver[s].off /\ r.buf = saver[s].buf
    BY <2>1, NextLocals DEF WInv, At
  <2>3. CASE saver' = [saver EXCEPT ![s] = r] /\ UNCHANGED files
    <3>1. saver'[s] = r /\ \A t \in Savers : t # s => saver'[t] = saver[t]
      BY <2>3 DEF WInv, TInv, TypeOK
    <3> HIDE DEF r
    <3>2. Content(s)' = Content(s)
      BY <2>2, <2>3, <3>1 DEF Content
    <3>3. OwnsTemp(s)' /\ Progress(s)'
      BY <1>0, <2>1, <2>2, <2>3, <3>1, <3>2 DEF WInv, OwnsTemp, Progress, At, Writing
    <3>4. DumpWhole'
      BY <1>0, <2>3 DEF WInv, DumpWhole
    <3> QED
      BY <1>0, <3>1, <3>3, <3>4, OthersIdle DEF WInv
  <2>4. CASE o # None /\ Write(s, Entry(k, o), r)
    <3> DEFINE b == Entry(k, o)
    <3>1. o \in Object \cup {None}
      <4>1. saver[s].mem \in [Keys -> Object \cup {None}] /\ db \in [Keys -> Object \cup {None}]
        BY DEF WInv, TInv, TypeOK, Locals
      <4>2. Memory(s) \in [Keys -> Object \cup {None}]
        BY <4>1 DEF Memory
      <4> HIDE DEF k
      <4> QED
        BY <2>1, <4>2
    <3>2. b \in Block /\ b.kind = "entry"
      BY <2>1, <2>4, <3>1, BlocksAre DEF Entry
    <3> HIDE DEF r, b
    <3>3. /\ OwnsTemp(s)' /\ Grown(s, b, r) /\ DumpWhole'
          /\ \A t \in Savers : t # s => saver'[t] = saver[t]
          /\ Content(s) \in Seq(Block)
      BY <1>0, <2>1, <2>2, <2>4, <3>2, WriteGrows DEF b
    <3>4. Begun(Content(s))
      BY <2>1 DEF WInv, Progress
    <3>5. Begun(Append(Content(s), b))
      BY <3>2, <3>3, <3>4, BegunGrows
    <3>6. Progress(s)'
      BY <2>2, <3>3, <3>5 DEF Progress, Grown, SameBut, At
    <3> QED
      BY <1>0, <3>3, <3>6, OthersIdle DEF WInv
  <2> QED
    BY <1>2, <2>3, <2>4 DEF write_entry, EntryNext
<1>3. CASE write_end(s)
  <2> DEFINE r == EndNext(s)
  <2>1. Write(s, End, r) /\ At(s, "entries")
    BY <1>3 DEF write_end, EndNext
  <2>2. /\ r \in Locals /\ r.pc = "close" /\ r.ino = saver[s].ino
        /\ r.off = saver[s].off /\ r.buf = saver[s].buf
    BY NextLocals DEF WInv
  <2> HIDE DEF r
  <2>3. /\ OwnsTemp(s)' /\ Grown(s, End, r) /\ DumpWhole'
        /\ \A t \in Savers : t # s => saver'[t] = saver[t]
        /\ Content(s) \in Seq(Block)
    BY <1>0, <2>1, <2>2, BlocksAre, WriteGrows
  <2>4. Begun(Content(s))
    BY <2>1 DEF WInv, Progress
  <2>5. Whole(Append(Content(s), End))
    BY <2>3, <2>4, BlocksAre, BegunGrows
  <2>6. Progress(s)'
    BY <2>2, <2>3, <2>5 DEF Progress, Grown, SameBut, At
  <2> QED
    BY <1>0, <2>3, <2>6, OthersIdle DEF WInv
<1> QED
  BY <1>1, <1>2, <1>3

LEMMA OpenWhole ==
  ASSUME WInv, TInv', OneAtATime, NEW s \in Savers, open_temp(s)
  PROVE  WInv'
<1>1. ~Idle(s) /\ saver[s].pc = "open" /\ saver[s].off = 0 /\ saver[s].buf = <<>> /\ dump' = dump
  BY DEF open_temp, Idle, At, WInv, OwnsTemp
<1>2. CASE Return(s, FALSE) /\ UNCHANGED <<files, tmp>>
  <2>1. /\ \A t \in Savers : t # s => saver'[t] = saver[t]
        /\ saver'[s].pc \in {"idle", "reset"}
    BY <1>2, ReturnTyped DEF WInv
  <2>2. OwnsTemp(s)' /\ Progress(s)'
    BY <2>1 DEF OwnsTemp, Progress, Writing, At
  <2>3. DumpWhole'
    BY <1>1, <1>2 DEF WInv, DumpWhole
  <2> QED
    BY <1>1, <1>2, <2>1, <2>2, <2>3, OthersIdle DEF WInv
<1>3. ASSUME NEW i \in IF tmp = None THEN {Min(FreeInodes)} ELSE {tmp},
             tmp' = i, files' = [files EXCEPT ![i] = <<>>],
             saver' = [saver EXCEPT ![s] = [saver[s] EXCEPT !.pc = "header", !.ino = i]]
      PROVE  WInv'
  <2>1. i \in Inodes /\ i # dump
    <3>1. Min(FreeInodes) \in FreeInodes
      BY <1>1, FreeExists DEF WInv, At
    <3> QED
      BY <3>1 DEF WInv, TInv, TypeOK, FreeInodes
  <2> DEFINE l == saver[s]
             w == [l EXCEPT !.pc = "header", !.ino = i]
  <2>2. l \in Locals /\ saver \in [Savers -> Locals] /\ files \in [Inodes -> Seq(Block)] /\ dump \in Inodes \cup {None}
    BY DEF WInv, TInv, TypeOK
  <2>3. saver'[s] = w /\ \A t \in Savers : t # s => saver'[t] = saver[t]
    BY <1>3, <2>2
  <2>4. w.pc = "header" /\ w.ino = i /\ w.off = 0 /\ w.buf = <<>>
    <3>1. l.off = 0 /\ l.buf = <<>>
      BY <1>1
    <3> HIDE DEF l
    <3> QED
      BY <2>2, <3>1 DEF Locals
  <2> HIDE DEF l, w
  <2>5. files'[i] = <<>>
    BY <1>3, <2>1, <2>2
  <2>6. dump # None => files'[dump] = files[dump]
    BY <1>3, <2>1, <2>2
  <2>7. OwnsTemp(s)' /\ Progress(s)'
    <3>1. Len(files'[tmp']) = 0
      BY <1>3, <2>5
    <3> QED
      BY <1>3, <2>3, <2>4, <2>5, <3>1 DEF OwnsTemp, Progress, Writing, At
  <2>8. DumpWhole'
    BY <1>1, <2>6 DEF WInv, DumpWhole
  <2> QED
    BY <1>1, <1>3, <2>1, <2>3, <2>7, <2>8, OthersIdle DEF WInv
<1> QED
  BY <1>2, <1>3 DEF open_temp

\* What is closed without an error is whole.
LEMMA CloseContent ==
  ASSUME WInv, NEW s \in Savers, At(s, "close")
  PROVE  /\ WriteAt(files[saver[s].ino], saver[s].off, saver[s].buf) = Content(s)
         /\ Whole(Content(s)) /\ saver[s].ino = tmp
<1>1. saver[s].ino = tmp /\ saver[s].off = Len(files[tmp]) /\ tmp \in Inodes
  BY DEF WInv, TInv, TypeOK, OpenFiles, OwnsTemp, Writing, At
<1>2. files[tmp] \in Seq(Block) /\ saver[s].buf \in Seq(Block)
  BY <1>1 DEF WInv, TInv, TypeOK, Locals
<1>3. WriteAt(files[tmp], Len(files[tmp]), saver[s].buf) = files[tmp] \o saver[s].buf
  BY <1>2, WriteAppends
<1> QED
  BY <1>1, <1>3 DEF WInv, Progress, Content

LEMMA EndersWhole ==
  ASSUME "close" \notin Failures, WInv, TInv', OneAtATime, NEW s \in Savers,
         close_temp(s) \/ rename_temp(s) \/ unlink_temp(s) \/ auto_save_reset(s)
  PROVE  WInv'
<1>1. ~Idle(s)
  BY DEF close_temp, rename_temp, unlink_temp, auto_save_reset, Idle, At
<1>2. CASE close_temp(s)
  <2> DEFINE l == saver[s]
             p == IF At(s, "close") THEN "rename" ELSE "unlink"
             w == [l EXCEPT !.pc = p, !.ino = None]
             g == WriteAt(files[l.ino], l.off, l.buf)
  <2>1. /\ l \in Locals /\ l.ino = tmp /\ tmp # None /\ tmp # dump /\ tmp \in Inodes
        /\ saver \in [Savers -> Locals] /\ files \in [Inodes -> Seq(Block)]
        /\ dump \in Inodes \cup {None}
    BY <1>2 DEF close_temp, At, WInv, TInv, TypeOK, OpenFiles, OwnsTemp, Writing
  <2>2. files' = [files EXCEPT ![tmp] = g] /\ tmp' = tmp /\ dump' = dump
    BY <1>2, <2>1 DEF close_temp
  <2>3. saver' = [saver EXCEPT ![s] = w]
    BY <1>2 DEF close_temp
  <2>4. p = "rename" => Whole(g)
    BY CloseContent DEF At
  <2>5. p \in {"rename", "unlink"}
    OBVIOUS
  <2> HIDE DEF l, p, g
  <2>6. w.pc = p
    BY <2>1 DEF Locals
  <2> HIDE DEF w
  <2>7. saver'[s] = w /\ \A t \in Savers : t # s => saver'[t] = saver[t]
    BY <2>1, <2>3
  <2>8. files'[tmp] = g
    BY <2>1, <2>2
  <2>9. dump # None => files'[dump] = files[dump]
    BY <2>1, <2>2
  <2>10. OwnsTemp(s)' /\ Progress(s)'
    BY <2>1, <2>2, <2>4, <2>5, <2>6, <2>7, <2>8 DEF OwnsTemp, Progress, Writing, At
  <2>11. DumpWhole'
    BY <2>2, <2>9 DEF WInv, DumpWhole
  <2> QED
    BY <1>1, <2>1, <2>2, <2>7, <2>10, <2>11, OthersIdle DEF WInv
<1>3. ASSUME NEW ok, Return(s, ok)
      PROVE  \A t \in Savers : OwnsTemp(t)' /\ Progress(t)'
  <2>1. /\ \A t \in Savers : t # s => saver'[t] = saver[t]
        /\ saver'[s].pc \in {"idle", "reset"}
    BY <1>3, ReturnTyped DEF WInv
  <2>2. OwnsTemp(s)' /\ Progress(s)'
    BY <2>1 DEF OwnsTemp, Progress, Writing, At
  <2> QED
    BY <1>1, <2>1, <2>2, OthersIdle
<1>4. CASE rename_temp(s)
  <2>1. \A t \in Savers : OwnsTemp(t)' /\ Progress(t)'
    BY <1>3, <1>4 DEF rename_temp
  <2>2. (tmp # None => tmp # dump)'
    BY <1>4 DEF rename_temp, WInv
  <2>3. DumpWhole'
    <3>1. CASE dump' = dump
      BY <1>4, <3>1 DEF rename_temp, WInv, DumpWhole
    <3>2. CASE dump' = tmp
      <4>1. Whole(files[tmp]) /\ files' = files
        BY <1>4 DEF rename_temp, WInv, Progress, At
      <4> QED
        BY <3>2, <4>1 DEF Whole, DumpWhole
    <3> QED
      BY <1>4, <3>1, <3>2 DEF rename_temp
  <2> QED
    BY <2>1, <2>2, <2>3 DEF WInv
<1>5. CASE unlink_temp(s)
  <2>1. \A t \in Savers : OwnsTemp(t)' /\ Progress(t)'
    BY <1>3, <1>5 DEF unlink_temp
  <2> QED
    BY <1>5, <2>1 DEF unlink_temp, WInv, DumpWhole
<1>6. CASE auto_save_reset(s)
  <2>1. saver'[s] = Rest /\ \A t \in Savers : t # s => saver'[t] = saver[t]
    BY <1>6 DEF auto_save_reset, WInv, TInv, TypeOK
  <2>2. OwnsTemp(s)' /\ Progress(s)'
    BY <2>1 DEF OwnsTemp, Progress, Writing, At, Rest
  <2>3. \A t \in Savers : OwnsTemp(t)' /\ Progress(t)'
    BY <1>1, <2>1, <2>2, OthersIdle
  <2> QED
    BY <1>6, <2>3 DEF auto_save_reset, disk, WInv, DumpWhole
<1> QED
  BY <1>2, <1>4, <1>5, <1>6

\* A step that changes no file leaves the content of every saver alone.
LEMMA SameContent ==
  ASSUME WInv, TInv', UNCHANGED disk,
         \A t \in Savers : \/ saver'[t] = saver[t]
                           \/ saver'[t].pc = "idle"
                           \/ saver'[t].pc = "open" /\ saver'[t].off = 0 /\ saver'[t].buf = <<>>
                           \/ /\ saver'[t].pc = saver[t].pc /\ saver'[t].ino = saver[t].ino
                              /\ saver'[t].off = saver[t].off /\ saver'[t].buf = saver[t].buf
  PROVE  WInv'
<1>1. tmp' = tmp /\ dump' = dump /\ files' = files
  BY DEF disk
<1>2. ASSUME NEW t \in Savers
      PROVE  OwnsTemp(t)' /\ Progress(t)'
  <2>1. OwnsTemp(t) /\ Progress(t)
    BY DEF WInv
  <2>2. CASE saver'[t].pc = "idle"
    BY <2>2 DEF OwnsTemp, Progress, Writing, At
  <2>3. CASE saver'[t].pc = "open" /\ saver'[t].off = 0 /\ saver'[t].buf = <<>>
    BY <2>3 DEF OwnsTemp, Progress, Writing, At
  <2>4. CASE /\ saver'[t].pc = saver[t].pc /\ saver'[t].ino = saver[t].ino
             /\ saver'[t].off = saver[t].off /\ saver'[t].buf = saver[t].buf
    <3>1. Content(t)' = Content(t)
      BY <1>1, <2>4 DEF Content
    <3> QED
      BY <1>1, <2>1, <2>4, <3>1 DEF OwnsTemp, Progress, Writing, At
  <2> QED
    BY <2>2, <2>3, <2>4
<1>3. DumpWhole'
  BY <1>1 DEF WInv, DumpWhole
<1> QED
  BY <1>1, <1>2, <1>3 DEF WInv

LEMMA BeginIs ==
  ASSUME TInv, NEW s \in Savers, Begin(s)
  PROVE  /\ \A t \in Savers : t # s => saver'[t] = saver[t]
         /\ saver'[s].pc = "open" /\ saver'[s].off = 0 /\ saver'[s].buf = <<>>
         /\ saver'[s].at = 1 /\ saver'[s].touched = {}
         /\ s \in Children => saver'[s].mem = db
<1> DEFINE d == IF s \in Children THEN db ELSE Empty
           w == [Rest EXCEPT !.pc = "open", !.mem = d]
<1>1. saver' = [saver EXCEPT ![s] = w] /\ saver \in [Savers -> Locals]
  BY DEF Begin, TInv, TypeOK
<1>2. w.pc = "open" /\ w.off = 0 /\ w.buf = <<>> /\ w.at = 1 /\ w.touched = {} /\ w.mem = d
  <2> HIDE DEF d
  <2> QED
    BY DEF Rest
<1>3. saver'[s] = w /\ \A t \in Savers : t # s => saver'[t] = saver[t]
  BY <1>1
<1> HIDE DEF w
<1> QED
  BY <1>2, <1>3

LEMMA WorldWhole ==
  ASSUME WInv, TInv',
         \/ \E s \in Savers : Begin(s)
         \/ \E k \in Keys, o \in Object \cup {None} : write_command(k, o)
         \/ cleanup_expired_keys \/ Tick \/ SecondsPass \/ Crash \/ Start
  PROVE  WInv'
<1>1. ASSUME NEW s \in Savers, Begin(s) PROVE WInv'
  <2>1. UNCHANGED disk
    BY <1>1 DEF Begin, disk
  <2> QED
    BY <1>1, <2>1, BeginIs, SameContent DEF WInv
<1>2. ASSUME NEW ks \in SUBSET Keys, Touch(ks), UNCHANGED disk PROVE WInv'
  <2>1. \A t \in Savers : /\ saver'[t].pc = saver[t].pc /\ saver'[t].ino = saver[t].ino
                          /\ saver'[t].off = saver[t].off /\ saver'[t].buf = saver[t].buf
    <3> TAKE t \in Savers
    <3>1. /\ SameBut(saver'[t], [saver[t] EXCEPT !.touched = saver'[t].touched])
          /\ saver'[t].off = saver[t].off /\ saver'[t].buf = saver[t].buf
      BY <1>2, TouchTyped DEF WInv
    <3>2. saver[t] \in Locals
      BY DEF WInv, TInv, TypeOK
    <3> QED
      BY <3>1, <3>2 DEF SameBut, Locals
  <2> QED
    BY <1>2, <2>1, SameContent
<1>3. ASSUME NEW k \in Keys, NEW o \in Object \cup {None}, write_command(k, o) PROVE WInv'
  BY <1>2, <1>3 DEF write_command, disk
<1>4. CASE cleanup_expired_keys \/ Tick \/ SecondsPass
  BY <1>4, SameContent DEF cleanup_expired_keys, Tick, SecondsPass, disk
<1>5. CASE Crash
  <2>1. UNCHANGED disk /\ \A t \in Savers : saver'[t] = saver[t] \/ saver'[t].pc = "idle"
    BY <1>5 DEF Crash, Rest, disk
  <2> QED
    BY <2>1, SameContent
<1>6. CASE Start
  BY <1>2, <1>6 DEF Start, disk
<1> QED
  BY <1>1, <1>3, <1>4, <1>5, <1>6

LEMMA InitWInv == Init => WInv
<1> SUFFICES ASSUME Init PROVE WInv
  OBVIOUS
<1>1. \A s \in Savers : saver[s].pc = "idle"
  BY DEF Init, Rest
<1>2. \A s \in Savers : OwnsTemp(s) /\ Progress(s)
  BY <1>1 DEF OwnsTemp, Progress, Writing, At
<1> QED
  BY <1>2, InitTInv DEF Init, WInv, DumpWhole

LEMMA StepWInv ==
  ASSUME "close" \notin Failures
  PROVE  WInv /\ OneAtATime /\ [Next]_vars => WInv'
<1> SUFFICES ASSUME WInv, OneAtATime, [Next]_vars PROVE WInv'
  OBVIOUS
<1>1. TInv'
  BY StepTInv DEF WInv
<1>2. ASSUME NEW s \in Savers, auto_save(s) \/ save_command(s) \/ background_save(s)
      PROVE  WInv'
  BY <1>1, <1>2, WorldWhole DEF auto_save, save_command, background_save
<1>3. CASE UNCHANGED vars
  BY <1>1, <1>3, SameContent DEF vars, disk
<1> QED
  BY <1>1, <1>2, <1>3, OpenWhole, WritersWhole, EndersWhole, WorldWhole DEF Next, Savers

\* As long as saves run one at a time and fclose writes what the buffer still held,
\* the file that has the name dump.rdb is whole, whatever else failed and wherever
\* the server was killed: rename is the only step that changes it.
THEOREM DumpIsWhole ==
  ASSUME "close" \notin Failures
  PROVE  Spec /\ []OneAtATime => []DumpWhole
<1>1. WInv /\ OneAtATime /\ [Next]_vars => WInv'
  BY StepWInv
<1>2. WInv => DumpWhole
  BY DEF WInv
<1>3. Spec /\ []OneAtATime => []WInv
  BY <1>1, InitWInv, PTL DEF Spec
<1> QED
  BY <1>2, <1>3, PTL

\* Whoever is the only one to save need not wait for others, such as the thread of
\* the automatic saves where no client sends SAVE or BGSAVE.
THEOREM OnlySaverWhole ==
  ASSUME "close" \notin Failures, \A s, t \in Savers : s = t
  PROVE  Spec => []DumpWhole
<1>1. OneAtATime
  BY DEF OneAtATime
<1>2. Spec /\ []OneAtATime => []DumpWhole
  BY DumpIsWhole
<1> QED
  BY <1>1, <1>2, PTL

-----------------------------------------------------------------------------
(* What a file shows                                                       *)

LEMMA EntriesDiffer ==
  /\ \A k, j, o, p : Entry(k, o) = Entry(j, p) <=> k = j /\ o = p
  /\ \A k, o : Entry(k, o) # End /\ Entry(k, o).kind = "entry" /\ Entry(k, o).key = k /\ Entry(k, o).obj = o
  /\ \A k, o, n : Entry(k, o) # Header(n)
<1>1. \A k, o : Entry(k, o).kind = "entry" /\ Entry(k, o).key = k /\ Entry(k, o).obj = o
  BY DEF Entry
<1>2. End.kind = "end" /\ \A n : Header(n).kind = "header"
  BY DEF End, Header
<1>3. \A k, j, o, p : k = j /\ o = p => Entry(k, o) = Entry(j, p)
  OBVIOUS
<1> QED
  BY <1>1, <1>2, <1>3

LEMMA AppendedIs ==
  ASSUME NEW f \in Seq(Block), NEW b \in Block
  PROVE  /\ Append(f, b) \in Seq(Block) /\ Len(f) \in Nat
         /\ Len(Append(f, b)) = Len(f) + 1 /\ Append(f, b)[Len(f) + 1] = b
         /\ \A i \in 1 .. Len(f) : Append(f, b)[i] = f[i]
  OBVIOUS

LEMMA HasGrows ==
  ASSUME NEW f \in Seq(Block), Len(f) > 0, NEW b \in Block, NEW k, NEW o
  PROVE  Has(Append(f, b), k, o) <=> Has(f, k, o) \/ b = Entry(k, o)
<1> DEFINE g == Append(f, b)
<1>1. /\ Len(f) \in Nat /\ Len(g) = Len(f) + 1 /\ g[Len(f) + 1] = b
      /\ \A i \in 1 .. Len(f) : g[i] = f[i]
  BY AppendedIs
<1> HIDE DEF g
<1>2. ASSUME Has(g, k, o) PROVE Has(f, k, o) \/ b = Entry(k, o)
  <2>1. PICK i \in 2 .. Len(g) : g[i] = Entry(k, o)
    BY <1>2 DEF Has
  <2>2. CASE i = Len(f) + 1
    BY <1>1, <2>1, <2>2
  <2>3. CASE i # Len(f) + 1
    <3>1. i \in 2 .. Len(f) /\ g[i] = f[i]
      BY <1>1, <2>1, <2>3
    <3> QED
      BY <2>1, <3>1 DEF Has
  <2> QED
    BY <2>2, <2>3
<1>3. ASSUME Has(f, k, o) PROVE Has(g, k, o)
  <2>1. PICK i \in 2 .. Len(f) : f[i] = Entry(k, o)
    BY <1>3 DEF Has
  <2>2. i \in 2 .. Len(g) /\ g[i] = f[i]
    BY <1>1, <2>1
  <2> QED
    BY <2>1, <2>2 DEF Has
<1>4. ASSUME b = Entry(k, o) PROVE Has(g, k, o)
  <2>1. Len(f) + 1 \in 2 .. Len(g)
    BY <1>1
  <2> QED
    BY <1>1, <1>4, <2>1 DEF Has
<1> QED
  BY <1>2, <1>3, <1>4 DEF g

LEMMA SortedGrows ==
  ASSUME NEW f \in Seq(Block), Sorted(f), NEW n \in Nat, Below(f, n), NEW b \in Block,
         b.kind = "entry" => b.key = n
  PROVE  /\ Sorted(Append(f, b))
         /\ Below(Append(f, b), n + 1)
<1> DEFINE g == Append(f, b)
<1>1. /\ Len(f) \in Nat /\ Len(g) = Len(f) + 1 /\ g[Len(f) + 1] = b
      /\ \A i \in 1 .. Len(f) : g[i] = f[i]
  BY AppendedIs
<1> HIDE DEF g
<1>2. ASSUME NEW i \in 2 .. Len(g), g[i].kind = "entry"
      PROVE  IF i = Len(f) + 1 THEN g[i].key = n
             ELSE i \in 2 .. Len(f) /\ g[i] = f[i] /\ g[i].key < n /\ f[i].key \in Nat
  <2>1. CASE i = Len(f) + 1
    BY <1>1, <1>2, <2>1
  <2>2. CASE i # Len(f) + 1
    <3>1. i \in 2 .. Len(f) /\ g[i] = f[i]
      BY <1>1, <2>2
    <3>2. f[i] \in Block
      BY <1>1, <3>1
    <3> QED
      BY <1>2, <2>2, <3>1, <3>2, KindsAre, PersistenceAssumption DEF Below, Keys
  <2> QED
    BY <2>1, <2>2
<1>3. Below(g, n + 1)
  <2> SUFFICES ASSUME NEW i \in 2 .. Len(g), g[i].kind = "entry" PROVE g[i].key < n + 1
    BY DEF Below
  <2>1. g[i].key = n \/ (g[i].key < n /\ g[i].key \in Nat)
    BY <1>2
  <2> QED
    BY <2>1
<1>4. Sorted(g)
  <2> SUFFICES ASSUME NEW i \in 2 .. Len(g), NEW j \in 2 .. Len(g), i < j,
                      g[i].kind = "entry", g[j].kind = "entry"
               PROVE  g[i].key < g[j].key
    BY DEF Sorted
  <2>1. i # Len(f) + 1
    BY <1>1
  <2>2. i \in 2 .. Len(f) /\ g[i] = f[i] /\ g[i].key < n
    BY <1>2, <2>1
  <2>3. CASE j = Len(f) + 1
    BY <1>2, <2>2, <2>3
  <2>4. CASE j # Len(f) + 1
    <3>1. j \in 2 .. Len(f) /\ g[j] = f[j]
      BY <1>2, <2>4
    <3> QED
      BY <2>2, <3>1 DEF Sorted
  <2> QED
    BY <2>3, <2>4
<1> QED
  BY <1>3, <1>4 DEF g

\* A key the walk has not come to is not in the file.
LEMMA NotYet ==
  ASSUME NEW f \in Seq(Block), NEW k \in Keys, Below(f, k), NEW o
  PROVE  ~Has(f, k, o)
<1> SUFFICES ASSUME NEW i \in 2 .. Len(f), f[i] = Entry(k, o) PROVE FALSE
  BY DEF Has
<1>1. f[i].kind = "entry" /\ f[i].key = k
  BY EntriesDiffer
<1> QED
  BY <1>1, PersistenceAssumption DEF Below, Keys

LEMMA ExpiredLater ==
  ASSUME NEW o \in Object \cup {None}, NEW t \in Nat, NEW u \in Nat, t <= u, Expired(o, t)
  PROVE  Expired(o, u) /\ o \in Object
<1>1. o # None /\ o.expire # 0 /\ o.expire < t
  BY DEF Expired
<1>2. o \in Object
  BY <1>1
<1>3. o.expire \in Nat
  BY <1>2, PersistenceAssumption DEF Object
<1>4. o.expire < u
  BY <1>1, <1>3
<1> QED
  BY <1>1, <1>2, <1>4 DEF Expired

\* The walk comes to key k, and either writes what memory m has of it ...
LEMMA ShowsWritten ==
  ASSUME NEW f \in Seq(Block), Len(f) > 0, NEW k \in Keys, Below(f, k), NEW m, NEW d, NEW now,
         Remembers(m, k, d, now), m[k] \in Object
  PROVE  Shows(Append(f, Entry(k, m[k])), k, d, now)
<1> DEFINE b == Entry(k, m[k])
<1> SUFFICES ASSUME NEW o \in Object, ~Expired(o, now) PROVE Has(Append(f, b), k, o) <=> d[k] = o
  BY DEF Shows
<1>1. b \in Block
  BY BlocksAre
<1>2. b = Entry(k, o) <=> m[k] = o
  BY EntriesDiffer
<1>3. m[k] = o <=> d[k] = o
  BY DEF Remembers
<1> HIDE DEF b
<1>4. Has(Append(f, b), k, o) <=> Has(f, k, o) \/ b = Entry(k, o)
  BY <1>1, HasGrows
<1> QED
  BY <1>2, <1>3, <1>4, NotYet

\* ... or skips it, when it is not there or had expired.
LEMMA ShowsSkipped ==
  ASSUME NEW f \in Seq(Block), NEW k \in Keys, Below(f, k), NEW m, NEW d, NEW now \in Nat,
         Remembers(m, k, d, now), NEW t \in Nat, t <= now,
         m[k] = None \/ Expired(m[k], t), m[k] \in Object \cup {None}
  PROVE  Shows(f, k, d, now)
<1> SUFFICES ASSUME NEW o \in Object, ~Expired(o, now) PROVE ~Has(f, k, o) /\ d[k] # o
  BY DEF Shows
<1>1. m[k] # o
  <2>1. o # None
    BY PersistenceAssumption
  <2>2. CASE Expired(m[k], t)
    <3>1. Expired(m[k], now)
      BY <2>2, ExpiredLater
    <3> QED
      BY <3>1
  <2> QED
    BY <2>1, <2>2
<1> QED
  BY <1>1, NotYet DEF Remembers

\* A block leaves alone what the file shows of the keys before it.
LEMMA ShowsStill ==
  ASSUME NEW f \in Seq(Block), Len(f) > 0, NEW b \in Block, NEW k,
         \A o : b # Entry(k, o), NEW d, NEW now, Shows(f, k, d, now)
  PROVE  Shows(Append(f, b), k, d, now)
<1> SUFFICES ASSUME NEW o \in Object, ~Expired(o, now) PROVE Has(Append(f, b), k, o) <=> d[k] = o
  BY DEF Shows
<1>1. Has(Append(f, b), k, o) <=> Has(f, k, o)
  BY HasGrows
<1> QED
  BY <1>1 DEF Shows

\* The database a moment later, or when what has expired was removed: what has not
\* expired is as before.
Outlives(d, now, e, then, k) ==
  \A o \in Object : ~Expired(o, then) => ~Expired(o, now) /\ (e[k] = o <=> d[k] = o)

LEMMA ShowsLater ==
  ASSUME NEW f, NEW k, NEW d, NEW now, NEW e, NEW then, Outlives(d, now, e, then, k)
  PROVE  /\ Shows(f, k, d, now) => Shows(f, k, e, then)
         /\ \A m : Remembers(m, k, d, now) => Remembers(m, k, e, then)
  BY DEF Outlives, Shows, Remembers

\* The rest of a walk shrinks at each key, and by one at a key that is there.
LEMMA AheadFinite ==
  ASSUME NEW m, NEW a \in Nat
  PROVE  IsFiniteSet(Ahead(m, a)) /\ Cardinality(Ahead(m, a)) \in Nat
<1>1. a \in Int /\ KeyCount \in Int
  BY PersistenceAssumption
<1>2. IsFiniteSet(a .. KeyCount)
  BY <1>1, FS_Interval
<1>3. Ahead(m, a) \in SUBSET (a .. KeyCount)
  BY DEF Ahead
<1>4. IsFiniteSet(Ahead(m, a))
  BY <1>2, <1>3, FS_Subset
<1> QED
  BY <1>4, FS_CardinalityType

LEMMA AheadShrinks ==
  ASSUME NEW m, NEW a \in Keys
  PROVE  /\ Cardinality(Ahead(m, a + 1)) <= Cardinality(Ahead(m, a))
         /\ m[a] # None => Cardinality(Ahead(m, a + 1)) + 1 = Cardinality(Ahead(m, a))
<1>1. a \in Nat /\ a + 1 \in Nat /\ a <= KeyCount /\ KeyCount \in Nat
  BY PersistenceAssumption DEF Keys
<1> DEFINE S == Ahead(m, a)
           T == Ahead(m, a + 1)
<1>2. IsFiniteSet(S) /\ IsFiniteSet(T) /\ Cardinality(S) \in Nat /\ Cardinality(T) \in Nat
  BY <1>1, AheadFinite
<1>3. a \notin T
  BY <1>1 DEF Ahead
<1>4. T \in SUBSET S
  BY <1>1 DEF Ahead
<1>5. m[a] # None => S = T \cup {a}
  BY <1>1 DEF Ahead
<1> HIDE DEF S, T
<1>6. Cardinality(T) <= Cardinality(S)
  BY <1>2, <1>4, FS_Subset
<1>7. Cardinality(T \cup {a}) = Cardinality(T) + 1
  BY <1>2, <1>3, FS_AddElement
<1> QED
  BY <1>5, <1>6, <1>7 DEF S, T

LEMMA AheadFewer ==
  ASSUME NEW m, NEW n, NEW a \in Nat, \A k \in Keys : n[k] # None => m[k] # None
  PROVE  a >= 1 => Cardinality(Ahead(n, a)) <= Cardinality(Ahead(m, a))
<1> SUFFICES ASSUME a >= 1 PROVE Cardinality(Ahead(n, a)) <= Cardinality(Ahead(m, a))
  OBVIOUS
<1>1. Ahead(n, a) \in SUBSET Ahead(m, a)
  BY PersistenceAssumption DEF Ahead, Keys
<1>2. IsFiniteSet(Ahead(m, a))
  BY AheadFinite
<1> HIDE DEF Ahead
<1> QED
  BY <1>1, <1>2, FS_Subset

LEMMA AheadFirst ==
  ASSUME NEW m
  PROVE  Cardinality(Ahead(m, 1)) = Used(m)
  BY DEF Ahead, Used, Keys

\* A server that starts finds in a whole file exactly what it shows.
LEMMA LoadedIs ==
  ASSUME NEW f \in Seq(Block), Whole(f), Sorted(f), Counted(f), NEW k \in Keys, NEW o \in Object
  PROVE  Loaded(f)[k] = o <=> Has(f, k, o) /\ ~Expired(o, clock)
<1> DEFINE at == {i \in Readable(f) : f[i + 1].key = k /\ ~Expired(f[i + 1].obj, clock)}
           n == Len(f) - 2
<1>0. Loaded(f)[k] = IF at = {} THEN None ELSE f[Max(at) + 1].obj
  BY DEF Loaded
<1>1. /\ n \in Nat /\ Len(f) = n + 2 /\ f[n + 2] = End /\ HasHeader(f)
      /\ \A i \in 2 .. n + 1 : f[i].kind = "entry"
  <2>1. Len(f) \in Nat /\ Len(f) > 1
    BY DEF Whole
  <2>2. Len(f) = n + 2 /\ n \in Nat /\ Len(f) - 1 = n + 1
    BY <2>1
  <2> QED
    BY <2>2 DEF Whole
<1>2. f[1] \in Block /\ f[1].kind = "header"
  BY <1>1 DEF HasHeader
<1>3. f[1].count \in Nat /\ n <= f[1].count
  BY <1>2, KindsAre, PersistenceAssumption DEF Counted
<1> HIDE DEF n
<1>4. \A i \in 1 .. n : i \in Readable(f)
  <2> TAKE i \in 1 .. n
  <2>1. i \in 1 .. f[1].count
    BY <1>1, <1>3
  <2>2. \A j \in 1 .. i : j < Len(f) /\ f[j + 1].kind = "entry"
    <3> TAKE j \in 1 .. i
    <3>1. j + 1 \in 2 .. n + 1 /\ j < n + 2
      BY <1>1
    <3> QED
      BY <1>1, <3>1
  <2> QED
    BY <1>1, <2>1, <2>2 DEF Readable
<1>5. \A i \in Readable(f) : i \in 1 .. n
  <2> TAKE i \in Readable(f)
  <2>1. i \in Nat /\ i >= 1 /\ i + 1 <= n + 2 /\ f[i + 1].kind = "entry"
    BY <1>1, ReadableAre
  <2>2. i + 1 # n + 2
    <3>1. f[n + 2].kind # "entry"
      BY <1>1 DEF End
    <3> QED
      BY <2>1, <3>1
  <2> QED
    BY <1>1, <2>1, <2>2
<1>6. ASSUME NEW i \in Readable(f)
      PROVE  /\ i \in Nat /\ i + 1 \in 2 .. Len(f) /\ f[i + 1].kind = "entry"
             /\ f[i + 1] = Entry(f[i + 1].key, f[i + 1].obj)
  BY <1>1, <1>5, ReadableAre, KindsAre
<1>7. ASSUME NEW i \in at, NEW j \in at PROVE i = j
  <2>1. i \in Readable(f) /\ j \in Readable(f) /\ f[i + 1].key = k /\ f[j + 1].key = k
    OBVIOUS
  <2>2. /\ i \in Nat /\ j \in Nat /\ i + 1 \in 2 .. Len(f) /\ j + 1 \in 2 .. Len(f)
        /\ f[i + 1].kind = "entry" /\ f[j + 1].kind = "entry"
    BY <1>6, <2>1
  <2>3. ~(i + 1 < j + 1) /\ ~(j + 1 < i + 1)
    BY <2>1, <2>2, PersistenceAssumption DEF Sorted, Keys
  <2> QED
    BY <2>2, <2>3
<1>8. ASSUME NEW i \in at
      PROVE  Loaded(f)[k] = f[i + 1].obj
  <2>1. at \subseteq Nat /\ n \in Nat /\ \A j \in at : j <= n
    BY <1>1, <1>5
  <2> HIDE DEF at
  <2>2. Max(at) \in at
    BY <2>1, MaxIs
  <2>3. Max(at) = i
    BY <1>7, <2>2
  <2> QED
    BY <1>0, <2>3
<1>9. ASSUME Has(f, k, o), ~Expired(o, clock) PROVE Loaded(f)[k] = o
  <2>1. PICK h \in 2 .. Len(f) : f[h] = Entry(k, o)
    BY <1>9 DEF Has
  <2>2. f[h].kind = "entry" /\ f[h].key = k /\ f[h].obj = o
    BY <2>1, EntriesDiffer
  <2>3. h # n + 2
    BY <1>1, <2>1, EntriesDiffer
  <2>4. h - 1 \in 1 .. n /\ (h - 1) + 1 = h
    BY <1>1, <2>1, <2>3
  <2>5. h - 1 \in at
    BY <1>4, <1>9, <2>2, <2>4
  <2> HIDE DEF at
  <2> QED
    BY <1>8, <2>2, <2>4, <2>5
<1>10. ASSUME Loaded(f)[k] = o PROVE Has(f, k, o) /\ ~Expired(o, clock)
  <2>1. at # {}
    BY <1>0, <1>10, PersistenceAssumption
  <2>2. PICK i \in at : TRUE
    BY <2>1
  <2>3. f[i + 1].obj = o
    BY <1>8, <1>10
  <2>4. i \in Readable(f) /\ f[i + 1].key = k /\ ~Expired(f[i + 1].obj, clock)
    OBVIOUS
  <2>5. i + 1 \in 2 .. Len(f) /\ f[i + 1] = Entry(k, o)
    BY <1>6, <2>3, <2>4
  <2> QED
    BY <2>3, <2>4, <2>5 DEF Has
<1> QED
  BY <1>9, <1>10

-----------------------------------------------------------------------------
(* Who saves                                                               *)

\* No automatic save is ever due, as main's thread finds whenever it wakes up, or
\* there is no such thread.
NoAutoSaves == AutoSavers = {} \/ (SaveChanges = 0 /\ SaveSeconds = FALSE)

\* Nothing but commands, the clean-up and a child process uses the database: no
\* thread saves while the event loop runs commands.
OnlyForks == EventLoop = TRUE /\ NoAutoSaves

AutosIdle == \A s \in AutoSavers : Idle(s)

\* A saver that is idle stays so until it is asked to save.
LEMMA StaysIdle ==
  ASSUME TInv, [Next]_vars, NEW t \in Savers, Idle(t), ~Idle(t)'
  PROVE  \/ t \in AutoSavers /\ auto_save(t)
         \/ t \in Clients /\ save_command(t)
         \/ t \in Children /\ background_save(t)
<1>1. saver \in [Savers -> Locals] /\ saver[t].pc = "idle" /\ saver'[t].pc # "idle" /\ saver'[t] # saver[t]
  BY DEF TInv, TypeOK, Idle
<1>2. ASSUME NEW s \in Savers,
             \/ open_temp(s) \/ write_header(s) \/ write_entry(s) \/ write_end(s)
             \/ close_temp(s) \/ rename_temp(s) \/ unlink_temp(s) \/ auto_save_reset(s)
      PROVE  FALSE
  <2>1. s # t
    BY <1>1, <1>2 DEF open_temp, write_header, write_entry, write_end, close_temp, rename_temp,
                      unlink_temp, auto_save_reset, At
  <2>2. saver'[t] = saver[t]
    <3>1. CASE open_temp(s)
      BY <1>1, <2>1, <3>1 DEF open_temp, Return
    <3>2. CASE write_header(s)
      BY <1>1, <2>1, <3>2 DEF write_header, Write
    <3>3. CASE write_entry(s)
      BY <1>1, <2>1, <3>3 DEF write_entry, Write
    <3>4. CASE write_end(s)
      BY <1>1, <2>1, <3>4 DEF write_end, Write
    <3>5. CASE close_temp(s)
      BY <1>1, <2>1, <3>5 DEF close_temp
    <3>6. CASE rename_temp(s)
      BY <1>1, <2>1, <3>6 DEF rename_temp, Return
    <3>7. CASE unlink_temp(s)
      BY <1>1, <2>1, <3>7 DEF unlink_temp, Return
    <3>8. CASE auto_save_reset(s)
      BY <1>1, <2>1, <3>8 DEF auto_save_reset
    <3> QED
      BY <1>2, <3>1, <3>2, <3>3, <3>4, <3>5, <3>6, <3>7, <3>8
  <2> QED
    BY <1>1, <2>2
<1>3. ASSUME NEW s \in Savers, s # t, auto_save(s) \/ save_command(s) \/ background_save(s)
      PROVE  FALSE
  BY <1>1, <1>3, BeginIs DEF auto_save, save_command, background_save
<1>4. ASSUME NEW ks, Touch(ks) PROVE FALSE
  BY <1>1, <1>4 DEF Touch, Idle
<1>5. ASSUME NEW k \in Keys, NEW o \in Object \cup {None}, write_command(k, o) PROVE FALSE
  BY <1>4, <1>5 DEF write_command
<1>6. CASE cleanup_expired_keys \/ Tick \/ SecondsPass \/ UNCHANGED vars
  BY <1>1, <1>6 DEF cleanup_expired_keys, Tick, SecondsPass, vars
<1>7. CASE Crash
  BY <1>1, <1>7 DEF Crash, Rest
<1>8. CASE Start
  BY <1>4, <1>8 DEF Start
<1> QED
  BY <1>2, <1>3, <1>5, <1>6, <1>7, <1>8 DEF Next, Savers

LEMMA AutosStayIdle ==
  ASSUME NoAutoSaves, TInv, AutosIdle, [Next]_vars
  PROVE  AutosIdle'
<1> SUFFICES ASSUME NEW s \in AutoSavers, ~Idle(s)' PROVE FALSE
  BY DEF AutosIdle
<1>1. s \in Savers /\ s \notin Clients /\ s \notin Children /\ Idle(s)
  BY PersistenceAssumption DEF Savers, AutosIdle
<1>2. Due
  BY <1>1, StaysIdle DEF auto_save
<1> QED
  BY <1>2 DEF Due, NoAutoSaves

LEMMA AutosInvariance ==
  ASSUME NoAutoSaves
  PROVE  Spec => []AutosIdle
<1>1. Init => AutosIdle
  BY DEF Init, AutosIdle, Idle, Rest, Savers
<1>2. TInv /\ AutosIdle /\ [Next]_vars => AutosIdle'
  BY AutosStayIdle
<1> QED
  BY <1>1, <1>2, InitTInv, StepTInv, PTL DEF Spec

\* In the event loop two saves never overlap where no save is automatic and nobody
\* sends BGSAVE, whatever crashes: SAVE returns before the next request is read.
THEOREM SavesExclude ==
  ASSUME OnlyForks, Children = {}
  PROVE  Spec => []OneAtATime
<1>1. Init => OneAtATime
  BY DEF Init, OneAtATime, Idle, Rest
<1>2. TInv /\ AutosIdle /\ AutosIdle' /\ OneAtATime /\ [Next]_vars => OneAtATime'
  <2> SUFFICES ASSUME TInv, AutosIdle, AutosIdle', OneAtATime, [Next]_vars,
                      NEW s \in Savers, NEW t \in Savers, s # t, ~Idle(s)', ~Idle(t)'
               PROVE  FALSE
    BY DEF OneAtATime
  <2>1. s \in Clients /\ t \in Clients /\ s \notin AutoSavers /\ t \notin AutoSavers
    BY PersistenceAssumption DEF AutosIdle, Savers
  <2>2. ASSUME NEW r \in {s, t}, Idle(r)
        PROVE  \A q \in Savers : q # r => Idle(q)'
    <3>1. save_command(r)
      BY <2>1, <2>2, StaysIdle
    <3>2. \A q \in Savers : Idle(q)
      BY <3>1 DEF save_command, OnlyForks, AutosIdle, Savers
    <3>3. \A q \in Savers : q # r => saver'[q] = saver[q]
      BY <3>1, BeginIs DEF save_command
    <3> QED
      BY <3>2, <3>3 DEF Idle
  <2>3. ~Idle(s) /\ ~Idle(t)
    BY <2>2
  <2> QED
    BY <2>3 DEF OneAtATime
<1>3. NoAutoSaves
  BY DEF OnlyForks
<1>4. Spec => []AutosIdle
  BY <1>3, AutosInvariance
<1> QED
  BY <1>1, <1>2, <1>4, InitTInv, StepTInv, PTL DEF Spec

\* So SAVE alone leaves a whole file under the name dump.rdb at every step, without
\* a hypothesis on how saves interleave.
THEOREM SaveIsWhole ==
  ASSUME "close" \notin Failures, OnlyForks, Children = {}
  PROVE  Spec => []DumpWhole
<1>1. Spec => []OneAtATime
  BY SavesExclude
<1>2. Spec /\ []OneAtATime => []DumpWhole
  BY DumpIsWhole
<1> QED
  BY <1>1, <1>2, PTL

-----------------------------------------------------------------------------
(* dump.rdb is current                                                     *)

\* While one saver is under way the others have nothing to show.
LEMMA OthersCurrent ==
  ASSUME OneAtATime, NEW s \in Savers, ~Idle(s),
         \A t \in Savers : t # s => saver'[t] = saver[t],
         Faithful(s)', Agrees(s)'
  PROVE  \A t \in Savers : Faithful(t)' /\ Agrees(t)'
<1> TAKE t \in Savers
<1>1. t # s => saver'[t].pc = "idle"
  BY DEF OneAtATime, Idle
<1> QED
  BY <1>1 DEF Faithful, Agrees, At

LEMMA IdleCurrent ==
  ASSUME NEW s \in Savers, saver'[s].pc \in {"idle", "failed", "unlink", "reset"}
  PROVE  Faithful(s)' /\ Agrees(s)'
  BY DEF Faithful, Agrees, At

\* dump.rdb goes on to show what it showed.
LEMMA DumpStays ==
  ASSUME DumpAgrees, dump' = dump, dump # None => files'[dump] = files[dump],
         up' => up, late \subseteq late',
         up' => \A k \in Keys \ late' : Outlives(db, clock, db', clock', k)
  PROVE  DumpAgrees'
<1>1. DumpFile' = DumpFile
  BY DEF DumpFile
<1>2. ASSUME up', NEW k \in Keys \ late'
      PROVE  Shows(DumpFile, k, db', clock')
  <2>1. Shows(DumpFile, k, db, clock) /\ Outlives(db, clock, db', clock', k)
    BY <1>2 DEF DumpAgrees
  <2> QED
    BY <2>1, ShowsLater
<1> QED
  BY <1>1, <1>2 DEF DumpAgrees

LEMMA SameOutlives ==
  ASSUME NEW d, NEW now, NEW k
  PROVE  Outlives(d, now, d, now, k)
  BY DEF Outlives

LEMMA DumpUntouched ==
  ASSUME DumpAgrees, UNCHANGED <<up, clock, db, dump, late>>, dump # None => files'[dump] = files[dump]
  PROVE  DumpAgrees'
<1>1. DumpFile' = DumpFile
  BY DEF DumpFile
<1> QED
  BY <1>1 DEF DumpAgrees

\* A saver that does nothing in a step: its memory remembers what is left of the
\* database, and its file shows it.
LEMMA StaysCurrent ==
  ASSUME CInv, TInv', NEW s \in Savers, UNCHANGED disk, clock <= clock', up' => up,
         SameBut(saver'[s], [saver[s] EXCEPT !.touched = saver'[s].touched]),
         saver'[s].buf = saver[s].buf, saver[s].touched \subseteq saver'[s].touched,
         up' => \A k \in Keys \ saver'[s].touched : Outlives(db, clock, db', clock', k),
         s \in Children \/ \A k \in Keys : db'[k] # None => db[k] # None
  PROVE  Faithful(s)' /\ Agrees(s)'
<1>1. /\ saver'[s].pc = saver[s].pc /\ saver'[s].ino = saver[s].ino /\ saver'[s].at = saver[s].at
      /\ saver'[s].now = saver[s].now /\ saver'[s].mem = saver[s].mem
  <2>1. saver[s] \in Locals
    BY DEF CInv, WInv, TInv, TypeOK
  <2> QED
    BY <2>1 DEF SameBut, Locals
<1>2. files' = files /\ tmp' = tmp /\ Content(s)' = Content(s)
  BY <1>1 DEF disk, Content
<1>3. Faithful(s) /\ Agrees(s)
  BY DEF CInv
<1> DEFINE a == saver[s].at
           m == Memory(s)
           n == Memory(s)'
<1>4. Cardinality(Ahead(n, a)) <= Cardinality(Ahead(m, a)) /\ Cardinality(Ahead(n, a)) \in Nat
      /\ Cardinality(Ahead(m, a)) \in Nat
  <2>1. \A k \in Keys : n[k] # None => m[k] # None
    BY <1>1 DEF Memory
  <2>2. a \in Nat /\ a >= 1
    BY PersistenceAssumption, SMTT(40) DEF CInv, WInv, TInv, TypeOK, Locals
  <2> HIDE DEF a, m, n
  <2> QED
    BY <2>1, <2>2, AheadFewer, AheadFinite
<1>5. Faithful(s)'
  <2>1. CASE saver[s].pc = "entries"
    <3>1. saver[s].now \in Nat /\ clock \in Nat /\ clock' \in Nat
      BY DEF CInv, WInv, TInv, TypeOK, Locals
    <3>2. saver'[s].now <= clock'
      BY <1>1, <1>3, <2>1, <3>1 DEF Faithful, At
    <3>3. Content(s) \in Seq(Block) /\ Content(s)[1].count \in Nat /\ Len(Content(s)) \in Nat
      <4>1. saver[s].ino \in Inodes /\ Begun(Content(s))
        BY <2>1 DEF CInv, WInv, TInv, TypeOK, OpenFiles, Writing, Progress, Locals, At
      <4>2. Content(s) \in Seq(Block)
        BY <4>1 DEF CInv, WInv, TInv, TypeOK, Locals, Content
      <4>3. Content(s)[1] \in Block /\ Content(s)[1].kind = "header"
        BY <4>1, <4>2 DEF Begun, HasHeader
      <4> QED
        BY <4>2, <4>3, KindsAre, PersistenceAssumption
    <3>4. Len(Content(s)) - 1 + Cardinality(Ahead(n, a)) <= Content(s)[1].count
      <4>1. Len(Content(s)) - 1 + Cardinality(Ahead(m, a)) <= Content(s)[1].count
        BY <1>3, <2>1 DEF Faithful, At
      <4> HIDE DEF a, m, n
      <4> QED
        BY <1>4, <3>3, <4>1
    <3>5. Sorted(Content(s)) /\ Below(Content(s), a)
      BY <1>3, <2>1 DEF Faithful, At
    <3> QED
      BY <1>1, <1>2, <2>1, <3>2, <3>4, <3>5 DEF Faithful, At
  <2>2. CASE saver[s].pc # "entries"
    BY <1>1, <1>2, <1>3, <2>2 DEF Faithful, At
  <2> QED
    BY <2>1, <2>2
<1>6. Agrees(s)'
  <2> SUFFICES ASSUME up', NEW k \in Keys \ saver'[s].touched
               PROVE  /\ saver[s].pc \in {"open", "header", "entries"} => Remembers(n, k, db', clock')
                      /\ saver[s].pc = "entries" /\ k < a => Shows(Content(s), k, db', clock')
                      /\ saver[s].pc = "close" => Shows(Content(s), k, db', clock')
                      /\ saver[s].pc = "rename" => Shows(files[tmp], k, db', clock')
    BY <1>1, <1>2 DEF Agrees, At
  <2>1. k \in Keys \ saver[s].touched /\ up
    OBVIOUS
  <2>2. Outlives(db, clock, db', clock', k)
    OBVIOUS
  <2>3. Remembers(db', k, db', clock')
    BY DEF Remembers
  <2>4. Remembers(m, k, db, clock) => Remembers(n, k, db', clock')
    <3>1. CASE s \in Children
      <4>1. n = m
        BY <1>1, <3>1 DEF Memory
      <4> HIDE DEF m, n
      <4> QED
        BY <2>2, <4>1, ShowsLater
    <3>2. CASE s \notin Children
      BY <2>3, <3>2 DEF Memory
    <3> QED
      BY <3>1, <3>2
  <2>5. \A f : Shows(f, k, db, clock) => Shows(f, k, db', clock')
    BY <2>2, ShowsLater
  <2> QED
    BY <1>3, <2>1, <2>4, <2>5 DEF Agrees, At
<1> QED
  BY <1>5, <1>6

\* What a saver under way has written so far.
LEMMA ContentIs ==
  ASSUME CInv, NEW s \in Savers, At(s, "entries")
  PROVE  /\ Content(s) \in Seq(Block) /\ Begun(Content(s)) /\ Len(Content(s)) \in Nat /\ Len(Content(s)) > 0
         /\ Content(s)[1].count \in Nat
<1>1. saver[s].ino \in Inodes /\ Begun(Content(s))
  BY DEF CInv, WInv, TInv, TypeOK, OpenFiles, Writing, Progress, Locals, At
<1>2. Content(s) \in Seq(Block)
  BY <1>1 DEF CInv, WInv, TInv, TypeOK, Locals, Content
<1>3. Content(s)[1] \in Block /\ Content(s)[1].kind = "header" /\ Len(Content(s)) > 0
  BY <1>1, <1>2 DEF Begun, HasHeader
<1> QED
  BY <1>1, <1>2, <1>3, KindsAre, PersistenceAssumption

LEMMA HeaderCurrent ==
  ASSUME CInv, NEW s \in Savers, write_header(s)
  PROVE  /\ Faithful(s)' /\ Agrees(s)' /\ DumpAgrees'
         /\ \A t \in Savers : t # s => saver'[t] = saver[t]
<1> DEFINE m == Memory(s)
           u == Used(m)
           b == Header(u)
           r == HeaderNext(s)
<1>1. /\ UNCHANGED <<up, clock, db, dump, tmp, late>> /\ Write(s, b, r) /\ At(s, "header")
  BY DEF write_header, HeaderNext
<1>2. b \in Block /\ b.kind = "header" /\ b.count = u /\ u \in Nat
  BY UsedBounded, BlocksAre, PersistenceAssumption DEF Header
<1>3. /\ r \in Locals /\ r.pc = "entries" /\ r.ino = saver[s].ino /\ r.now = clock
      /\ r.off = saver[s].off /\ r.buf = saver[s].buf /\ r.at = saver[s].at
      /\ r.mem = saver[s].mem /\ r.touched = saver[s].touched
  BY NextLocals DEF CInv, WInv
<1> HIDE DEF b, r
<1>4. /\ Grown(s, b, r)
      /\ dump # None => files'[dump] = files[dump]
      /\ \A t \in Savers : t # s => saver'[t] = saver[t]
  BY <1>1, <1>2, <1>3, WriteGrows DEF CInv
<1>5. DumpAgrees'
  BY <1>1, <1>4, DumpUntouched DEF CInv
<1>6. ASSUME saver'[s].pc # "failed"
      PROVE  Faithful(s)' /\ Agrees(s)'
  <2>1. SameBut(saver'[s], r) /\ Content(s)' = Append(Content(s), b)
    BY <1>4, <1>6 DEF Grown
  <2>2. Content(s) = <<>> \o <<>>
    BY <1>1 DEF CInv, WInv, OwnsTemp, At, Writing, Content
  <2>3. Append(<<>> \o <<>>, b) = <<b>>
    <3>1. <<>> \in Seq(Block) /\ <<>> \o <<>> = <<>>
      OBVIOUS
    <3> QED
      BY <3>1
  <2>4. Content(s)' = <<b>>
    BY <2>1, <2>2, <2>3
  <2>5. Len(<<b>>) = 1 /\ <<b>>[1] = b
    OBVIOUS
  <2>6. /\ saver'[s].pc = "entries" /\ saver'[s].at = 1 /\ saver'[s].now = clock
        /\ saver'[s].mem = saver[s].mem /\ saver'[s].touched = saver[s].touched
    BY <1>1, <1>3, <2>1 DEF SameBut, CInv, Faithful, At
  <2>7. Memory(s)' = m
    BY <1>1, <2>6 DEF Memory
  <2> HIDE DEF m
  <2>8. Sorted(<<b>>) /\ Below(<<b>>, 1)
    BY <2>5 DEF Sorted, Below
  <2>9. Len(<<b>>) - 1 + Cardinality(Ahead(m, 1)) <= <<b>>[1].count
    <3>1. Cardinality(Ahead(m, 1)) = u
      BY AheadFirst
    <3> HIDE DEF u
    <3> QED
      BY <1>2, <2>5, <3>1
  <2>10. Faithful(s)'
    <3>1. clock' = clock /\ clock \in Nat
      BY <1>1 DEF CInv, WInv, TInv, TypeOK
    <3> QED
      BY <2>4, <2>6, <2>7, <2>8, <2>9, <3>1 DEF Faithful, At
  <2>11. Agrees(s)'
    <3> SUFFICES ASSUME up', NEW k \in Keys \ saver[s].touched
                 PROVE  Remembers(m, k, db, clock) /\ ~(k < 1)
      BY <1>1, <2>6, <2>7 DEF Agrees, At
    <3>1. Remembers(m, k, db, clock)
      BY <1>1 DEF CInv, Agrees, At, m
    <3>2. ~(k < 1)
      BY PersistenceAssumption DEF Keys
    <3> QED
      BY <3>1, <3>2
  <2> QED
    BY <2>10, <2>11
<1>7. Faithful(s)' /\ Agrees(s)'
  BY <1>6, IdleCurrent
<1> QED
  BY <1>4, <1>5, <1>7

LEMMA EntryCurrent ==
  ASSUME CInv, NEW s \in Savers, write_entry(s)
  PROVE  /\ Faithful(s)' /\ Agrees(s)' /\ DumpAgrees'
         /\ \A t \in Savers : t # s => saver'[t] = saver[t]
<1> DEFINE k == saver[s].at
           m == Memory(s)
           o == m[k]
           b == Entry(k, o)
           r == EntryNext(s)
           f == Content(s)
<1>1. UNCHANGED <<up, clock, db, dump, tmp, late>> /\ At(s, "entries") /\ k <= KeyCount
  BY DEF write_entry
<1>2. /\ k \in Keys /\ k \in Nat /\ o \in Object \cup {None} /\ m \in [Keys -> Object \cup {None}]
      /\ saver[s].now \in Nat /\ clock \in Nat
  <2>1. k \in Keys
    BY <1>1 DEF CInv, WInv, TInv, TypeOK, Locals, Keys
  <2>2. m \in [Keys -> Object \cup {None}] /\ saver[s].now \in Nat /\ clock \in Nat
    BY DEF Memory, CInv, WInv, TInv, TypeOK, Locals
  <2> QED
    BY <2>1, <2>2, PersistenceAssumption DEF Keys
<1>3. f \in Seq(Block) /\ Begun(f) /\ Len(f) \in Nat /\ Len(f) > 0 /\ f[1].count \in Nat
  BY <1>1, ContentIs
<1>4. /\ Sorted(f) /\ Below(f, k) /\ saver[s].now <= clock
      /\ Len(f) - 1 + Cardinality(Ahead(m, k)) <= f[1].count
  BY <1>1 DEF CInv, Faithful, At
<1>5. /\ r \in Locals /\ r.pc = "entries" /\ r.ino = saver[s].ino /\ r.now = saver[s].now
      /\ r.off = saver[s].off /\ r.buf = saver[s].buf /\ r.at = k + 1
      /\ r.mem = saver[s].mem /\ r.touched = saver[s].touched
  BY <1>1, NextLocals DEF CInv, WInv, At
<1>6. /\ Cardinality(Ahead(m, k + 1)) <= Cardinality(Ahead(m, k))
      /\ m[k] # None => Cardinality(Ahead(m, k + 1)) + 1 = Cardinality(Ahead(m, k))
      /\ Cardinality(Ahead(m, k)) \in Nat /\ Cardinality(Ahead(m, k + 1)) \in Nat
  <2>1. k + 1 \in Nat
    BY <1>2
  <2> HIDE DEF k, m
  <2> QED
    BY <1>2, <2>1, AheadShrinks, AheadFinite
\* It is enough to look at the content g that the step leaves.
<1>7. ASSUME NEW g, Content(s)' = g, SameBut(saver'[s], r),
             Sorted(g), Below(g, k + 1), Len(g) - 1 + Cardinality(Ahead(m, k + 1)) <= g[1].count,
             \A j \in Keys : j < k /\ Shows(f, j, db, clock) => Shows(g, j, db, clock),
             Remembers(m, k, db, clock) => Shows(g, k, db, clock)
      PROVE  Faithful(s)' /\ Agrees(s)'
  <2>1. /\ saver'[s].pc = "entries" /\ saver'[s].at = k + 1 /\ saver'[s].now = saver[s].now
        /\ saver'[s].mem = saver[s].mem /\ saver'[s].touched = saver[s].touched
    BY <1>5, <1>7 DEF SameBut
  <2>2. Memory(s)' = m
    BY <1>1, <2>1 DEF Memory
  <2>3. Faithful(s)'
    <3>1. clock' = clock
      BY <1>1
    <3> HIDE DEF k, m
    <3> QED
      BY <1>4, <1>7, <2>1, <2>2, <3>1 DEF Faithful, At
  <2>4. Agrees(s)'
    <3> SUFFICES ASSUME up, NEW j \in Keys \ saver[s].touched
                 PROVE  /\ Remembers(m, j, db, clock)
                        /\ j < k + 1 => Shows(g, j, db, clock)
      BY <1>1, <1>7, <2>1, <2>2 DEF Agrees, At
    <3>1. /\ Remembers(m, j, db, clock)
          /\ j < k => Shows(f, j, db, clock)
      BY <1>1 DEF CInv, Agrees, At
    <3>2. j < k + 1 => j < k \/ j = k
      BY <1>2, PersistenceAssumption DEF Keys
    <3> HIDE DEF k, m, f
    <3> QED
      BY <1>7, <3>1, <3>2
  <2> QED
    BY <2>3, <2>4
<1>8. CASE /\ o = None \/ Expired(o, saver[s].now)
           /\ saver' = [saver EXCEPT ![s] = r] /\ UNCHANGED files
  <2>1. saver'[s] = r /\ \A t \in Savers : t # s => saver'[t] = saver[t]
    BY <1>8 DEF CInv, WInv, TInv, TypeOK
  <2> HIDE DEF r
  <2>2. SameBut(saver'[s], r) /\ Content(s)' = f
    BY <1>5, <1>8, <2>1 DEF SameBut, Content
  <2>3. DumpAgrees'
    BY <1>1, <1>8, DumpUntouched DEF CInv
  <2>4. Below(f, k + 1)
    <3>1. \A i \in 2 .. Len(f) : f[i].kind = "entry" => f[i].key \in Nat
      <4> TAKE i \in 2 .. Len(f)
      <4>1. f[i] \in Block
        BY <1>3
      <4> HIDE DEF f
      <4> QED
        BY <4>1, KindsAre, PersistenceAssumption DEF Keys
    <3> HIDE DEF f, k
    <3> QED
      BY <1>2, <1>4, <3>1 DEF Below
  <2>5. Len(f) - 1 + Cardinality(Ahead(m, k + 1)) <= f[1].count
    <3> HIDE DEF f, k, m
    <3> QED
      BY <1>3, <1>4, <1>6
  <2>6. Remembers(m, k, db, clock) => Shows(f, k, db, clock)
    <3> HIDE DEF f, k, m
    <3> QED
      BY <1>2, <1>3, <1>4, <1>8, ShowsSkipped DEF o
  <2> HIDE DEF f, k, m
  <2> QED
    BY <1>4, <1>7, <2>1, <2>2, <2>3, <2>4, <2>5, <2>6
<1>9. CASE o # None /\ Write(s, b, r)
  <2>1. b \in Block /\ b.kind = "entry" /\ b.key = k
    BY <1>2, <1>9, BlocksAre, EntriesDiffer
  <2>2. \A j, p : j # k => b # Entry(j, p)
    BY EntriesDiffer
  <2> DEFINE g == Append(f, b)
  <2>3. Shows(g, k, db, clock) \/ ~Remembers(m, k, db, clock)
    <3>1. m[k] \in Object
      BY <1>2, <1>9
    <3> HIDE DEF f, k, m
    <3> QED
      BY <1>2, <1>3, <1>4, <3>1, ShowsWritten DEF b, o
  <2> HIDE DEF r, b
  <2>4. /\ Grown(s, b, r)
        /\ dump # None => files'[dump] = files[dump]
        /\ \A t \in Savers : t # s => saver'[t] = saver[t]
    BY <1>1, <1>5, <1>9, <2>1, WriteGrows DEF CInv
  <2>5. DumpAgrees'
    BY <1>1, <2>4, DumpUntouched DEF CInv
  <2>6. CASE saver'[s].pc = "failed"
    BY <2>4, <2>5, <2>6, IdleCurrent
  <2>7. CASE SameBut(saver'[s], r) /\ Content(s)' = g
    <3>1. Sorted(g) /\ Below(g, k + 1)
      <4> HIDE DEF f, k
      <4> QED
        BY <1>2, <1>3, <1>4, <2>1, SortedGrows
    <3>2. Len(g) = Len(f) + 1 /\ g[1] = f[1]
      <4> HIDE DEF f
      <4> QED
        BY <1>3, <2>1, AppendedIs
    <3>3. Len(g) - 1 + Cardinality(Ahead(m, k + 1)) <= g[1].count
      <4> HIDE DEF f, k, m, g
      <4> QED
        BY <1>3, <1>4, <1>6, <1>9, <3>2 DEF o
    <3>4. ASSUME NEW j \in Keys, j < k, Shows(f, j, db, clock) PROVE Shows(g, j, db, clock)
      <4>1. \A p : b # Entry(j, p)
        BY <1>2, <2>2, <3>4, PersistenceAssumption DEF Keys
      <4> HIDE DEF f, k
      <4> QED
        BY <1>3, <2>1, <3>4, <4>1, ShowsStill
    <3> HIDE DEF f, k, m, g
    <3> QED
      BY <1>7, <2>3, <2>4, <2>5, <2>7, <3>1, <3>3, <3>4
  <2> QED
    BY <2>4, <2>6, <2>7 DEF Grown
<1> QED
  BY <1>8, <1>9 DEF write_entry, EntryNext

LEMMA EndCurrent ==
  ASSUME CInv, NEW s \in Savers, write_end(s)
  PROVE  /\ Faithful(s)' /\ Agrees(s)' /\ DumpAgrees'
         /\ \A t \in Savers : t # s => saver'[t] = saver[t]
<1> DEFINE a == saver[s].at
           m == Memory(s)
           r == EndNext(s)
           f == Content(s)
           g == Append(f, End)
<1>1. UNCHANGED <<up, clock, db, dump, tmp, late>> /\ At(s, "entries") /\ a > KeyCount /\ Write(s, End, r)
  BY DEF write_end, EndNext
<1>2. f \in Seq(Block) /\ Begun(f) /\ Len(f) \in Nat /\ Len(f) > 0 /\ f[1].count \in Nat
  BY <1>1, ContentIs
<1>3. /\ Sorted(f) /\ Below(f, a) /\ a \in Nat
      /\ Len(f) - 1 + Cardinality(Ahead(m, a)) <= f[1].count
  BY <1>1, PersistenceAssumption DEF CInv, Faithful, At, WInv, TInv, TypeOK, Locals
<1>4. /\ r \in Locals /\ r.pc = "close" /\ r.ino = saver[s].ino
      /\ r.off = saver[s].off /\ r.buf = saver[s].buf /\ r.touched = saver[s].touched
  BY NextLocals DEF CInv, WInv
<1> HIDE DEF r
<1>5. /\ Grown(s, End, r)
      /\ dump # None => files'[dump] = files[dump]
      /\ \A t \in Savers : t # s => saver'[t] = saver[t]
  BY <1>1, <1>4, BlocksAre, WriteGrows DEF CInv
<1>6. DumpAgrees'
  BY <1>1, <1>5, DumpUntouched DEF CInv
<1>7. ASSUME saver'[s].pc # "failed"
      PROVE  Faithful(s)' /\ Agrees(s)'
  <2>1. saver'[s].pc = "close" /\ saver'[s].touched = saver[s].touched /\ Content(s)' = g
    BY <1>4, <1>5, <1>7 DEF Grown, SameBut
  <2>2. Cardinality(Ahead(m, a)) \in Nat
    BY <1>3, AheadFinite
  <2> HIDE DEF m
  <2>3. Sorted(g) /\ Counted(g)
    <3>1. End.kind # "entry"
      BY DEF End
    <3> HIDE DEF f, a
    <3>2. Sorted(g) /\ Len(g) = Len(f) + 1 /\ g[1] = f[1]
      BY <1>2, <1>3, <3>1, BlocksAre, SortedGrows, AppendedIs
    <3> HIDE DEF g
    <3> QED
      BY <1>2, <1>3, <2>2, <3>2 DEF Counted
  <2>4. Faithful(s)'
    BY <2>1, <2>3 DEF Faithful, At
  <2>5. ASSUME NEW k \in Keys, up, k \notin saver[s].touched
        PROVE  Shows(g, k, db, clock)
    <3>1. k < a
      BY <1>1, <1>3, PersistenceAssumption DEF Keys
    <3>2. Shows(f, k, db, clock)
      BY <1>1, <2>5, <3>1 DEF CInv, Agrees, At
    <3>3. \A o : End # Entry(k, o)
      BY EntriesDiffer
    <3> HIDE DEF f
    <3> QED
      BY <1>2, <3>2, <3>3, BlocksAre, ShowsStill
  <2>6. Agrees(s)'
    BY <1>1, <2>1, <2>5 DEF Agrees, At
  <2> QED
    BY <2>4, <2>6
<1> QED
  BY <1>5, <1>6, <1>7, IdleCurrent

LEMMA OpenCurrent ==
  ASSUME CInv, NEW s \in Savers, open_temp(s)
  PROVE  /\ Faithful(s)' /\ Agrees(s)' /\ DumpAgrees'
         /\ \A t \in Savers : t # s => saver'[t] = saver[t]
<1>1. At(s, "open") /\ UNCHANGED <<up, clock, db, dump, late>>
  BY DEF open_temp
<1>2. CASE Return(s, FALSE) /\ UNCHANGED <<files, tmp>>
  <2>1. /\ \A t \in Savers : t # s => saver'[t] = saver[t]
        /\ saver'[s].pc \in {"idle", "reset"}
    BY <1>2, ReturnTyped DEF CInv, WInv
  <2>2. DumpAgrees'
    BY <1>1, <1>2, DumpUntouched DEF CInv
  <2> QED
    BY <2>1, <2>2, IdleCurrent
<1>3. ASSUME NEW i \in IF tmp = None THEN {Min(FreeInodes)} ELSE {tmp},
             tmp' = i, files' = [files EXCEPT ![i] = <<>>],
             saver' = [saver EXCEPT ![s] = [saver[s] EXCEPT !.pc = "header", !.ino = i]]
      PROVE  /\ Faithful(s)' /\ Agrees(s)' /\ DumpAgrees'
             /\ \A t \in Savers : t # s => saver'[t] = saver[t]
  <2>1. i # dump
    <3>1. Min(FreeInodes) \in FreeInodes
      BY <1>1, FreeExists DEF CInv, WInv
    <3> QED
      BY <3>1 DEF CInv, WInv, FreeInodes
  <2> DEFINE l == saver[s]
             w == [l EXCEPT !.pc = "header", !.ino = i]
  <2>2. l \in Locals /\ saver \in [Savers -> Locals] /\ files \in [Inodes -> Seq(Block)] /\ dump \in Inodes \cup {None}
    BY DEF CInv, WInv, TInv, TypeOK
  <2>3. saver'[s] = w /\ \A t \in Savers : t # s => saver'[t] = saver[t]
    BY <1>3, <2>2
  <2>4. w.pc = "header" /\ w.at = l.at /\ w.touched = l.touched /\ w.mem = l.mem
    <3> HIDE DEF l
    <3> QED
      BY <2>2 DEF Locals
  <2> HIDE DEF w
  <2>5. dump # None => files'[dump] = files[dump]
    BY <1>3, <2>1, <2>2
  <2>6. DumpAgrees'
    BY <1>1, <2>5, DumpUntouched DEF CInv
  <2>7. Faithful(s)'
    BY <1>1, <2>3, <2>4 DEF CInv, Faithful, At
  <2>8. Memory(s)' = Memory(s)
    BY <1>1, <2>3, <2>4 DEF Memory
  <2>9. Agrees(s)'
    BY <1>1, <2>3, <2>4, <2>8 DEF CInv, Agrees, At
  <2> QED
    BY <2>3, <2>6, <2>7, <2>9
<1> QED
  BY <1>2, <1>3 DEF open_temp

LEMMA CloseCurrent ==
  ASSUME "close" \notin Failures, CInv, NEW s \in Savers, close_temp(s)
  PROVE  /\ Faithful(s)' /\ Agrees(s)' /\ DumpAgrees'
         /\ \A t \in Savers : t # s => saver'[t] = saver[t]
<1> DEFINE l == saver[s]
           p == IF At(s, "close") THEN "rename" ELSE "unlink"
           w == [l EXCEPT !.pc = p, !.ino = None]
           g == WriteAt(files[l.ino], l.off, l.buf)
<1>1. /\ l \in Locals /\ l.ino = tmp /\ tmp # None /\ tmp # dump /\ tmp \in Inodes
      /\ saver \in [Savers -> Locals] /\ files \in [Inodes -> Seq(Block)]
      /\ dump \in Inodes \cup {None}
  BY DEF close_temp, At, CInv, WInv, TInv, TypeOK, OpenFiles, OwnsTemp, Writing
<1>2. UNCHANGED <<up, clock, db, dump, tmp, late>> /\ files' = [files EXCEPT ![tmp] = g]
  BY <1>1 DEF close_temp
<1>3. saver' = [saver EXCEPT ![s] = w]
  BY DEF close_temp
<1>4. p = "rename" => At(s, "close") /\ g = Content(s)
  BY CloseContent DEF CInv
<1>5. p \in {"rename", "unlink"}
  OBVIOUS
<1>6. files'[tmp'] = g
  <2> HIDE DEF g
  <2> QED
    BY <1>1, <1>2
<1>7. dump # None => files'[dump] = files[dump]
  <2> HIDE DEF g
  <2> QED
    BY <1>1, <1>2
<1> HIDE DEF l, p, g
<1>8. w.pc = p /\ w.touched = l.touched
  BY <1>1 DEF Locals
<1> HIDE DEF w
<1>9. saver'[s] = w /\ \A t \in Savers : t # s => saver'[t] = saver[t]
  BY <1>1, <1>3
<1>10. DumpAgrees'
  BY <1>2, <1>7, DumpUntouched DEF CInv
<1>11. CASE p = "unlink"
  BY <1>8, <1>9, <1>10, <1>11, IdleCurrent
<1>12. CASE p = "rename"
  <2>1. saver'[s].pc = "rename" /\ saver'[s].touched = saver[s].touched
    BY <1>8, <1>9, <1>12 DEF l
  <2>2. At(s, "close") /\ files'[tmp'] = Content(s)
    BY <1>4, <1>6, <1>12
  <2>3. Faithful(s)'
    <3>1. Sorted(Content(s)) /\ Counted(Content(s))
      BY <2>2 DEF CInv, Faithful
    <3> QED
      BY <2>1, <2>2, <3>1 DEF Faithful, At
  <2>4. Agrees(s)'
    <3>1. up => \A k \in Keys \ saver[s].touched : Shows(Content(s), k, db, clock)
      BY <2>2 DEF CInv, Agrees
    <3> QED
      BY <1>2, <2>1, <2>2, <3>1 DEF Agrees, At
  <2> QED
    BY <1>9, <1>10, <2>3, <2>4
<1> QED
  BY <1>5, <1>11, <1>12

LEMMA EndersCurrent ==
  ASSUME CInv, NEW s \in Savers, rename_temp(s) \/ unlink_temp(s)
  PROVE  /\ Faithful(s)' /\ Agrees(s)' /\ DumpAgrees'
         /\ \A t \in Savers : t # s => saver'[t] = saver[t]
<1>1. ASSUME NEW ok, Return(s, ok)
      PROVE  /\ Faithful(s)' /\ Agrees(s)'
             /\ \A t \in Savers : t # s => saver'[t] = saver[t]
  BY <1>1, ReturnTyped, IdleCurrent DEF CInv, WInv
<1>2. CASE unlink_temp(s)
  <2>1. DumpAgrees'
    BY <1>2, DumpUntouched DEF unlink_temp, CInv
  <2> QED
    BY <1>1, <1>2, <2>1 DEF unlink_temp
<1>3. CASE rename_temp(s) /\ UNCHANGED <<dump, tmp, late>>
  <2>1. DumpAgrees'
    BY <1>3, DumpUntouched DEF rename_temp, CInv
  <2> QED
    BY <1>1, <1>3, <2>1 DEF rename_temp
<1>4. CASE rename_temp(s) /\ tmp # None /\ dump' = tmp /\ late' = saver[s].touched
  <2>1. At(s, "rename") /\ UNCHANGED <<up, clock, db, files>>
    BY <1>4 DEF rename_temp
  <2>2. DumpFile' = files[tmp]
    BY <1>4, <2>1 DEF DumpFile
  <2>3. Sorted(files[tmp]) /\ Counted(files[tmp])
    BY <2>1 DEF CInv, Faithful
  <2>4. up => \A k \in Keys \ saver[s].touched : Shows(files[tmp], k, db, clock)
    BY <2>1 DEF CInv, Agrees
  <2>5. DumpAgrees'
    BY <1>4, <2>1, <2>2, <2>3, <2>4 DEF DumpAgrees
  <2> QED
    BY <1>1, <1>4, <2>5 DEF rename_temp
<1> QED
  BY <1>2, <1>3, <1>4 DEF rename_temp

LEMMA BeginCurrent ==
  ASSUME CInv, WInv', NEW s \in Savers, Begin(s)
  PROVE  CInv'
<1>1. up /\ Idle(s) /\ UNCHANGED <<up, clock, db, disk, late>>
  BY DEF Begin
<1>2. /\ \A t \in Savers : t # s => saver'[t] = saver[t]
      /\ saver'[s].pc = "open" /\ saver'[s].at = 1 /\ saver'[s].touched = {}
      /\ s \in Children => saver'[s].mem = db
  BY BeginIs DEF CInv, WInv
<1>3. Memory(s)' = db
  BY <1>1, <1>2 DEF Memory
<1>4. Faithful(s)'
  BY <1>2 DEF Faithful, At
<1>5. Agrees(s)'
  <2>1. \A k \in Keys : Remembers(db, k, db, clock)
    BY DEF Remembers
  <2> QED
    BY <1>1, <1>2, <1>3, <2>1 DEF Agrees, At
<1>6. ASSUME NEW t \in Savers, t # s PROVE Faithful(t)' /\ Agrees(t)'
  <2>1. saver'[t] = saver[t] /\ files' = files /\ tmp' = tmp
    BY <1>1, <1>2, <1>6 DEF disk
  <2>2. Memory(t)' = Memory(t) /\ Content(t)' = Content(t)
    BY <1>1, <2>1 DEF Memory, Content
  <2> QED
    BY <1>1, <2>1, <2>2 DEF CInv, Faithful, Agrees, At
<1>7. DumpAgrees'
  BY <1>1, DumpUntouched DEF CInv, disk
<1> QED
  BY <1>1, <1>4, <1>5, <1>6, <1>7 DEF CInv

\* What has expired does not come back, whether it is removed or not.
LEMMA TimeOutlives ==
  ASSUME NEW d, NEW e, NEW now \in Nat, NEW then \in Nat, now <= then, NEW k,
         e[k] = d[k] \/ (e[k] = None /\ Expired(d[k], now))
  PROVE  Outlives(d, now, e, then, k)
<1> SUFFICES ASSUME NEW o \in Object, ~Expired(o, then)
             PROVE  ~Expired(o, now) /\ (e[k] = o <=> d[k] = o)
  BY DEF Outlives
<1>1. ~Expired(o, now)
  BY ExpiredLater
<1>2. o # None
  BY PersistenceAssumption
<1> QED
  BY <1>1, <1>2

\* Neither the clean-up nor time needs the savers to do anything.
LEMMA TimeCurrent ==
  ASSUME CInv, WInv', cleanup_expired_keys \/ Tick \/ SecondsPass
  PROVE  CInv'
<1>1. UNCHANGED <<up, saver, disk, late>> /\ clock \in Nat /\ clock' \in Nat /\ clock <= clock'
  BY DEF cleanup_expired_keys, Tick, SecondsPass, CInv, WInv, TInv, TypeOK
<1>2. ASSUME NEW k \in Keys
      PROVE  db'[k] = db[k] \/ (db'[k] = None /\ Expired(db[k], clock))
  BY DEF cleanup_expired_keys, Tick, SecondsPass, Live
<1>3. \A k \in Keys : Outlives(db, clock, db', clock', k)
  BY <1>1, <1>2, TimeOutlives
<1>4. ASSUME NEW s \in Savers PROVE Faithful(s)' /\ Agrees(s)'
  <2>1. saver'[s] = saver[s] /\ saver[s] \in Locals
    BY <1>1 DEF CInv, WInv, TInv, TypeOK
  <2>2. SameBut(saver'[s], [saver[s] EXCEPT !.touched = saver'[s].touched])
    BY <2>1 DEF SameBut, Locals
  <2>3. \A k \in Keys : db'[k] # None => db[k] # None
    BY <1>2
  <2>4. up' => \A k \in Keys \ saver'[s].touched : Outlives(db, clock, db', clock', k)
    BY <1>3
  <2>5. UNCHANGED disk /\ (up' => up) /\ TInv' /\ saver'[s].buf = saver[s].buf /\ saver[s].touched \subseteq saver'[s].touched
    BY <1>1, <2>1 DEF WInv
  <2> QED
    BY <1>1, <2>2, <2>3, <2>4, <2>5, StaysCurrent
<1>5. DumpAgrees'
  <2>1. /\ dump' = dump /\ (dump # None => files'[dump] = files[dump])
        /\ up' => up
        /\ late \subseteq late'
        /\ up' => \A k \in Keys \ late' : Outlives(db, clock, db', clock', k)
    BY <1>1, <1>3 DEF disk
  <2> QED
    BY <2>1, DumpStays DEF CInv
<1> QED
  BY <1>1, <1>4, <1>5 DEF CInv, Idle

\* A command touches its key in every save that is under way.
LEMMA CommandCurrent ==
  ASSUME OnlyForks, AutosIdle, CInv, WInv', NEW k \in Keys, NEW o \in Object \cup {None}, write_command(k, o)
  PROVE  CInv'
<1>1. /\ up /\ UNCHANGED <<up, clock, disk>> /\ late' = late \cup {k} /\ Touch({k})
      /\ db' = [db EXCEPT ![k] = o] /\ clock \in Nat
      /\ \A c \in Clients : Idle(c)
  BY DEF write_command, OnlyForks, CInv, WInv, TInv, TypeOK
<1>2. \A j \in Keys : j # k => Outlives(db, clock, db', clock', j)
  <2>1. \A j \in Keys : j # k => db'[j] = db[j]
    BY <1>1 DEF CInv, WInv, TInv, TypeOK
  <2> QED
    BY <1>1, <2>1 DEF Outlives
<1>3. ASSUME NEW s \in Savers PROVE Faithful(s)' /\ Agrees(s)'
  <2>1. /\ SameBut(saver'[s], [saver[s] EXCEPT !.touched = saver'[s].touched])
        /\ saver'[s].buf = saver[s].buf
        /\ saver'[s].touched = IF Idle(s) THEN saver[s].touched ELSE saver[s].touched \cup {k}
    BY <1>1, TouchTyped DEF CInv, WInv
  <2>2. CASE Idle(s)
    <3>1. saver'[s] = saver[s]
      BY <1>1, <2>2 DEF Touch
    <3> QED
      BY <2>2, <3>1, IdleCurrent DEF Idle
  <2>3. CASE ~Idle(s)
    <3>1. s \in Children
      BY <1>1, <2>3 DEF AutosIdle, Savers
    <3>2. /\ UNCHANGED disk /\ clock <= clock' /\ TInv'
          /\ up' => up
          /\ saver[s].touched \subseteq saver'[s].touched
          /\ up' => \A j \in Keys \ saver'[s].touched : Outlives(db, clock, db', clock', j)
      <4>1. saver'[s].touched = saver[s].touched \cup {k}
        BY <2>1, <2>3
      <4>2. saver[s].touched \subseteq saver'[s].touched /\ \A j \in Keys \ saver'[s].touched : j # k
        BY <4>1
      <4>3. UNCHANGED disk /\ clock <= clock' /\ TInv' /\ up
        BY <1>1 DEF WInv
      <4> QED
        BY <1>2, <4>2, <4>3
    <3> QED
      BY <2>1, <3>1, <3>2, StaysCurrent
  <2> QED
    BY <2>2, <2>3
<1>4. DumpAgrees'
  <2>1. /\ dump' = dump /\ (dump # None => files'[dump] = files[dump])
        /\ up' => up
        /\ late \subseteq late'
        /\ up' => \A j \in Keys \ late' : Outlives(db, clock, db', clock', j)
    BY <1>1, <1>2 DEF disk
  <2> QED
    BY <2>1, DumpStays DEF CInv
<1> QED
  BY <1>1, <1>3, <1>4 DEF CInv

\* A crash takes the database, and all savers but the child processes.
LEMMA CrashCurrent ==
  ASSUME CInv, WInv', Crash
  PROVE  CInv'
<1>1. UNCHANGED <<clock, disk, late>> /\ up' = FALSE /\ db' = Empty
  BY DEF Crash
<1>2. ASSUME NEW s \in Savers PROVE Faithful(s)' /\ Agrees(s)'
  <2>1. saver'[s] = IF s \in Children THEN saver[s] ELSE Rest
    BY DEF Crash
  <2>2. CASE s \in Children
    <3>1. saver'[s] = saver[s] /\ saver[s] \in Locals
      BY <2>1, <2>2 DEF CInv, WInv, TInv, TypeOK
    <3>2. SameBut(saver'[s], [saver[s] EXCEPT !.touched = saver'[s].touched])
      BY <3>1 DEF SameBut, Locals
    <3>3. UNCHANGED disk /\ TInv' /\ saver'[s].buf = saver[s].buf /\ saver[s].touched \subseteq saver'[s].touched
      BY <1>1, <3>1 DEF WInv
    <3>4. /\ clock <= clock'
          /\ up' => up
          /\ up' => \A k \in Keys \ saver'[s].touched : Outlives(db, clock, db', clock', k)
      BY <1>1 DEF CInv, WInv, TInv, TypeOK
    <3> QED
      BY <2>2, <3>2, <3>3, <3>4, StaysCurrent
  <2>3. CASE s \notin Children
    BY <2>1, <2>3, IdleCurrent DEF Rest
  <2> QED
    BY <2>2, <2>3
<1>3. \A s \in Savers \ Children : Idle(s)'
  BY DEF Crash, Idle, Rest
<1>4. DumpAgrees'
  <2>1. DumpFile' = DumpFile
    BY <1>1 DEF DumpFile, disk
  <2> QED
    BY <1>1, <2>1 DEF CInv, DumpAgrees, disk
<1> QED
  BY <1>1, <1>2, <1>3, <1>4 DEF CInv

\* A server that starts has just what the file shows, and what a child process
\* saves of the server before it is no longer anybody's.
LEMMA StartCurrent ==
  ASSUME CInv, WInv', Start
  PROVE  CInv'
<1>1. ~up /\ up' = TRUE /\ UNCHANGED <<clock, disk>> /\ db' = OnDisk /\ late' = {} /\ Touch(Keys)
  BY DEF Start
<1>2. \A s \in Savers \ Children : Idle(s)
  BY <1>1 DEF CInv
<1>3. ASSUME NEW s \in Savers PROVE Faithful(s)' /\ Agrees(s)'
  <2>1. /\ SameBut(saver'[s], [saver[s] EXCEPT !.touched = saver'[s].touched])
        /\ saver'[s].buf = saver[s].buf
        /\ saver'[s].touched = IF Idle(s) THEN saver[s].touched ELSE saver[s].touched \cup Keys
    BY <1>1, TouchTyped DEF CInv, WInv
  <2>2. CASE Idle(s)
    <3>1. saver'[s] = saver[s]
      BY <1>1, <2>2 DEF Touch
    <3> QED
      BY <2>2, <3>1, IdleCurrent DEF Idle
  <2>3. CASE ~Idle(s)
    <3>1. s \in Children
      BY <1>2, <2>3
    <3>2. saver[s] \in Locals /\ saver'[s] \in Locals
      BY DEF CInv, WInv, TInv, TypeOK
    <3>3. /\ saver'[s].pc = saver[s].pc /\ saver'[s].ino = saver[s].ino /\ saver'[s].at = saver[s].at
          /\ saver'[s].now = saver[s].now /\ saver'[s].mem = saver[s].mem
      BY <2>1, <3>2 DEF SameBut, Locals
    <3>4. files' = files /\ tmp' = tmp /\ Content(s)' = Content(s) /\ Memory(s)' = Memory(s)
      BY <1>1, <2>1, <3>1, <3>3 DEF disk, Content, Memory
    <3>5. Faithful(s)'
      BY <1>1, <3>3, <3>4 DEF CInv, Faithful, At
    <3>6. Agrees(s)'
      BY <2>1, <2>3 DEF Agrees
    <3> QED
      BY <3>5, <3>6
  <2> QED
    BY <2>2, <2>3
<1>4. DumpFile' = DumpFile /\ dump' = dump
  BY <1>1 DEF DumpFile, disk
<1>5. ASSUME NEW k \in Keys PROVE Shows(DumpFile, k, OnDisk, clock)
  <2>1. CASE dump = None
    BY <2>1, PersistenceAssumption DEF Shows, DumpFile, OnDisk, Empty, Has
  <2>2. CASE dump # None
    <3> DEFINE f == files[dump]
    <3>1. f \in Seq(Block) /\ Whole(f) /\ Sorted(f) /\ Counted(f)
      BY <2>2 DEF CInv, WInv, TInv, TypeOK, DumpWhole, Whole, DumpAgrees, DumpFile
    <3>2. DumpFile = f /\ OnDisk = Loaded(f)
      BY <2>2 DEF DumpFile, OnDisk
    <3> HIDE DEF f
    <3>3. \A o \in Object : Loaded(f)[k] = o <=> Has(f, k, o) /\ ~Expired(o, clock)
      BY <3>1, LoadedIs
    <3> QED
      BY <3>2, <3>3 DEF Shows
  <2> QED
    BY <2>1, <2>2
<1>6. DumpAgrees'
  BY <1>1, <1>4, <1>5 DEF CInv, DumpAgrees
<1> QED
  BY <1>1, <1>3, <1>6 DEF CInv

LEMMA InitCInv == Init => CInv
<1> SUFFICES ASSUME Init PROVE CInv
  OBVIOUS
<1>1. \A s \in Savers : saver[s].pc = "idle"
  BY DEF Init, Rest
<1>2. \A s \in Savers : Faithful(s) /\ Agrees(s)
  BY <1>1 DEF Faithful, Agrees, At
<1>3. dump = None /\ db = Empty /\ up = TRUE
  BY DEF Init
<1>4. DumpAgrees
  BY <1>3, PersistenceAssumption DEF DumpAgrees, DumpFile, Shows, Has, Empty
<1> QED
  BY <1>2, <1>3, <1>4, InitWInv DEF CInv

LEMMA StepCInv ==
  ASSUME "close" \notin Failures, OnlyForks
  PROVE  CInv /\ OneAtATime /\ AutosIdle /\ [Next]_vars => CInv'
<1> SUFFICES ASSUME CInv, OneAtATime, AutosIdle, [Next]_vars PROVE CInv'
  OBVIOUS
<1>1. WInv'
  BY StepWInv DEF CInv
<1>2. ASSUME NEW s \in Savers,
             \/ open_temp(s) \/ write_header(s) \/ write_entry(s) \/ write_end(s)
             \/ close_temp(s) \/ rename_temp(s) \/ unlink_temp(s)
      PROVE  CInv'
  <2>1. /\ Faithful(s)' /\ Agrees(s)' /\ DumpAgrees'
        /\ \A t \in Savers : t # s => saver'[t] = saver[t]
    BY <1>2, OpenCurrent, HeaderCurrent, EntryCurrent, EndCurrent, CloseCurrent, EndersCurrent
  <2>2. ~Idle(s) /\ up' = up
    BY <1>2 DEF open_temp, write_header, write_entry, write_end, close_temp, rename_temp, unlink_temp,
                Idle, At
  <2>3. \A t \in Savers : Faithful(t)' /\ Agrees(t)'
    BY <2>1, <2>2, OthersCurrent
  <2>4. (~up => \A t \in Savers \ Children : Idle(t))'
    BY <2>1, <2>2 DEF CInv, Idle
  <2> QED
    BY <1>1, <2>1, <2>3, <2>4 DEF CInv
<1>3. ASSUME NEW s \in Savers, save_command(s) \/ background_save(s)
      PROVE  CInv'
  BY <1>1, <1>3, BeginCurrent DEF save_command, background_save
<1>4. CASE \E k \in Keys, o \in Object \cup {None} : write_command(k, o)
  BY <1>1, <1>4, CommandCurrent
<1>5. CASE cleanup_expired_keys \/ Tick \/ SecondsPass \/ Crash \/ Start
  BY <1>1, <1>5, TimeCurrent, CrashCurrent, StartCurrent
<1>6. CASE UNCHANGED vars
  <2>1. /\ UNCHANGED <<up, clock, db, dump, late, saver, files, tmp>>
    BY <1>6 DEF vars
  <2>2. DumpAgrees'
    BY <2>1, DumpUntouched DEF CInv
  <2>3. \A s \in Savers : Faithful(s)' /\ Agrees(s)'
    BY <2>1, ZenonT(40) DEF CInv, Faithful, Agrees, At, Content, Memory
  <2> QED
    BY <1>1, <2>1, <2>2, <2>3 DEF CInv, Idle
<1>7. ASSUME NEW s \in AutoSavers PROVE ~auto_save(s) /\ ~auto_save_reset(s)
  <2>1. ~Due
    BY DEF Due, OnlyForks, NoAutoSaves
  <2>2. saver[s].pc = "idle"
    BY DEF AutosIdle, Idle
  <2> QED
    BY <2>1, <2>2 DEF auto_save, auto_save_reset, At
<1> QED
  BY <1>2, <1>3, <1>4, <1>5, <1>6, <1>7 DEF Next, Savers

\* What dump.rdb shows is what a server that starts now would have.
LEMMA ShowsOnDisk == CInv => DumpCurrent
<1> SUFFICES ASSUME CInv, up, NEW k \in Keys \ late PROVE OnDisk[k] = Live(db)[k]
  BY DEF DumpCurrent
<1>1. Shows(DumpFile, k, db, clock)
  BY DEF CInv, DumpAgrees
<1>2. OnDisk[k] \in Object \cup {None} /\ \A o \in Object : OnDisk[k] = o <=> db[k] = o /\ ~Expired(o, clock)
  <2>1. CASE dump = None
    <3>1. OnDisk[k] = None /\ \A o : ~Has(DumpFile, k, o)
      BY <2>1 DEF OnDisk, Empty, DumpFile, Has
    <3> QED
      BY <1>1, <3>1, PersistenceAssumption DEF Shows
  <2>2. CASE dump # None
    <3> DEFINE f == files[dump]
    <3>1. f \in Seq(Block) /\ Whole(f) /\ Sorted(f) /\ Counted(f)
      BY <2>2 DEF CInv, WInv, TInv, TypeOK, DumpWhole, Whole, DumpAgrees, DumpFile
    <3>2. DumpFile = f /\ OnDisk = Loaded(f)
      BY <2>2 DEF DumpFile, OnDisk
    <3> HIDE DEF f
    <3>3. \A o \in Object : Loaded(f)[k] = o <=> Has(f, k, o) /\ ~Expired(o, clock)
      BY <3>1, LoadedIs
    <3>4. Loaded(f)[k] \in Object \cup {None}
      BY <3>1, LoadedTyped
    <3> QED
      BY <1>1, <3>2, <3>3, <3>4 DEF Shows
  <2> QED
    BY <2>1, <2>2
<1>3. db[k] \in Object \cup {None} /\ Live(db)[k] = IF Expired(db[k], clock) THEN None ELSE db[k]
  BY DEF CInv, WInv, TInv, TypeOK, Live
<1> QED
  BY <1>2, <1>3, PersistenceAssumption

\* In the event loop without automatic saves, and with the conditions of
\* DumpIsWhole, SAVE and BGSAVE keep dump.rdb current across crashes, restarts,
\* expiry and failures of fopen, fwrite and rename: but for the keys written since
\* the last save that succeeded began, a server that starts now has what clients
\* could see.
THEOREM DumpIsCurrent ==
  ASSUME "close" \notin Failures, OnlyForks
  PROVE  Spec /\ []OneAtATime => []DumpCurrent
<1>1. CInv /\ OneAtATime /\ AutosIdle /\ [Next]_vars => CInv'
  BY StepCInv
<1>2. NoAutoSaves
  BY DEF OnlyForks
<1>3. Spec => []AutosIdle
  BY <1>2, AutosInvariance
<1>4. Spec /\ []OneAtATime => []CInv
  BY <1>1, <1>3, InitCInv, PTL DEF Spec
<1> QED
  BY <1>4, ShowsOnDisk, PTL

\* Where only SAVE saves, dump.rdb is current without a hypothesis on how saves
\* interleave, for any number of clients.
THEOREM SaveIsCurrent ==
  ASSUME "close" \notin Failures, OnlyForks, Children = {}
  PROVE  Spec => []DumpCurrent
<1>1. Spec => []OneAtATime
  BY SavesExclude
<1>2. Spec /\ []OneAtATime => []DumpCurrent
  BY DumpIsCurrent
<1> QED
  BY <1>1, <1>2, PTL

=============================================================================
