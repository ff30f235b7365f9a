------------------------- MODULE DictRefinementProofs -------------------------
(***************************************************************************)
(* For every hash function, table size, limit and clock: the hash table of *)
(* Dict implements the map Keyspace describes.                             *)
(***************************************************************************)
EXTENDS DictProofs

\* Every deadline in the table is one a client asked for while the clock ran.
DeadlinesKnown == \A e \in Entries : e.expire \in AllDeadlines

RInv ==
  /\ MInv
  /\ now \in StartTime .. MaxTime
  /\ DeadlinesKnown

\* s maps the key of each entry of E to its object and every other key to None.
Shows(s, E) ==
  /\ s = [k \in Keys |-> s[k]]
  /\ \A e \in E : s[e.key] = Object(e) /\ s[e.key] # None
  /\ \A k \in Keys : (\A e \in E : e.key # k) => s[k] = None

\* E and F have the same entries for every key but k.
SameBut(k, E, F) == \A e \in Entry : e.key # k => (e \in E <=> e \in F)

\* A search for k in chain c returns o: the object of an entry of k, or None.
Finds(c, k, o) ==
  \/ \E e \in c : e.key = k /\ o = Object(e)
  \/ (\A e \in c : e.key # k) /\ o = None

-----------------------------------------------------------------------------
(* Lemmas about the view                                                   *)

\* An object is not None.
LEMMA ObjectType ==
  ASSUME NEW e \in Entry
  PROVE  Object(e) # None
BY DictAssumption DEF Object, Entry

\* In a table where every entry is in the chain of its key and keys are unique,
\* searches show all entries and nothing else.
LEMMA SearchShows ==
  ASSUME NEW n \in Nat \ {0}, NEW t \in [0 .. n - 1 -> SUBSET Entry], Placed(t, n),
         Unique(EntriesOf(t, n)),
         NEW s, s = [k \in Keys |-> s[k]],
         \A k \in Keys : Finds(t[BucketOf(k, n - 1)], k, s[k])
  PROVE  Shows(s, EntriesOf(t, n))
<1>1. ASSUME NEW e \in EntriesOf(t, n)
      PROVE  s[e.key] = Object(e) /\ s[e.key] # None
  <2> DEFINE c == t[BucketOf(e.key, n - 1)]
  <2>1. e \in Entry /\ e \in c /\ e.key \in Keys
    BY InItsChain DEF Entry
  <2>2. c \subseteq EntriesOf(t, n)
    BY <2>1, BucketRange DEF EntriesOf
  <2>3. Finds(c, e.key, s[e.key])
    BY <2>1
  <2> HIDE DEF c
  <2>4. PICK f \in c : f.key = e.key /\ s[e.key] = Object(f)
    BY <2>1, <2>3 DEF Finds
  <2>5. f = e
    BY <2>2, <2>4 DEF Unique
  <2> QED
    BY <2>1, <2>4, <2>5, ObjectType
<1>2. ASSUME NEW k \in Keys, \A e \in EntriesOf(t, n) : e.key # k
      PROVE  s[k] = None
  <2>1. t[BucketOf(k, n - 1)] \subseteq EntriesOf(t, n)
    BY BucketRange DEF EntriesOf
  <2> QED
    BY <1>2, <2>1 DEF Finds
<1> QED
  BY <1>1, <1>2 DEF Shows

\* What searches show now, ...
LEMMA StoreShows ==
  ASSUME IInv
  PROVE  Shows(Store, Entries)
<1>1. ASSUME NEW k \in Keys
      PROVE  Finds(table[BucketOf(k, size - 1)], k, Store[k])
  <2>1. Found(k) = {e \in table[BucketOf(k, size - 1)] : e.key = k}
    BY ToParts DEF Found, Index
  <2>2. Found(k) = {} \/ (CHOOSE e \in Found(k) : TRUE) \in Found(k)
    OBVIOUS
  <2>3. Store[k] = IF Found(k) = {} THEN None ELSE Object(CHOOSE e \in Found(k) : TRUE)
    BY DEF Store
  <2> QED
    BY <2>1, <2>2, <2>3 DEF Finds
<1>2. Store = [k \in Keys |-> Store[k]]
  BY DEF Store
<1> HIDE DEF Store
<1>3. /\ size \in Nat \ {0}
      /\ table \in [0 .. size - 1 -> SUBSET Entry]
      /\ Placed(table, size)
      /\ Unique(EntriesOf(table, size))
      /\ Entries = EntriesOf(table, size)
  BY ToParts DEF TypeOK
<1> QED
  BY <1>1, <1>2, <1>3, SearchShows

\* ... and after a step.
LEMMA StoreShowsNext ==
  ASSUME IInv'
  PROVE  Shows(Store', Entries')
<1>1. /\ size' \in Nat \ {0}
      /\ mask' = size' - 1
      /\ table' \in [0 .. size' - 1 -> SUBSET Entry]
      /\ Placed(table', size')
      /\ Unique(EntriesOf(table', size'))
      /\ Entries' = EntriesOf(table', size')
  BY DEF IInv, TypeOK, ChainsExact, Placed, Unique, EntriesOf, Entries, Index
<1>2. ASSUME NEW k \in Keys
      PROVE  Finds(table'[BucketOf(k, size' - 1)], k, Store'[k])
  <2>1. Found(k)' = {e \in table'[BucketOf(k, size' - 1)] : e.key = k}
    BY <1>1 DEF Found, Index
  <2>2. Found(k)' = {} \/ (CHOOSE e \in Found(k)' : TRUE) \in Found(k)'
    OBVIOUS
  <2>3. Store'[k] = IF Found(k)' = {} THEN None ELSE Object(CHOOSE e \in Found(k)' : TRUE)
    BY DEF Store
  <2> QED
    BY <2>1, <2>2, <2>3 DEF Finds
<1>3. Store' = [k \in Keys |-> Store'[k]]
  BY DEF Store
<1> QED
  BY <1>1, <1>2, <1>3, SearchShows

\* When the entries of the other keys stay what they are, so do their objects.
LEMMA OthersStay ==
  ASSUME NEW E, E \subseteq Entry, NEW F, F \subseteq Entry, NEW s, NEW u,
         Shows(s, E), Shows(u, F), NEW k \in Keys,
         SameBut(k, E, F)
  PROVE  u = [s EXCEPT ![k] = u[k]]
<1>1. ASSUME NEW j \in Keys, j # k PROVE u[j] = s[j]
  <2>1. CASE \E e \in E : e.key = j
    BY <1>1, <2>1 DEF Shows, SameBut
  <2>2. CASE \A e \in E : e.key # j
    BY <1>1, <2>2 DEF Shows, SameBut
  <2> QED
    BY <2>1, <2>2
<1> QED
  BY <1>1 DEF Shows

\* The objects take the memory of their entries.
LEMMA SameMemory ==
  ASSUME IInv, IsFiniteSet(Bytes(Entries))
  PROVE  KS!Memory(Store) = Weight(Entries)
<1> DEFINE present == {k \in Keys : Store[k] # None}
           bytes == UNION {{k} \X (1 .. SizeOf[Store[k].val]) : k \in present}
           ByKey == [b \in Bytes(Entries) |-> <<b[1].key, b[2]>>]
<1>1. Shows(Store, Entries)
  BY StoreShows
<1>2. Entries \subseteq Entry /\ Unique(Entries)
  BY ToParts
<1>3. KS!Memory(Store) = Cardinality(bytes)
  <2>1. {k \in Keys : KS!Present(Store, k)} = present
    BY DEF KS!Present
  <2>2. KS!Memory(Store)
          = Cardinality(UNION {{k} \X (1 .. SizeOf[Store[k].val]) :
                               k \in {j \in Keys : KS!Present(Store, j)}})
    BY DEF KS!Memory, KS!Cardinality, Cardinality
  <2> HIDE DEF present
  <2>3. UNION {{k} \X (1 .. SizeOf[Store[k].val]) : k \in {j \in Keys : KS!Present(Store, j)}}
          = bytes
    BY <2>1
  <2> QED
    BY <2>2, <2>3
<1>4. ASSUME NEW e \in Entries
      PROVE  e.key \in present /\ Store[e.key].val = e.val
  <2>1. Store[e.key] = Object(e) /\ Store[e.key] # None
    BY <1>1 DEF Shows
  <2> QED
    BY <1>2, <2>1 DEF Entry, Object
<1>5. ASSUME NEW k \in present
      PROVE  \E e \in Entries : e.key = k
  BY <1>1 DEF Shows
<1> HIDE DEF present
<1>6. ASSUME NEW b \in Bytes(Entries)
      PROVE  /\ b[1] \in Entries /\ b = <<b[1], b[2]>>
             /\ ByKey[b] = <<b[1].key, b[2]>>
             /\ ByKey[b] \in bytes
  <2>1. PICK e \in Entries : b \in {e} \X (1 .. SizeOf[e.val])
    BY DEF Bytes
  <2>2. b[1] = e /\ b[2] \in 1 .. SizeOf[e.val] /\ b = <<b[1], b[2]>>
    BY <2>1
  <2>3. <<e.key, b[2]>> \in {e.key} \X (1 .. SizeOf[Store[e.key].val])
    BY <1>4, <2>2
  <2> QED
    BY <1>4, <2>2, <2>3
<1>7. ByKey \in [Bytes(Entries) -> bytes]
  BY <1>6
<1>8. ASSUME NEW b \in Bytes(Entries), NEW c \in Bytes(Entries), ByKey[b] = ByKey[c]
      PROVE  b = c
  <2>1. b[1].key = c[1].key /\ b[2] = c[2]
    BY <1>6, <1>8
  <2>2. b[1] = c[1]
    BY <1>2, <1>6, <2>1 DEF Unique
  <2> QED
    BY <1>6, <2>1, <2>2
<1>9. ASSUME NEW d \in bytes
      PROVE  \E b \in Bytes(Entries) : ByKey[b] = d
  <2>1. PICK k \in present : d \in {k} \X (1 .. SizeOf[Store[k].val])
    OBVIOUS
  <2>2. PICK e \in Entries : e.key = k
    BY <1>5
  <2>3. Store[k].val = e.val
    BY <1>4, <2>2
  <2>4. d = <<k, d[2]>> /\ d[2] \in 1 .. SizeOf[e.val]
    BY <2>1, <2>3
  <2> DEFINE b == <<e, d[2]>>
  <2>5. b \in Bytes(Entries)
    BY <2>4 DEF Bytes
  <2>6. ByKey[b] = <<e.key, d[2]>>
    BY <2>5
  <2> QED
    BY <2>2, <2>4, <2>5, <2>6
<1> HIDE DEF ByKey, bytes
<1>10. ByKey \in Bijection(Bytes(Entries), bytes)
  BY <1>7, <1>8, <1>9 DEF Bijection, Injection, Surjection, IsInjective
<1>11. ExistsBijection(Bytes(Entries), bytes)
  BY <1>10 DEF ExistsBijection
<1> QED
  BY <1>3, <1>11, FS_Bijection DEF Weight

-----------------------------------------------------------------------------
(* The invariant                                                           *)

\* What dict_add and EXPIRE write is a deadline of the specification.
LEMMA KnownDeadlines ==
  ASSUME RInv, NEW k \in Keys
  PROVE  /\ \A t \in TTLs : Deadline(t) \in AllDeadlines
         /\ DeadlinesFor(k) \subseteq AllDeadlines
<1>1. \A t \in TTLs : Deadline(t) \in AllDeadlines
  BY DEF RInv, Deadline, AllDeadlines
<1>2. 0 \in AllDeadlines
  BY DEF AllDeadlines
<1> QED
  BY <1>1, <1>2 DEF DeadlinesFor, RInv, DeadlinesKnown

LEMMA InitRInv == Init => RInv
<1> SUFFICES ASSUME Init PROVE RInv
  OBVIOUS
<1>1. MInv
  BY InitMInv
<1>2. now \in StartTime .. MaxTime
  BY DictAssumption DEF Init
<1>3. Entries = {}
  BY DEF Init, Entries
<1> QED
  BY <1>1, <1>2, <1>3 DEF RInv, DeadlinesKnown

\* Only Tick moves the clock.
LEMMA ClockMoves ==
  ASSUME [Next]_vars
  PROVE  now' = now \/ (now < MaxTime /\ now' = now + 1)
<1>1. ASSUME NEW k \in Keys, NEW v \in Values, NEW exp \in DeadlinesFor(k), dict_add(k, v, exp)
      PROVE  now' = now
  BY <1>1 DEF dict_add
<1>2. ASSUME NEW k \in Keys, dict_add_fails(k) \/ dict_get(k) \/ dict_delete(k)
      PROVE  now' = now
  BY <1>2 DEF dict_add_fails, dict_get, dict_delete, Unlink, Update
<1>3. ASSUME NEW k \in Keys, NEW t \in TTLs, expire_command(k, t)
      PROVE  now' = now
  BY <1>3 DEF expire_command, Update
<1>4. ASSUME dict_clear_expired \/ dict_evict_lru_if_needed \/ UNCHANGED vars
      PROVE  now' = now
  BY <1>4 DEF dict_clear_expired, dict_evict_lru_if_needed, Unlink, vars
<1> QED
  BY <1>1, <1>2, <1>3, <1>4 DEF Next, Tick

\* Only calls that are asked for a deadline bring one into the table.
LEMMA StepRInv == RInv /\ [Next]_vars => RInv'
<1> SUFFICES ASSUME RInv, [Next]_vars PROVE RInv'
  OBVIOUS
<1>1. MInv /\ MInv' /\ IInv
  BY StepMInv DEF RInv, MInv
<1>2. now' \in StartTime .. MaxTime
  <2>1. now \in StartTime .. MaxTime /\ StartTime \in Nat /\ MaxTime \in Nat
    BY DictAssumption DEF RInv
  <2>2. now' = now \/ (now < MaxTime /\ now' = now + 1)
    BY ClockMoves
  <2> QED
    BY <2>1, <2>2
<1>3. ASSUME Entries' \subseteq Entries
      PROVE  DeadlinesKnown'
  <2>1. AllDeadlines' = AllDeadlines
    OBVIOUS
  <2> QED
    BY <1>3 DEF RInv, DeadlinesKnown
<1>4. ASSUME NEW f, f.expire \in AllDeadlines, Entries' \subseteq Entries \cup {f}
      PROVE  DeadlinesKnown'
  BY <1>4 DEF RInv, DeadlinesKnown
<1>5. ASSUME NEW k \in Keys, NEW v \in Values, NEW exp \in DeadlinesFor(k), dict_add(k, v, exp)
      PROVE  DeadlinesKnown'
  <2> DEFINE new == [key |-> k, val |-> v, expire |-> exp, last_access |-> now]
  <2>1. \/ \E old \in Entries : Entries' = (Entries \ {old}) \cup {new}
        \/ Entries' = Entries \cup {new}
    BY <1>1, <1>5, AddEffect
  <2>2. new.expire \in AllDeadlines
    BY KnownDeadlines
  <2> HIDE DEF new
  <2>3. Entries' \subseteq Entries \cup {new}
    BY <2>1
  <2> QED
    BY <1>4, <2>2, <2>3
<1>6. ASSUME NEW k \in Keys, dict_add_fails(k)
      PROVE  DeadlinesKnown'
  BY <1>1, <1>3, <1>6, AddFailsEffect
<1>7. ASSUME NEW i \in 0 .. size - 1, NEW e \in table[i], Unlink(i, e)
      PROVE  DeadlinesKnown'
  BY <1>1, <1>3, <1>7, UnlinkEffect
<1>8. ASSUME NEW k \in Keys, dict_get(k)
      PROVE  DeadlinesKnown'
  <2>1. PICK e \in table[Index(k)] :
          Unlink(Index(k), e) \/ Update(Index(k), e, [e EXCEPT !.last_access = now])
    BY <1>8 DEF dict_get
  <2>2. Index(k) \in 0 .. size - 1 /\ e \in Entry /\ e \in Entries
    BY <1>1, ChainOf
  <2>3. CASE Unlink(Index(k), e)
    BY <1>7, <2>2, <2>3
  <2>4. CASE Update(Index(k), e, [e EXCEPT !.last_access = now])
    <3> DEFINE f == [e EXCEPT !.last_access = now]
    <3>1. f \in Entry /\ f.key = e.key /\ f.expire = e.expire
      BY <1>1, <2>2 DEF Entry, IInv, TypeOK
    <3>2. Entries' \subseteq Entries \cup {f}
      BY <1>1, <2>2, <2>4, <3>1, UpdateEffect
    <3>3. f.expire \in AllDeadlines
      BY <2>2, <3>1 DEF RInv, DeadlinesKnown
    <3> QED
      BY <1>4, <3>2, <3>3
  <2> QED
    BY <2>1, <2>3, <2>4
<1>9. ASSUME NEW k \in Keys, dict_delete(k)
      PROVE  DeadlinesKnown'
  <2>1. PICK e \in table[Index(k)] : Unlink(Index(k), e)
    BY <1>9 DEF dict_delete
  <2> QED
    BY <1>1, <1>7, <2>1, ChainOf
<1>10. ASSUME NEW k \in Keys, NEW t \in TTLs, expire_command(k, t)
       PROVE  DeadlinesKnown'
  <2>1. PICK e \in table[Index(k)] :
          Update(Index(k), e, [e EXCEPT !.last_access = now, !.expire = Deadline(t)])
    BY <1>10 DEF expire_command
  <2> DEFINE f == [e EXCEPT !.last_access = now, !.expire = Deadline(t)]
  <2>2. Index(k) \in 0 .. size - 1 /\ e \in Entry /\ e \in Entries
    BY <1>1, ChainOf
  <2>3. Deadline(t) \in Nat /\ now \in Nat
    BY <1>1, DeadlineType DEF IInv, TypeOK
  <2>4. f \in Entry /\ f.key = e.key /\ f.expire = Deadline(t)
    BY <2>2, <2>3 DEF Entry
  <2>5. Entries' \subseteq Entries \cup {f}
    BY <1>1, <2>1, <2>2, <2>4, UpdateEffect
  <2> QED
    BY <1>4, <2>4, <2>5, KnownDeadlines
<1>11. ASSUME dict_clear_expired
       PROVE  DeadlinesKnown'
  BY <1>1, <1>3, <1>11, SweepEffect
<1>12. ASSUME dict_evict_lru_if_needed
       PROVE  DeadlinesKnown'
  <2>1. CASE \E i \in DOMAIN table : \E e \in table[i] : Unlink(i, e)
    <3>1. DOMAIN table = 0 .. size - 1
      BY <1>1 DEF IInv, TypeOK
    <3> QED
      BY <1>7, <2>1, <3>1
  <2>2. CASE UNCHANGED <<table, size>>
    BY <1>3, <2>2 DEF Entries
  <2> QED
    BY <1>12, <2>1, <2>2 DEF dict_evict_lru_if_needed
<1>13. ASSUME Tick \/ UNCHANGED vars
       PROVE  DeadlinesKnown'
  BY <1>3, <1>13 DEF Tick, vars, Entries
<1> QED
  BY <1>1, <1>2, <1>5, <1>6, <1>8, <1>9, <1>10, <1>11, <1>12, <1>13 DEF Next, RInv

-----------------------------------------------------------------------------
(* Every call is a step of Keyspace, or none                               *)

LEMMA InitShows == Init => KS!Init
<1> SUFFICES ASSUME Init PROVE KS!Init
  OBVIOUS
<1>1. Entries = {}
  BY DEF Init, Entries
<1>2. Shows(Store, Entries)
  BY InitInv, StoreShows
<1>3. Store = [k \in Keys |-> None]
  BY <1>1, <1>2 DEF Shows
<1> QED
  BY <1>3 DEF Init, KS!Init

\* An entry that is unlinked was the object of its key, which then has none.
LEMMA UnlinkShows ==
  ASSUME IInv, IInv', NEW i \in 0 .. size - 1, NEW e \in table[i], Unlink(i, e)
  PROVE  /\ e \in Entry /\ e \in Entries /\ e.key \in Keys
         /\ Store[e.key] = Object(e) /\ Store[e.key] # None
         /\ KS!Becomes(e.key, None)
<1>1. e \in Entries /\ Entries' = Entries \ {e} /\ now' = now
  BY UnlinkEffect DEF Unlink
<1>2. Entries \subseteq Entry /\ Unique(Entries)
  BY ToParts
<1>3. e \in Entry /\ e.key \in Keys
  BY <1>1, <1>2 DEF Entry
<1>4. Shows(Store, Entries) /\ Shows(Store', Entries')
  BY StoreShows, StoreShowsNext
<1>5. Store[e.key] = Object(e) /\ Store[e.key] # None
  BY <1>1, <1>4 DEF Shows
<1>6. Store'[e.key] = None
  BY <1>1, <1>2, <1>3, <1>4 DEF Shows, Unique
<1>7. SameBut(e.key, Entries, Entries') /\ Entries' \subseteq Entry
  BY <1>1, <1>2 DEF SameBut
<1>8. Store' = [Store EXCEPT ![e.key] = Store'[e.key]]
  BY <1>2, <1>3, <1>4, <1>7, OthersStay
<1> QED
  BY <1>1, <1>3, <1>5, <1>6, <1>8 DEF KS!Becomes

\* Fields that are written to an entry become fields of the object.
LEMMA UpdateShows ==
  ASSUME IInv, IInv', NEW i \in 0 .. size - 1, NEW e \in table[i],
         NEW f \in Entry, f.key = e.key, Update(i, e, f)
  PROVE  /\ e \in Entry /\ e \in Entries /\ e.key \in Keys
         /\ Store[e.key] = Object(e) /\ Store[e.key] # None
         /\ KS!Becomes(e.key, Object(f))
<1>1. e \in Entries /\ Entries' = (Entries \ {e}) \cup {f} /\ now' = now
  BY UpdateEffect DEF Update
<1>2. Entries \subseteq Entry
  BY ToParts
<1>3. e \in Entry /\ e.key \in Keys
  BY <1>1, <1>2 DEF Entry
<1>4. Shows(Store, Entries) /\ Shows(Store', Entries')
  BY StoreShows, StoreShowsNext
<1>5. Store[e.key] = Object(e) /\ Store[e.key] # None
  BY <1>1, <1>4 DEF Shows
<1>6. Store'[e.key] = Object(f)
  BY <1>1, <1>4 DEF Shows
<1>7. SameBut(e.key, Entries, Entries') /\ Entries' \subseteq Entry
  BY <1>1, <1>2 DEF SameBut
<1>8. Store' = [Store EXCEPT ![e.key] = Store'[e.key]]
  BY <1>2, <1>3, <1>4, <1>7, OthersStay, ZenonT(30)
<1> QED
  BY <1>1, <1>3, <1>5, <1>6, <1>8 DEF KS!Becomes

\* dict_add is Put, whether it replaces, adds or resizes.
LEMMA AddShows ==
  ASSUME IInv, IInv', NEW k \in Keys, NEW v \in Values, NEW exp \in DeadlinesFor(k),
         dict_add(k, v, exp)
  PROVE  KS!Put(k, v, exp)
<1> DEFINE new == [key |-> k, val |-> v, expire |-> exp, last_access |-> now]
<1>1. new.key = k /\ Object(new) = [val |-> v, expire |-> exp, last_access |-> now]
  BY DEF Object
<1>2. /\ new \in Entry
      /\ \/ \E old \in Entries : old.key = k /\ Entries' = (Entries \ {old}) \cup {new}
         \/ Entries' = Entries \cup {new}
  BY AddEffect
<1> HIDE DEF new
<1>3. now' = now
  BY DEF dict_add
<1>4. Entries \subseteq Entry
  BY ToParts
<1>5. /\ new \in Entries' /\ Entries' \subseteq Entry
      /\ SameBut(k, Entries, Entries')
  BY <1>1, <1>2, <1>4 DEF SameBut
<1>6. Shows(Store, Entries) /\ Shows(Store', Entries')
  BY StoreShows, StoreShowsNext
<1>7. Store'[k] = Object(new)
  BY <1>1, <1>5, <1>6 DEF Shows
<1>8. Store' = [Store EXCEPT ![k] = Store'[k]]
  BY <1>4, <1>5, <1>6, OthersStay
<1> QED
  BY <1>1, <1>3, <1>7, <1>8 DEF KS!Put, KS!Becomes

\* Searches see no difference between tables of the same entries.
LEMMA SameShows ==
  ASSUME IInv, IInv', Entries' = Entries
  PROVE  Store' = Store
<1>1. Shows(Store, Entries) /\ Shows(Store', Entries)
  BY StoreShows, StoreShowsNext
<1>2. ASSUME NEW k \in Keys PROVE Store'[k] = Store[k]
  <2>1. CASE \E e \in Entries : e.key = k
    BY <1>1, <2>1 DEF Shows
  <2>2. CASE \A e \in Entries : e.key # k
    BY <1>1, <2>2 DEF Shows
  <2> QED
    BY <2>1, <2>2
<1> QED
  BY <1>1, <1>2 DEF Shows

\* The sweep forgets exactly the expired objects.
LEMMA SweepShows ==
  ASSUME IInv, IInv', dict_clear_expired
  PROVE  KS!Sweep
<1>1. Entries' = Entries \ Swept /\ now' = now
  BY SweepEffect DEF dict_clear_expired
<1>2. Entries \subseteq Entry /\ Unique(Entries)
  BY ToParts
<1>3. Shows(Store, Entries) /\ Shows(Store', Entries')
  BY StoreShows, StoreShowsNext
<1>4. ASSUME NEW k \in Keys
      PROVE  Store'[k] = IF KS!Present(Store, k) /\ KS!Expired(Store[k], now)
                         THEN None ELSE Store[k]
  <2>1. CASE \E e \in Entries : e.key = k
    <3>1. PICK e \in Entries : e.key = k
      BY <2>1
    <3>2. Store[k] = Object(e) /\ Store[k] # None
      BY <1>3, <3>1 DEF Shows
    <3>3. KS!Expired(Store[k], now) <=> Expired(e, now)
      BY <1>2, <3>2 DEF KS!Expired, Expired, Object, Entry
    <3>4. CASE Expired(e, now)
      <4>1. \A f \in Entries' : f.key # k
        BY <1>1, <1>2, <3>1, <3>4 DEF Swept, Unique
      <4> QED
        BY <1>3, <3>2, <3>3, <3>4, <4>1 DEF Shows, KS!Present
    <3>5. CASE ~Expired(e, now)
      <4>1. e \in Entries'
        BY <1>1, <3>5 DEF Swept
      <4> QED
        BY <1>3, <3>1, <3>2, <3>3, <3>5, <4>1 DEF Shows
    <3> QED
      BY <3>4, <3>5
  <2>2. CASE \A e \in Entries : e.key # k
    <3>1. Store[k] = None /\ Store'[k] = None
      BY <1>1, <1>3, <2>2 DEF Shows
    <3> QED
      BY <3>1
  <2> QED
    BY <2>1, <2>2
<1>5. Store' = [k \in Keys |-> Store'[k]]
  BY <1>3 DEF Shows
<1> QED
  BY <1>1, <1>4, <1>5 DEF KS!Sweep

\* Over the limit, and nothing used longer ago: an eviction is a Drop.
LEMMA EvictShows ==
  ASSUME RInv, IInv', NEW i \in 0 .. size - 1, NEW e \in table[i], e \in Oldest(Entries),
         evicting, Unlink(i, e)
  PROVE  KS!Drop(e.key)
<1>1. IInv /\ MInv
  BY DEF RInv, MInv
<1>2. /\ e.key \in Keys
      /\ Store[e.key] = Object(e) /\ Store[e.key] # None
      /\ KS!Becomes(e.key, None)
  BY <1>1, UnlinkShows
<1>3. MaxMemory # 0 /\ KS!Memory(Store) > MaxMemory
  BY <1>1, SameMemory DEF MInv, MemoryExact, EvictsOverLimit, OverLimit
<1>4. ASSUME NEW j \in Keys, KS!Present(Store, j)
      PROVE  Store[e.key].last_access <= Store[j].last_access
  <2>1. Shows(Store, Entries)
    BY <1>1, StoreShows
  <2>2. Store[j] # None
    BY <1>4 DEF KS!Present
  <2>3. PICK f \in Entries : f.key = j
    BY <2>1, <2>2 DEF Shows
  <2>4. Store[j] = Object(f)
    BY <2>1, <2>3 DEF Shows
  <2>5. e.last_access <= f.last_access
    BY <2>3 DEF Oldest
  <2> QED
    BY <1>2, <2>4, <2>5 DEF Object
<1> QED
  BY <1>2, <1>3, <1>4 DEF KS!Drop, KS!Present

\* Every step of Dict is one of Keyspace or leaves what searches find alone.
LEMMA StepShows == RInv /\ RInv' /\ [Next]_vars => [KS!Next]_(KS!vars)
<1> SUFFICES ASSUME RInv, RInv', [Next]_vars PROVE [KS!Next]_(KS!vars)
  OBVIOUS
<1>1. IInv /\ IInv' /\ MInv
  BY DEF RInv, MInv
<1>2. ASSUME Entries' = Entries, now' = now
      PROVE  UNCHANGED KS!vars
  BY <1>1, <1>2, SameShows DEF KS!vars
<1>3. ASSUME NEW k \in Keys, NEW v \in Values, NEW exp \in DeadlinesFor(k), dict_add(k, v, exp)
      PROVE  KS!Next
  <2>1. KS!Put(k, v, exp)
    BY <1>1, <1>3, AddShows
  <2>2. exp \in AllDeadlines
    BY KnownDeadlines
  <2> QED
    BY <2>1, <2>2 DEF KS!Next
<1>4. ASSUME NEW k \in Keys, dict_add_fails(k)
      PROVE  UNCHANGED KS!vars
  <2>1. now' = now
    BY <1>4 DEF dict_add_fails
  <2> QED
    BY <1>1, <1>2, <1>4, <2>1, AddFailsEffect
<1>5. ASSUME NEW k \in Keys, dict_get(k)
      PROVE  KS!Next
  <2>1. PICK e \in table[Index(k)] :
          /\ e.key = k
          /\ \/ Expired(e, now) /\ Unlink(Index(k), e)
             \/ ~Expired(e, now) /\ Update(Index(k), e, [e EXCEPT !.last_access = now])
    BY <1>5 DEF dict_get
  <2>2. Index(k) \in 0 .. size - 1 /\ e \in Entry
    BY <1>1, ChainOf
  <2>3. CASE Expired(e, now) /\ Unlink(Index(k), e)
    <3>1. /\ Store[k] = Object(e) /\ Store[k] # None
          /\ KS!Becomes(k, None)
      BY <1>1, <2>1, <2>2, <2>3, UnlinkShows
    <3>2. KS!Expired(Store[k], now)
      BY <2>3, <3>1 DEF KS!Expired, Expired, Object
    <3>3. KS!Read(k)
      BY <3>1, <3>2 DEF KS!Read, KS!Present
    <3> QED
      BY <3>3 DEF KS!Next
  <2>4. CASE ~Expired(e, now) /\ Update(Index(k), e, [e EXCEPT !.last_access = now])
    <3> DEFINE f == [e EXCEPT !.last_access = now]
    <3>1. f \in Entry /\ f.key = e.key
      BY <1>1, <2>2 DEF Entry, IInv, TypeOK
    <3>2. Object(f) = [Object(e) EXCEPT !.last_access = now]
      BY <2>2 DEF Object, Entry
    <3> HIDE DEF f
    <3>3. Update(Index(k), e, f)
      BY <2>4 DEF f
    <3>4. /\ Store[k] = Object(e) /\ Store[k] # None
          /\ KS!Becomes(k, Object(f))
      BY <1>1, <2>1, <2>2, <3>1, <3>3, UpdateShows
    <3>5. ~KS!Expired(Store[k], now)
      BY <2>4, <3>4 DEF KS!Expired, Expired, Object
    <3>6. KS!Read(k)
      BY <3>2, <3>4, <3>5 DEF KS!Read, KS!Present
    <3> QED
      BY <3>6 DEF KS!Next
  <2> QED
    BY <2>1, <2>3, <2>4
<1>6. ASSUME NEW k \in Keys, dict_delete(k)
      PROVE  KS!Next
  <2>1. PICK e \in table[Index(k)] : e.key = k /\ Unlink(Index(k), e)
    BY <1>6 DEF dict_delete
  <2>2. Store[k] # None /\ KS!Becomes(k, None)
    BY <1>1, <2>1, ChainOf, UnlinkShows
  <2>3. KS!Remove(k)
    BY <2>2 DEF KS!Remove, KS!Present
  <2> QED
    BY <2>3 DEF KS!Next
<1>7. ASSUME NEW k \in Keys, NEW t \in TTLs, expire_command(k, t)
      PROVE  KS!Next
  <2>1. PICK e \in table[Index(k)] :
          /\ e.key = k /\ ~Expired(e, now)
          /\ Update(Index(k), e, [e EXCEPT !.last_access = now, !.expire = Deadline(t)])
    BY <1>7 DEF expire_command
  <2> DEFINE f == [e EXCEPT !.last_access = now, !.expire = Deadline(t)]
  <2>2. Index(k) \in 0 .. size - 1 /\ e \in Entry
    BY <1>1, ChainOf
  <2>3. Deadline(t) \in Nat /\ now \in Nat /\ Deadline(t) \in AllDeadlines
    BY <1>1, DeadlineType, KnownDeadlines DEF IInv, TypeOK
  <2>4. f \in Entry /\ f.key = e.key
    BY <2>2, <2>3 DEF Entry
  <2>5. Object(f) = [val |-> Object(e).val, expire |-> Deadline(t), last_access |-> now]
    <3>1. f.val = e.val /\ f.expire = Deadline(t) /\ f.last_access = now
      BY <2>2 DEF Entry
    <3> QED
      BY <3>1 DEF Object
  <2> HIDE DEF f
  <2>6. Update(Index(k), e, f)
    BY <2>1 DEF f
  <2>7. /\ Store[k] = Object(e) /\ Store[k] # None
        /\ KS!Becomes(k, Object(f))
    BY <1>1, <2>1, <2>2, <2>4, <2>6, UpdateShows
  <2>8. ~KS!Expired(Store[k], now)
    BY <2>1, <2>7 DEF KS!Expired, Expired, Object
  <2>9. KS!SetDeadline(k, Deadline(t))
    BY <2>5, <2>7, <2>8 DEF KS!SetDeadline, KS!Present
  <2> QED
    BY <2>3, <2>9 DEF KS!Next
<1>8. ASSUME dict_clear_expired
      PROVE  KS!Next
  BY <1>1, <1>8, SweepShows DEF KS!Next
<1>9. ASSUME dict_evict_lru_if_needed
      PROVE  [KS!Next]_(KS!vars)
  <2>1. CASE \E i \in DOMAIN table : \E e \in table[i] \cap Oldest(Entries) : Unlink(i, e)
    <3>1. PICK i \in DOMAIN table : \E e \in table[i] \cap Oldest(Entries) : Unlink(i, e)
      BY <2>1
    <3>2. PICK e \in table[i] \cap Oldest(Entries) : Unlink(i, e)
      BY <3>1
    <3>3. i \in 0 .. size - 1
      BY <1>1 DEF IInv, TypeOK
    <3>4. evicting
      BY <1>9 DEF dict_evict_lru_if_needed
    <3>5. KS!Drop(e.key) /\ e.key \in Keys
      BY <1>1, <3>2, <3>3, <3>4, EvictShows, UnlinkShows
    <3> QED
      BY <3>5 DEF KS!Next
  <2>2. CASE UNCHANGED <<table, size, now>>
    BY <1>2, <2>2 DEF Entries
  <2> QED
    BY <1>9, <2>1, <2>2 DEF dict_evict_lru_if_needed
<1>10. ASSUME Tick
       PROVE  KS!Next
  <2>1. Entries' = Entries
    BY <1>10 DEF Tick, Entries
  <2>2. KS!Tick
    BY <1>1, <1>10, <2>1, SameShows DEF Tick, KS!Tick
  <2> QED
    BY <2>2 DEF KS!Next
<1>11. ASSUME UNCHANGED vars
       PROVE  UNCHANGED KS!vars
  BY <1>2, <1>11 DEF vars, Entries
<1> QED
  BY <1>3, <1>4, <1>5, <1>6, <1>7, <1>8, <1>9, <1>10, <1>11 DEF Next

-----------------------------------------------------------------------------
(* Theorems                                                                *)

\* RInv holds in every reachable state.
THEOREM DeadlineInvariance == Spec => []RInv
BY InitRInv, StepRInv, PTL DEF Spec

\* The chained table with its resizing, lazy expiry and eviction is, to a caller
\* who searches it, the map of Keyspace: a live key disappears only when it is
\* deleted or, over the limit, when no key was used longer ago.
THEOREM ImplementsKeyspace == Spec => RefinesKeyspace
BY InitShows, StepShows, DeadlineInvariance, PTL DEF Spec, RefinesKeyspace, KS!Spec
=============================================================================
