----------------------------- MODULE DictProofs -----------------------------
(***************************************************************************)
(* For every hash function, table size, limit and clock: the hash table of *)
(* Dict keeps every entry where a search for its key looks, keeps one      *)
(* entry per key, and counts its entries; used_memory is their weight, so  *)
(* that it never wraps, and the limit is respected whenever no eviction is *)
(* under way.                                                              *)
(***************************************************************************)
EXTENDS Dict, FiniteSetTheorems, TLAPS

\* The entries of the first n chains of a table.
EntriesOf(t, n) == UNION {t[i] : i \in 0 .. n - 1}

\* Every entry is in the chain its key hashes to.
Placed(t, n) == \A i \in 0 .. n - 1 : \A e \in t[i] : BucketOf(e.key, n - 1) = i

Unique(E) == \A e, f \in E : e.key = f.key => e = f

\* u is the table t of n chains with c for chain i.
Rechained(t, n, i, c, u) ==
  /\ u \in [0 .. n - 1 -> SUBSET Entry]
  /\ u[i] = c
  /\ \A j \in 0 .. n - 1 : j # i => u[j] = t[j]

\* With entry f for entry e, with f as well, and without e in chain i.
Replaced(t, n, i, e, f, u) == Rechained(t, n, i, (t[i] \ {e}) \cup {f}, u)
Added(t, n, i, f, u) == Rechained(t, n, i, t[i] \cup {f}, u)
Removed(t, n, i, e, u) == Rechained(t, n, i, t[i] \ {e}, u)

\* The inductive invariant: the finiteness of the table is what lets used be
\* compared with a cardinality.
IInv ==
  /\ TypeOK
  /\ ChainsExact
  /\ IsFiniteSet(Entries)
  /\ UsedExact

-----------------------------------------------------------------------------
(* Lemmas about chains                                                     *)

\* hash & mask is an index of the table.
LEMMA BucketRange ==
  ASSUME NEW k \in Keys, NEW n \in Nat \ {0}
  PROVE  BucketOf(k, n - 1) \in 0 .. n - 1
<1>1. Hash[k] \in Nat
  BY DictAssumption
<1>2. BucketOf(k, n - 1) = Hash[k] % n
  BY DEF BucketOf
<1> QED
  BY <1>1, <1>2, SMT

\* Giving chain i other entries that hash to i keeps every entry in its place
\* and changes nothing but the entries of that chain.
LEMMA NewChain ==
  ASSUME NEW n \in Nat \ {0}, NEW t \in [0 .. n - 1 -> SUBSET Entry], Placed(t, n),
         NEW i \in 0 .. n - 1, NEW c, NEW u, Rechained(t, n, i, c, u),
         \A e \in c : BucketOf(e.key, n - 1) = i
  PROVE  /\ Placed(u, n)
         /\ EntriesOf(u, n) = (EntriesOf(t, n) \ t[i]) \cup c
<1> USE DEF Rechained
<1>3. Placed(u, n)
  BY DEF Placed
<1>4. EntriesOf(u, n) = (EntriesOf(t, n) \ t[i]) \cup c
  <2>1. ASSUME NEW e, e \in EntriesOf(u, n)
        PROVE  e \in (EntriesOf(t, n) \ t[i]) \cup c
    <3>1. PICK j \in 0 .. n - 1 : e \in u[j]
      BY <2>1 DEF EntriesOf
    <3>2. CASE j = i
      BY <3>1, <3>2
    <3>3. CASE j # i
      <4>1. e \in t[j]
        BY <3>1, <3>3
      <4>2. e \notin t[i]
        BY <4>1, <3>3 DEF Placed
      <4> QED
        BY <4>1, <4>2 DEF EntriesOf
    <3> QED
      BY <3>2, <3>3
  <2>2. ASSUME NEW e, e \in (EntriesOf(t, n) \ t[i]) \cup c
        PROVE  e \in EntriesOf(u, n)
    <3>1. CASE e \in c
      BY <3>1 DEF EntriesOf
    <3>2. CASE e \notin c
      <4>1. PICK j \in 0 .. n - 1 : e \in t[j]
        BY <2>2, <3>2 DEF EntriesOf
      <4>2. j # i
        BY <4>1, <2>2, <3>2
      <4> QED
        BY <4>1, <4>2 DEF EntriesOf
    <3> QED
      BY <3>1, <3>2
  <2> QED
    BY <2>1, <2>2
<1> QED
  BY <1>3, <1>4

\* Replacing an entry by one of the same key.
LEMMA ReplaceInChain ==
  ASSUME NEW n \in Nat \ {0}, NEW t \in [0 .. n - 1 -> SUBSET Entry], Placed(t, n),
         NEW i \in 0 .. n - 1, NEW e \in t[i], NEW f \in Entry, f.key = e.key,
         NEW u, Replaced(t, n, i, e, f, u)
  PROVE  /\ Placed(u, n)
         /\ EntriesOf(u, n) = (EntriesOf(t, n) \ {e}) \cup {f}
<1>1. \A g \in (t[i] \ {e}) \cup {f} : BucketOf(g.key, n - 1) = i
  BY DEF Placed
<1>2. /\ Placed(u, n)
      /\ EntriesOf(u, n) = (EntriesOf(t, n) \ t[i]) \cup ((t[i] \ {e}) \cup {f})
  BY <1>1, NewChain DEF Replaced
<1>3. t[i] \subseteq EntriesOf(t, n)
  BY DEF EntriesOf
<1> QED
  BY <1>2, <1>3

\* Prepending an entry.
LEMMA AddToChain ==
  ASSUME NEW n \in Nat \ {0}, NEW t \in [0 .. n - 1 -> SUBSET Entry], Placed(t, n),
         NEW i \in 0 .. n - 1, NEW f \in Entry, BucketOf(f.key, n - 1) = i,
         NEW u, Added(t, n, i, f, u)
  PROVE  /\ Placed(u, n)
         /\ EntriesOf(u, n) = EntriesOf(t, n) \cup {f}
<1>1. \A g \in t[i] \cup {f} : BucketOf(g.key, n - 1) = i
  BY DEF Placed
<1>2. /\ Placed(u, n)
      /\ EntriesOf(u, n) = (EntriesOf(t, n) \ t[i]) \cup (t[i] \cup {f})
  BY <1>1, NewChain DEF Added
<1>3. t[i] \subseteq EntriesOf(t, n)
  BY DEF EntriesOf
<1> QED
  BY <1>2, <1>3

\* Unlinking an entry.
LEMMA RemoveFromChain ==
  ASSUME NEW n \in Nat \ {0}, NEW t \in [0 .. n - 1 -> SUBSET Entry], Placed(t, n),
         NEW i \in 0 .. n - 1, NEW e \in t[i],
         NEW u, Removed(t, n, i, e, u)
  PROVE  /\ Placed(u, n)
         /\ EntriesOf(u, n) = EntriesOf(t, n) \ {e}
<1>1. \A g \in t[i] \ {e} : BucketOf(g.key, n - 1) = i
  BY DEF Placed
<1>2. /\ Placed(u, n)
      /\ EntriesOf(u, n) = (EntriesOf(t, n) \ t[i]) \cup (t[i] \ {e})
  BY <1>1, NewChain DEF Removed
<1>3. t[i] \subseteq EntriesOf(t, n)
  BY DEF EntriesOf
<1> QED
  BY <1>2, <1>3

\* An entry of a placed table is only ever in the chain of its key.
LEMMA InItsChain ==
  ASSUME NEW n \in Nat \ {0}, NEW t \in [0 .. n - 1 -> SUBSET Entry], Placed(t, n),
         NEW e \in EntriesOf(t, n)
  PROVE  /\ e \in Entry
         /\ BucketOf(e.key, n - 1) \in 0 .. n - 1
         /\ e \in t[BucketOf(e.key, n - 1)]
BY DEF EntriesOf, Placed

\* Whether dict_resize succeeds, fails or is not called, dict_add goes on with
\* a table that holds the same entries, each where the new mask sends it.
LEMMA LayoutOK ==
  ASSUME IInv, NEW l \in Layouts
  PROVE  /\ l.size \in Nat \ {0}
         /\ l.mask = l.size - 1
         /\ l.table \in [0 .. l.size - 1 -> SUBSET Entry]
         /\ Placed(l.table, l.size)
         /\ EntriesOf(l.table, l.size) = Entries
<1>1. CASE l = Layout
  BY <1>1 DEF Layout, IInv, TypeOK, ChainsExact, Placed, EntriesOf, Entries, Index
<1>2. CASE l = Resized
  <2> DEFINE n == 2 * size
  <2>1. /\ size \in Nat \ {0}
        /\ n \in Nat \ {0}
        /\ n - 1 \in Nat
    BY DEF IInv, TypeOK
  <2>2. /\ l.size = n
        /\ l.mask = n - 1
        /\ l.table = [i \in 0 .. n - 1 |-> {e \in Entries : BucketOf(e.key, n - 1) = i}]
    BY <1>2 DEF Resized
  <2>3. Entries \subseteq Entry
    BY DEF Entries, IInv, TypeOK
  <2> HIDE DEF n
  <2>4. /\ l.table \in [0 .. n - 1 -> SUBSET Entry]
        /\ Placed(l.table, n)
    BY <2>2, <2>3 DEF Placed
  <2>5. ASSUME NEW e \in Entries
        PROVE  e \in EntriesOf(l.table, n)
    <3>1. BucketOf(e.key, n - 1) \in 0 .. n - 1
      BY <2>1, <2>3, BucketRange DEF Entry
    <3> QED
      BY <3>1, <2>2 DEF EntriesOf
  <2>6. EntriesOf(l.table, n) \subseteq Entries
    BY <2>2 DEF EntriesOf
  <2> QED
    BY <2>1, <2>2, <2>4, <2>5, <2>6
<1> QED
  BY <1>1, <1>2 DEF Layouts

-----------------------------------------------------------------------------
(* The invariant is inductive                                              *)

\* The empty table dict_create makes.
LEMMA InitInv == Init => IInv
<1> SUFFICES ASSUME Init PROVE IInv
  OBVIOUS
<1>1. TypeOK
  <2>1. /\ TableSize \in Nat \ {0}
        /\ StartTime \in Nat
    BY DictAssumption
  <2>2. table \in [0 .. size - 1 -> SUBSET Entry]
    BY DEF Init
  <2>3. size \in Nat \ {0} /\ mask \in Nat
    BY <2>1 DEF Init
  <2>4. used \in Nat /\ now \in Nat
    BY <2>1 DEF Init
  <2>5. evicting \in BOOLEAN
    BY DEF Init
  <2> QED
    BY <2>2, <2>3, <2>4, <2>5 DEF TypeOK
<1>2. Entries = {}
  BY DEF Init, Entries
<1>3. ChainsExact
  BY <1>2 DEF Init, ChainsExact
<1> QED
  BY <1>1, <1>2, <1>3, FS_EmptySet DEF IInv, UsedExact, Init

\* What the next table owes to the invariant, in terms of the lemmas above.
LEMMA FromParts ==
  ASSUME TypeOK',
         mask' = size' - 1,
         Placed(table', size'),
         Unique(EntriesOf(table', size')),
         IsFiniteSet(EntriesOf(table', size')),
         used' = Cardinality(EntriesOf(table', size'))
  PROVE  IInv'
BY DEF IInv, ChainsExact, UsedExact, Placed, Unique, EntriesOf, Entries, Index

\* What the invariant says, in the terms of the lemmas above.
LEMMA ToParts ==
  ASSUME IInv
  PROVE  /\ TypeOK
         /\ mask = size - 1
         /\ Placed(table, size)
         /\ Entries = EntriesOf(table, size)
         /\ Entries \subseteq Entry
         /\ Unique(Entries)
         /\ IsFiniteSet(Entries)
         /\ used = Cardinality(Entries)
BY DEF IInv, TypeOK, ChainsExact, UsedExact, Placed, Unique, EntriesOf, Entries, Index

\* Every deadline that is written down is a natural number: it wraps.
LEMMA DeadlineType ==
  ASSUME TypeOK, NEW k \in Keys
  PROVE  /\ \A t \in TTLs : Deadline(t) \in Nat
         /\ DeadlinesFor(k) \subseteq Nat
<1>1. \A t \in TTLs : Deadline(t) \in Nat
  BY DictAssumption DEF Deadline, TypeOK
<1>2. Entries \subseteq Entry
  BY DEF Entries, TypeOK
<1>3. \A e \in Entries : e.expire \in Nat
  BY <1>2 DEF Entry
<1> QED
  BY <1>1, <1>3 DEF DeadlinesFor

\* Taking one entry out of the table: dict_delete, the expired branch of
\* dict_get, and one call of the eviction.
LEMMA UnlinkInv ==
  ASSUME IInv, NEW i \in 0 .. size - 1, NEW e \in table[i], Unlink(i, e),
         evicting' \in BOOLEAN
  PROVE  IInv'
<1>1. /\ size \in Nat \ {0}
      /\ table \in [0 .. size - 1 -> SUBSET Entry]
  BY DEF IInv, TypeOK
<1>2. Removed(table, size, i, e, table')
  BY <1>1 DEF Unlink, Removed, Rechained
<1>3. /\ Placed(table', size)
      /\ EntriesOf(table', size) = Entries \ {e}
  BY <1>1, <1>2, ToParts, RemoveFromChain
<1>4. e \in Entries
  BY DEF Entries
<1>5. /\ IsFiniteSet(Entries \ {e})
      /\ Cardinality(Entries \ {e}) = Cardinality(Entries) - 1
  BY <1>4, ToParts, FS_RemoveElement
<1>6. used' = Cardinality(Entries \ {e}) /\ used' \in Nat
  BY <1>5, ToParts, FS_CardinalityType DEF Unlink
<1>7. TypeOK'
  BY <1>2, <1>6 DEF Unlink, IInv, TypeOK, Removed, Rechained
<1>8. Unique(Entries \ {e})
  BY ToParts DEF Unique
<1> QED
  BY <1>3, <1>5, <1>6, <1>7, <1>8, ToParts, FromParts DEF Unlink

\* Writing the fields of an entry but not its key: a hit of dict_get, EXPIRE,
\* and the overwriting branch of dict_add, in a table l of the same entries.
LEMMA ReplaceInv ==
  ASSUME IInv, NEW l \in Layouts, NEW i \in 0 .. l.size - 1, NEW e \in l.table[i],
         NEW f \in Entry, f.key = e.key,
         Replaced(l.table, l.size, i, e, f, table'),
         size' = l.size, mask' = l.mask, used' = used,
         evicting' \in BOOLEAN, now' = now
  PROVE  IInv'
<1>1. /\ Placed(table', l.size)
      /\ EntriesOf(table', l.size) = (Entries \ {e}) \cup {f}
  BY LayoutOK, ReplaceInChain
<1>2. e \in Entries
  BY LayoutOK DEF EntriesOf
<1>3. /\ IsFiniteSet(Entries \ {e})
      /\ Cardinality(Entries \ {e}) = Cardinality(Entries) - 1
  BY <1>2, ToParts, FS_RemoveElement
<1>4. f \notin Entries \ {e}
  BY <1>2, ToParts DEF Unique
<1>5. /\ IsFiniteSet((Entries \ {e}) \cup {f})
      /\ Cardinality((Entries \ {e}) \cup {f}) = Cardinality(Entries \ {e}) + 1
  BY <1>3, <1>4, FS_AddElement
<1>6. used' = Cardinality((Entries \ {e}) \cup {f})
  BY <1>3, <1>5, ToParts, FS_CardinalityType
<1>7. Unique((Entries \ {e}) \cup {f})
  BY <1>2, ToParts DEF Unique
<1>8. TypeOK'
  BY LayoutOK DEF IInv, TypeOK, Replaced, Rechained
<1> QED
  BY <1>1, <1>5, <1>6, <1>7, <1>8, LayoutOK, FromParts

\* The same in the table as it is.
LEMMA UpdateInv ==
  ASSUME IInv, NEW i \in 0 .. size - 1, NEW e \in table[i],
         NEW f \in Entry, f.key = e.key, Update(i, e, f)
  PROVE  IInv'
<1>1. /\ Layout \in Layouts
      /\ Layout.table = table /\ Layout.size = size /\ Layout.mask = mask
  BY DEF Layout, Layouts
<1>2. evicting' \in BOOLEAN
  BY DEF Update, IInv, TypeOK
<1>3. /\ e \in Entry
      /\ Replaced(table, size, i, e, f, table')
  BY DEF Update, Replaced, Rechained, IInv, TypeOK
<1>4. size' = size /\ mask' = mask /\ used' = used /\ now' = now
  BY DEF Update
<1> HIDE DEF Layout
<1> QED
  BY <1>1, <1>2, <1>3, <1>4, ReplaceInv

\* Prepending an entry for a key the chain does not hold.
LEMMA AddInv ==
  ASSUME IInv, NEW l \in Layouts, NEW f \in Entry, NEW i, i = BucketOf(f.key, l.mask),
         \A e \in l.table[i] : e.key # f.key,
         Added(l.table, l.size, i, f, table'),
         size' = l.size, mask' = l.mask, used' = used + 1,
         evicting' \in BOOLEAN, now' = now
  PROVE  IInv'
<1>1. i \in 0 .. l.size - 1
  <2>1. f.key \in Keys
    BY DEF Entry
  <2> QED
    BY <2>1, LayoutOK, BucketRange
<1>2. BucketOf(f.key, l.size - 1) = i
  BY LayoutOK
<1>3. /\ Placed(table', l.size)
      /\ EntriesOf(table', l.size) = Entries \cup {f}
  BY <1>1, <1>2, LayoutOK, AddToChain
<1>4. \A e \in Entries : e.key # f.key
  BY <1>2, LayoutOK, InItsChain
<1>5. /\ IsFiniteSet(Entries \cup {f})
      /\ Cardinality(Entries \cup {f}) = Cardinality(Entries) + 1
  BY <1>4, ToParts, FS_AddElement
<1>6. Unique(Entries \cup {f})
  BY <1>4, ToParts DEF Unique
<1>7. TypeOK'
  BY LayoutOK DEF IInv, TypeOK, Added, Rechained
<1> QED
  BY <1>3, <1>5, <1>6, <1>7, LayoutOK, ToParts, FromParts

\* Every call, and every call of the recursion of an eviction, keeps IInv.
LEMMA StepInv == IInv /\ [Next]_vars => IInv'
<1> SUFFICES ASSUME IInv, [Next]_vars PROVE IInv'
  OBVIOUS
<1>1. ASSUME NEW k \in Keys, NEW v \in Values, NEW exp \in DeadlinesFor(k),
             dict_add(k, v, exp)
      PROVE  IInv'
  <2>1. PICK l \in Layouts :
          LET i == BucketOf(k, l.mask)
              new == [key |-> k, val |-> v, expire |-> exp, last_access |-> now]
          IN /\ \/ \E old \in l.table[i] :
                     /\ old.key = k
                     /\ table' = [l.table EXCEPT ![i] = (@ \ {old}) \cup {new}]
                     /\ used' = used
                \/ /\ \A e \in l.table[i] : e.key # k
                   /\ table' = [l.table EXCEPT ![i] = @ \cup {new}]
                   /\ used' = used + 1
             /\ size' = l.size
             /\ mask' = l.mask
    BY <1>1 DEF dict_add
  <2> DEFINE i == BucketOf(k, l.mask)
             new == [key |-> k, val |-> v, expire |-> exp, last_access |-> now]
  <2>2. new \in Entry /\ new.key = k
    BY DeadlineType DEF Entry, IInv, TypeOK
  <2>3. now' = now
    BY <1>1 DEF dict_add
  <2>4. evicting' \in BOOLEAN
    BY <1>1 DEF dict_add, OverLimit
  <2>5. i \in 0 .. l.size - 1
    BY LayoutOK, BucketRange
  <2> HIDE DEF new
  <2>6. ASSUME NEW old \in l.table[i], old.key = k, used' = used,
               table' = [l.table EXCEPT ![i] = (@ \ {old}) \cup {new}]
        PROVE  IInv'
    <3>1. Replaced(l.table, l.size, i, old, new, table')
      <4>1. old \in Entry
        BY <2>5, LayoutOK
      <4> QED
        BY <2>2, <2>5, <2>6, <4>1, LayoutOK DEF Replaced, Rechained
    <3> QED
      BY <2>1, <2>2, <2>3, <2>4, <2>5, <2>6, <3>1, ReplaceInv
  <2>7. ASSUME \A e \in l.table[i] : e.key # k, used' = used + 1,
               table' = [l.table EXCEPT ![i] = @ \cup {new}]
        PROVE  IInv'
    <3>1. Added(l.table, l.size, i, new, table')
      BY <2>2, <2>5, <2>7, LayoutOK DEF Added, Rechained
    <3> QED
      BY <2>1, <2>2, <2>3, <2>4, <2>7, <3>1, AddInv
  <2> QED
    BY <2>1, <2>6, <2>7 DEF new
<1>2. ASSUME NEW k \in Keys, dict_add_fails(k)
      PROVE  IInv'
  <2>1. PICK l \in Layouts : table' = l.table /\ size' = l.size /\ mask' = l.mask
    BY <1>2 DEF dict_add_fails
  <2>2. UNCHANGED <<used, evicting, now>>
    BY <1>2 DEF dict_add_fails
  <2>3. /\ l.size \in Nat \ {0}
        /\ l.mask = l.size - 1
        /\ l.table \in [0 .. l.size - 1 -> SUBSET Entry]
        /\ Placed(l.table, l.size)
        /\ EntriesOf(l.table, l.size) = Entries
    BY LayoutOK
  <2>4. TypeOK'
    BY <2>1, <2>2, <2>3 DEF IInv, TypeOK
  <2> QED
    BY <2>1, <2>2, <2>3, <2>4, ToParts, FromParts
<1>3. ASSUME NEW k \in Keys, dict_get(k)
      PROVE  IInv'
  <2>1. PICK e \in table[Index(k)] :
          /\ e.key = k
          /\ \/ Unlink(Index(k), e) /\ UNCHANGED evicting
             \/ Update(Index(k), e, [e EXCEPT !.last_access = now])
    BY <1>3 DEF dict_get
  <2>2. Index(k) \in 0 .. size - 1
    BY ToParts, BucketRange DEF TypeOK, Index
  <2>3. evicting \in BOOLEAN
    BY DEF IInv, TypeOK
  <2>4. e \in Entry
    BY <2>2 DEF IInv, TypeOK
  <2>5. CASE Unlink(Index(k), e) /\ UNCHANGED evicting
    BY <2>2, <2>3, <2>5, UnlinkInv
  <2>6. CASE Update(Index(k), e, [e EXCEPT !.last_access = now])
    <3>1. [e EXCEPT !.last_access = now] \in Entry
      BY <2>4 DEF Entry, IInv, TypeOK
    <3>2. [e EXCEPT !.last_access = now].key = e.key
      BY <2>4 DEF Entry
    <3> QED
      BY <2>2, <2>6, <3>1, <3>2, UpdateInv
  <2> QED
    BY <2>1, <2>5, <2>6
<1>4. ASSUME NEW k \in Keys, dict_delete(k)
      PROVE  IInv'
  <2>1. PICK e \in table[Index(k)] : Unlink(Index(k), e)
    BY <1>4 DEF dict_delete
  <2>2. Index(k) \in 0 .. size - 1
    BY ToParts, BucketRange DEF TypeOK, Index
  <2>3. evicting' \in BOOLEAN
    BY <1>4 DEF dict_delete, IInv, TypeOK
  <2> QED
    BY <2>1, <2>2, <2>3, UnlinkInv
<1>5. ASSUME NEW k \in Keys, NEW t \in TTLs, expire_command(k, t)
      PROVE  IInv'
  <2>1. PICK e \in table[Index(k)] :
          Update(Index(k), e, [e EXCEPT !.last_access = now, !.expire = Deadline(t)])
    BY <1>5 DEF expire_command
  <2> DEFINE f == [e EXCEPT !.last_access = now, !.expire = Deadline(t)]
  <2>2. Index(k) \in 0 .. size - 1
    BY ToParts, BucketRange DEF TypeOK, Index
  <2>3. e \in Entry
    BY <2>2 DEF IInv, TypeOK
  <2>4. Deadline(t) \in Nat
    BY DeadlineType DEF IInv
  <2>5. f \in Entry /\ f.key = e.key
    BY <2>3, <2>4 DEF Entry, IInv, TypeOK
  <2> QED
    BY <2>1, <2>2, <2>5, UpdateInv
<1>6. ASSUME dict_clear_expired
      PROVE  IInv'
  <2>1. /\ table' = [i \in DOMAIN table |-> table[i] \ Swept]
        /\ used' = used - Cardinality(Swept)
        /\ UNCHANGED <<size, mask, evicting, now>>
    BY <1>6 DEF dict_clear_expired
  <2>2. DOMAIN table = 0 .. size - 1 /\ size \in Nat \ {0}
    BY DEF IInv, TypeOK
  <2>3. /\ table' \in [0 .. size - 1 -> SUBSET Entry]
        /\ Placed(table', size)
    BY <2>1, <2>2, ToParts DEF TypeOK, Placed
  <2>4. EntriesOf(table', size) = Entries \ Swept
    BY <2>1, <2>2 DEF EntriesOf, Entries
  <2>5. /\ Swept \subseteq Entries
        /\ Entries \cap Swept = Swept
    BY DEF Swept
  <2>6. /\ IsFiniteSet(Entries \ Swept)
        /\ Cardinality(Entries \ Swept) = Cardinality(Entries) - Cardinality(Swept)
    BY <2>5, ToParts, FS_Difference
  <2>7. used' = Cardinality(Entries \ Swept)
    BY <2>1, <2>6, ToParts
  <2>8. used' \in Nat
    BY <2>6, <2>7, FS_CardinalityType
  <2>9. TypeOK'
    BY <2>1, <2>3, <2>8 DEF IInv, TypeOK
  <2>10. Unique(Entries \ Swept)
    BY ToParts DEF Unique
  <2> QED
    BY <2>1, <2>3, <2>4, <2>6, <2>7, <2>9, <2>10, ToParts, FromParts
<1>7. ASSUME dict_evict_lru_if_needed
      PROVE  IInv'
  <2>1. CASE \E i \in DOMAIN table : \E e \in table[i] \cap Oldest(Entries) :
               /\ Unlink(i, e)
               /\ evicting' = OverLimit(used_memory')
    <3>1. PICK i \in DOMAIN table : \E e \in table[i] : Unlink(i, e)
      BY <2>1
    <3>4. PICK e \in table[i] : Unlink(i, e)
      BY <3>1
    <3>2. evicting' \in BOOLEAN
      BY <2>1 DEF OverLimit
    <3>3. DOMAIN table = 0 .. size - 1
      BY DEF IInv, TypeOK
    <3> QED
      BY <3>2, <3>3, <3>4, UnlinkInv
  <2>2. CASE evicting' = FALSE /\ UNCHANGED <<table, size, mask, used, used_memory, now>>
    <3>1. evicting' \in BOOLEAN
      BY <2>2
    <3> QED
      BY <2>2, <3>1 DEF IInv, TypeOK, ChainsExact, UsedExact, Entries, Index
  <2> QED
    BY <1>7, <2>1, <2>2 DEF dict_evict_lru_if_needed
<1>8. ASSUME Tick
      PROVE  IInv'
  BY <1>8 DEF Tick, IInv, TypeOK, ChainsExact, UsedExact, Entries, Index
<1>9. ASSUME UNCHANGED vars
      PROVE  IInv'
  BY <1>9 DEF vars, IInv, TypeOK, ChainsExact, UsedExact, Entries, Index
<1> QED
  BY <1>1, <1>2, <1>3, <1>4, <1>5, <1>6, <1>7, <1>8, <1>9 DEF Next

-----------------------------------------------------------------------------
(* Theorems about the chains                                               *)

\* IInv holds in every reachable state.
THEOREM Invariance == Spec => []IInv
BY InitInv, StepInv, PTL DEF Spec

\* Every variable of the table keeps its type; the deadline arithmetic wraps
\* within the natural numbers and used never drops below 0.
THEOREM TypeCorrect == Spec => []TypeOK
<1>1. IInv => TypeOK
  BY DEF IInv
<1> QED
  BY <1>1, Invariance, PTL

\* A search (dict_get, dict_delete, dict_add) for a key finds its entry iff the
\* table holds one, and that entry is the only one of the key.
THEOREM ChainsCorrect == Spec => []ChainsExact
<1>1. IInv => ChainsExact
  BY DEF IInv
<1> QED
  BY <1>1, Invariance, PTL

\* dict.used is the number of entries whatever is added, overwritten, deleted,
\* expired, evicted or rehashed.
THEOREM CountCorrect == Spec => []UsedExact
<1>1. IInv => UsedExact
  BY DEF IInv
<1> QED
  BY <1>1, Invariance, PTL

-----------------------------------------------------------------------------
(* used_memory                                                             *)

\* An eviction is under way exactly while the limit is exceeded: the recursion
\* never ends early, and the case that nothing is left to remove does not occur.
EvictsOverLimit == evicting <=> OverLimit(used_memory)

\* The inductive invariant; that the bytes are finitely many is what lets
\* used_memory be compared with their number.
MInv ==
  /\ IInv
  /\ IsFiniteSet(Bytes(Entries))
  /\ MemoryExact
  /\ EvictsOverLimit

-----------------------------------------------------------------------------
(* Lemmas about weights                                                    *)

\* The bytes of one entry are as many as its value is long.
LEMMA WeightOfOne ==
  ASSUME NEW f \in Entry
  PROVE  /\ IsFiniteSet(Bytes({f}))
         /\ Weight({f}) = SizeOf[f.val]
         /\ SizeOf[f.val] \in Nat \ {0}
<1> DEFINE n == SizeOf[f.val]
<1>1. n \in Nat \ {0}
  BY DictAssumption DEF Entry
<1>2. Bytes({f}) = {f} \X (1 .. n)
  BY DEF Bytes
<1> HIDE DEF n
<1>3. IsFiniteSet(1 .. n) /\ Cardinality(1 .. n) = n
  BY <1>1, FS_Interval
<1>4. IsFiniteSet({f}) /\ Cardinality({f}) = 1
  BY FS_Singleton
<1>5. /\ IsFiniteSet({f} \X (1 .. n))
      /\ Cardinality({f} \X (1 .. n)) = Cardinality({f}) * Cardinality(1 .. n)
  BY <1>3, <1>4, FS_Product
<1>6. Cardinality({f} \X (1 .. n)) = n
  BY <1>1, <1>3, <1>4, <1>5
<1>7. IsFiniteSet(Bytes({f})) /\ Weight({f}) = n
  BY <1>2, <1>5, <1>6 DEF Weight
<1> QED
  BY <1>1, <1>7 DEF n

\* The weights of disjoint sets of entries add up.
LEMMA WeightOfUnion ==
  ASSUME NEW E, NEW F, E \cap F = {}, IsFiniteSet(Bytes(E)), IsFiniteSet(Bytes(F))
  PROVE  /\ IsFiniteSet(Bytes(E \cup F))
         /\ Weight(E \cup F) = Weight(E) + Weight(F)
         /\ Weight(E) \in Nat /\ Weight(F) \in Nat
<1>1. Bytes(E \cup F) = Bytes(E) \cup Bytes(F)
  BY DEF Bytes
<1>2. Bytes(E) \cap Bytes(F) = {}
  <2> SUFFICES ASSUME NEW b, b \in Bytes(E), b \in Bytes(F) PROVE FALSE
    OBVIOUS
  <2>1. PICK e \in E : b \in {e} \X (1 .. SizeOf[e.val])
    BY DEF Bytes
  <2>2. PICK f \in F : b \in {f} \X (1 .. SizeOf[f.val])
    BY DEF Bytes
  <2>3. b[1] = e /\ b[1] = f
    BY <2>1, <2>2
  <2> QED
    BY <2>3
<1>3. /\ IsFiniteSet(Bytes(E) \cup Bytes(F))
      /\ Cardinality(Bytes(E) \cup Bytes(F))
           = Cardinality(Bytes(E)) + Cardinality(Bytes(F)) - Cardinality({})
  BY <1>2, FS_Union
<1>4. Cardinality(Bytes(E)) \in Nat /\ Cardinality(Bytes(F)) \in Nat
  BY FS_CardinalityType
<1>5. Cardinality(Bytes(E) \cup Bytes(F)) = Cardinality(Bytes(E)) + Cardinality(Bytes(F))
  BY <1>3, <1>4, FS_EmptySet
<1> QED
  BY <1>1, <1>3, <1>4, <1>5 DEF Weight

\* A set of entries is as heavy as a part of it and the rest.
LEMMA WeightOfRest ==
  ASSUME NEW E, NEW F, F \subseteq E, IsFiniteSet(Bytes(E))
  PROVE  /\ IsFiniteSet(Bytes(E \ F))
         /\ Weight(E \ F) = Weight(E) - Weight(F)
         /\ Weight(E \ F) \in Nat /\ Weight(E) \in Nat /\ Weight(F) \in Nat
<1>1. /\ Bytes(E \ F) \subseteq Bytes(E)
      /\ Bytes(F) \subseteq Bytes(E)
  BY DEF Bytes
<1>2. IsFiniteSet(Bytes(E \ F)) /\ IsFiniteSet(Bytes(F))
  BY <1>1, FS_Subset
<1>3. E = (E \ F) \cup F /\ (E \ F) \cap F = {}
  OBVIOUS
<1>4. Weight((E \ F) \cup F) = Weight(E \ F) + Weight(F)
  BY <1>2, <1>3, WeightOfUnion
<1>5. Weight(E \ F) \in Nat /\ Weight(F) \in Nat /\ Weight(E) \in Nat
  BY <1>2, FS_CardinalityType DEF Weight
<1>6. Weight(E) = Weight((E \ F) \cup F)
  BY <1>3, Zenon
<1> QED
  BY <1>2, <1>4, <1>5, <1>6

\* Adding an entry adds its value's size ...
LEMMA WeightAdded ==
  ASSUME NEW E, NEW f \in Entry, f \notin E, IsFiniteSet(Bytes(E))
  PROVE  /\ IsFiniteSet(Bytes(E \cup {f}))
         /\ Weight(E \cup {f}) = Weight(E) + SizeOf[f.val]
<1>1. E \cap {f} = {}
  OBVIOUS
<1> QED
  BY <1>1, WeightOfOne, WeightOfUnion

\* ... removing one takes it away.
LEMMA WeightRemoved ==
  ASSUME NEW E, NEW e \in Entry, e \in E, IsFiniteSet(Bytes(E))
  PROVE  /\ IsFiniteSet(Bytes(E \ {e}))
         /\ Weight(E \ {e}) = Weight(E) - SizeOf[e.val]
         /\ Weight(E) \in Nat /\ Weight(E \ {e}) \in Nat
<1>1. {e} \subseteq E
  OBVIOUS
<1> QED
  BY <1>1, WeightOfOne, WeightOfRest

\* Exchanging one for another.
LEMMA WeightReplaced ==
  ASSUME NEW E, NEW e \in Entry, e \in E, NEW f \in Entry, f \notin E \ {e},
         IsFiniteSet(Bytes(E))
  PROVE  /\ IsFiniteSet(Bytes((E \ {e}) \cup {f}))
         /\ Weight((E \ {e}) \cup {f}) = Weight(E) - SizeOf[e.val] + SizeOf[f.val]
<1>1. /\ IsFiniteSet(Bytes(E \ {e}))
      /\ Weight(E \ {e}) = Weight(E) - SizeOf[e.val]
  BY WeightRemoved
<1>2. /\ IsFiniteSet(Bytes((E \ {e}) \cup {f}))
      /\ Weight((E \ {e}) \cup {f}) = Weight(E \ {e}) + SizeOf[f.val]
  BY <1>1, WeightAdded
<1> QED
  BY <1>1, <1>2

-----------------------------------------------------------------------------
(* What each call does to the entries, wherever their chains are           *)

\* A chain of the table holds entries only, at an index of the table.
LEMMA ChainOf ==
  ASSUME IInv, NEW k \in Keys
  PROVE  /\ Index(k) \in 0 .. size - 1
         /\ table[Index(k)] \subseteq Entries
         /\ table[Index(k)] \subseteq Entry
<1>1. Index(k) \in 0 .. size - 1
  BY ToParts, BucketRange DEF TypeOK, Index
<1> QED
  BY <1>1 DEF Entries, IInv, TypeOK

\* Unlink removes the entry it is called with.
LEMMA UnlinkEffect ==
  ASSUME IInv, NEW i \in 0 .. size - 1, NEW e \in table[i], Unlink(i, e)
  PROVE  /\ e \in Entries
         /\ Entries' = Entries \ {e}
         /\ used_memory' = used_memory - SizeOf[e.val]
<1>1. /\ size \in Nat \ {0}
      /\ table \in [0 .. size - 1 -> SUBSET Entry]
  BY DEF IInv, TypeOK
<1>2. Removed(table, size, i, e, table')
  BY <1>1 DEF Unlink, Removed, Rechained
<1>3. EntriesOf(table', size) = Entries \ {e}
  BY <1>1, <1>2, ToParts, RemoveFromChain
<1>4. Entries' = EntriesOf(table', size)
  BY DEF Unlink, Entries, EntriesOf
<1> QED
  BY <1>3, <1>4 DEF Unlink, Entries

\* A hit and EXPIRE exchange an entry for one of the same key and value.
LEMMA UpdateEffect ==
  ASSUME IInv, NEW i \in 0 .. size - 1, NEW e \in table[i],
         NEW f \in Entry, f.key = e.key, Update(i, e, f)
  PROVE  /\ e \in Entries
         /\ Entries' = (Entries \ {e}) \cup {f}
<1>1. /\ size \in Nat \ {0}
      /\ table \in [0 .. size - 1 -> SUBSET Entry]
  BY DEF IInv, TypeOK
<1>2. e \in Entry
  BY <1>1
<1>3. Replaced(table, size, i, e, f, table')
  BY <1>1, <1>2 DEF Update, Replaced, Rechained
<1>4. EntriesOf(table', size) = (Entries \ {e}) \cup {f}
  BY <1>1, <1>3, ToParts, ReplaceInChain
<1>5. Entries' = EntriesOf(table', size)
  BY DEF Update, Entries, EntriesOf
<1> QED
  BY <1>4, <1>5 DEF Entries

\* dict_add exchanges the entry of the key, or adds one where there was none.
LEMMA AddEffect ==
  ASSUME IInv, NEW k \in Keys, NEW v \in Values, NEW exp \in DeadlinesFor(k),
         dict_add(k, v, exp),
         NEW new, new = [key |-> k, val |-> v, expire |-> exp, last_access |-> now]
  PROVE  /\ new \in Entry
         /\ \/ \E old \in Entries :
                  /\ old.key = k
                  /\ Entries' = (Entries \ {old}) \cup {new}
                  /\ used_memory' = used_memory - SizeOf[old.val] + SizeOf[v]
            \/ /\ \A e \in Entries : e.key # k
               /\ Entries' = Entries \cup {new}
               /\ used_memory' = used_memory + SizeOf[v]
<1>1. new \in Entry /\ new.key = k
  BY DeadlineType DEF Entry, IInv, TypeOK
<1>2. PICK l \in Layouts :
        LET i == BucketOf(k, l.mask)
        IN /\ \/ \E old \in l.table[i] :
                   /\ old.key = k
                   /\ table' = [l.table EXCEPT ![i] = (@ \ {old}) \cup {new}]
                   /\ used_memory' = used_memory - SizeOf[old.val] + SizeOf[v]
              \/ /\ \A e \in l.table[i] : e.key # k
                 /\ table' = [l.table EXCEPT ![i] = @ \cup {new}]
                 /\ used_memory' = used_memory + SizeOf[v]
           /\ size' = l.size
  BY DEF dict_add
<1> DEFINE i == BucketOf(k, l.mask)
<1>3. i = BucketOf(k, l.size - 1) /\ i \in 0 .. l.size - 1
  BY LayoutOK, BucketRange
<1>4. Entries' = EntriesOf(table', l.size)
  BY <1>2 DEF Entries, EntriesOf
<1>5. ASSUME NEW old \in l.table[i], old.key = k,
             table' = [l.table EXCEPT ![i] = (@ \ {old}) \cup {new}]
      PROVE  old \in Entries /\ Entries' = (Entries \ {old}) \cup {new}
  <2>1. old \in Entry
    BY <1>3, LayoutOK
  <2>2. Replaced(l.table, l.size, i, old, new, table')
    BY <1>1, <1>3, <1>5, <2>1, LayoutOK DEF Replaced, Rechained
  <2>3. EntriesOf(table', l.size) = (EntriesOf(l.table, l.size) \ {old}) \cup {new}
    BY <1>1, <1>3, <1>5, <2>2, LayoutOK, ReplaceInChain, SMTT(40)
  <2>4. old \in EntriesOf(l.table, l.size)
    BY <1>3 DEF EntriesOf
  <2> QED
    BY <1>4, <2>3, <2>4, LayoutOK
<1>6. ASSUME \A e \in l.table[i] : e.key # k,
             table' = [l.table EXCEPT ![i] = @ \cup {new}]
      PROVE  (\A e \in Entries : e.key # k) /\ Entries' = Entries \cup {new}
  <2>1. Added(l.table, l.size, i, new, table')
    BY <1>1, <1>3, <1>6, LayoutOK DEF Added, Rechained
  <2>2. EntriesOf(table', l.size) = EntriesOf(l.table, l.size) \cup {new}
    BY <1>1, <1>3, <2>1, LayoutOK, AddToChain
  <2>3. \A e \in Entries : e.key # k
    BY <1>3, <1>6, LayoutOK, InItsChain
  <2> QED
    BY <1>4, <2>2, <2>3, LayoutOK
<1> HIDE DEF i
<1> QED
  BY <1>1, <1>2, <1>5, <1>6 DEF i

\* A dict_add that fails may have rehashed the entries, no more.
LEMMA AddFailsEffect ==
  ASSUME IInv, NEW k \in Keys, dict_add_fails(k)
  PROVE  Entries' = Entries
<1>1. PICK l \in Layouts : table' = l.table /\ size' = l.size
  BY DEF dict_add_fails
<1>2. Entries' = EntriesOf(table', size')
  BY DEF Entries, EntriesOf
<1>3. EntriesOf(l.table, l.size) = Entries
  BY LayoutOK
<1> QED
  BY <1>1, <1>2, <1>3

\* The sweep removes the expired entries, from all chains.
LEMMA SweepEffect ==
  ASSUME IInv, dict_clear_expired
  PROVE  Entries' = Entries \ Swept
<1>1. DOMAIN table = 0 .. size - 1
  BY DEF IInv, TypeOK
<1>2. /\ size' = size
      /\ \A i \in 0 .. size - 1 : table'[i] = table[i] \ Swept
  BY <1>1 DEF dict_clear_expired
<1>3. ASSUME NEW e
      PROVE  e \in Entries' <=> e \in Entries /\ e \notin Swept
  <2>1. e \in Entries' <=> \E i \in 0 .. size - 1 : e \in table'[i]
    BY <1>2 DEF Entries
  <2>2. e \in Entries <=> \E i \in 0 .. size - 1 : e \in table[i]
    BY DEF Entries
  <2> QED
    BY <1>2, <2>1, <2>2
<1> QED
  BY <1>3

-----------------------------------------------------------------------------
(* The invariant with used_memory is inductive                             *)

\* An empty table weighs nothing, and no limit is below that.
LEMMA InitMInv == Init => MInv
<1> SUFFICES ASSUME Init PROVE MInv
  OBVIOUS
<1>1. IInv
  BY InitInv
<1>2. Entries = {} /\ used_memory = 0 /\ evicting = FALSE
  BY DEF Init, Entries
<1>3. Bytes(Entries) = {}
  BY <1>2 DEF Bytes
<1>4. IsFiniteSet(Bytes(Entries)) /\ Weight(Entries) = 0
  BY <1>3, FS_EmptySet DEF Weight
<1>5. ~OverLimit(0)
  BY DictAssumption DEF OverLimit
<1> QED
  BY <1>1, <1>2, <1>4, <1>5 DEF MInv, MemoryExact, EvictsOverLimit

\* used_memory after entry e has left: the weight of the others, which is a
\* natural number.
LEMMA UnlinkMemory ==
  ASSUME MInv, NEW i \in 0 .. size - 1, NEW e \in table[i], Unlink(i, e)
  PROVE  /\ IsFiniteSet(Bytes(Entries'))
         /\ used_memory' = Weight(Entries')
         /\ used_memory \in Nat /\ used_memory' \in Nat
         /\ used_memory' < used_memory
<1>1. /\ e \in Entries
      /\ Entries' = Entries \ {e}
      /\ used_memory' = used_memory - SizeOf[e.val]
  BY UnlinkEffect DEF MInv
<1>2. e \in Entry
  BY <1>1, ToParts DEF MInv
<1>3. SizeOf[e.val] \in Nat \ {0}
  BY <1>2, WeightOfOne
<1>4. /\ IsFiniteSet(Bytes(Entries \ {e}))
      /\ Weight(Entries \ {e}) = Weight(Entries) - SizeOf[e.val]
      /\ Weight(Entries) \in Nat /\ Weight(Entries \ {e}) \in Nat
  BY <1>1, <1>2, WeightRemoved DEF MInv
<1>5. /\ IsFiniteSet(Bytes(Entries'))
      /\ Weight(Entries') = Weight(Entries \ {e})
  BY <1>1, <1>4
<1>6. used_memory = Weight(Entries)
  BY DEF MInv, MemoryExact
<1> QED
  BY <1>1, <1>3, <1>4, <1>5, <1>6

\* A hit or EXPIRE changes no weight.
LEMMA UpdateMemory ==
  ASSUME MInv, NEW i \in 0 .. size - 1, NEW e \in table[i],
         NEW f \in Entry, f.key = e.key, f.val = e.val, Update(i, e, f)
  PROVE  /\ IsFiniteSet(Bytes(Entries'))
         /\ used_memory' = Weight(Entries')
         /\ used_memory' = used_memory
<1>1. e \in Entries /\ Entries' = (Entries \ {e}) \cup {f}
  BY UpdateEffect DEF MInv
<1>2. e \in Entry /\ f \notin Entries \ {e}
  BY <1>1, ToParts DEF MInv, Unique
<1>3. /\ IsFiniteSet(Bytes((Entries \ {e}) \cup {f}))
      /\ Weight((Entries \ {e}) \cup {f}) = Weight(Entries) - SizeOf[e.val] + SizeOf[f.val]
  BY <1>1, <1>2, WeightReplaced DEF MInv
<1>4. Weight(Entries) \in Nat /\ SizeOf[e.val] \in Nat
  BY <1>1, <1>2, WeightOfOne, WeightRemoved DEF MInv
<1>5. /\ IsFiniteSet(Bytes(Entries'))
      /\ Weight(Entries') = Weight(Entries)
  BY <1>1, <1>3, <1>4
<1>6. used_memory' = used_memory /\ used_memory = Weight(Entries)
  BY DEF Update, MInv, MemoryExact
<1> QED
  BY <1>5, <1>6

\* What is lighter than something within the limit is within it.
LEMMA LimitMonotonic ==
  ASSUME NEW m \in Nat, NEW n \in Nat, m <= n, ~OverLimit(n)
  PROVE  ~OverLimit(m)
BY DictAssumption DEF OverLimit

\* Nothing is left to evict only if there is nothing: some entry is the oldest.
LEMMA SomeOldest ==
  ASSUME NEW E \in SUBSET Entry, E # {}
  PROVE  Oldest(E) # {}
<1> DEFINE T == {e.last_access : e \in E}
<1>1. T \subseteq Nat /\ T # {}
  BY DEF Entry
<1>2. PICK n \in T : \A m \in T : n <= m
  <2> DEFINE Less == {p \in Nat \X Nat : p[1] < p[2]}
  <2>1. IsWellFoundedOn(Less, Nat)
    BY NatLessThanWellFounded DEF OpToRel
  <2> HIDE DEF T, Less
  <2>2. PICK n \in T : \A m \in T : ~(<<m, n>> \in Less)
    BY <1>1, <2>1, WFMin
  <2>3. ASSUME NEW m \in T PROVE n <= m
    <3>1. m \in Nat /\ n \in Nat
      BY <1>1
    <3>2. ~(m < n)
      BY <2>2, <3>1 DEF Less
    <3> QED
      BY <3>1, <3>2
  <2> QED
    BY <2>3
<1>3. PICK e \in E : e.last_access = n
  BY <1>2
<1>4. \A f \in E : f.last_access \in T
  OBVIOUS
<1> HIDE DEF T
<1>5. e \in Oldest(E)
  BY <1>2, <1>3, <1>4 DEF Oldest
<1> QED
  BY <1>5

\* Every call keeps used_memory the weight of the table, and starts and ends
\* evictions when it has to.
LEMMA StepMInv == MInv /\ [Next]_vars => MInv'
<1> SUFFICES ASSUME MInv, [Next]_vars PROVE MInv'
  OBVIOUS
<1>1. IInv /\ IInv'
  BY StepInv DEF MInv
<1> DEFINE Exact == IsFiniteSet(Bytes(Entries')) /\ used_memory' = Weight(Entries')
<1>2. used_memory \in Nat /\ Weight(Entries) = used_memory /\ IsFiniteSet(Bytes(Entries))
  BY FS_CardinalityType DEF MInv, MemoryExact, Weight
<1>3. Exact /\ EvictsOverLimit' => MInv'
  BY <1>1 DEF MInv, MemoryExact
<1> HIDE DEF Exact
<1>4. \* A call that starts no eviction and adds nothing cannot exceed the limit.
      ASSUME Exact, ~evicting, UNCHANGED evicting, used_memory' <= used_memory, used_memory' \in Nat
      PROVE  MInv'
  BY <1>2, <1>3, <1>4, LimitMonotonic DEF MInv, EvictsOverLimit
<1>5. ASSUME NEW k \in Keys, NEW v \in Values, NEW exp \in DeadlinesFor(k), dict_add(k, v, exp)
      PROVE  MInv'
  <2> DEFINE new == [key |-> k, val |-> v, expire |-> exp, last_access |-> now]
  <2>1. new.val = v /\ new.key = k
    OBVIOUS
  <2>2. /\ new \in Entry
        /\ \/ \E old \in Entries :
                 /\ old.key = k
                 /\ Entries' = (Entries \ {old}) \cup {new}
                 /\ used_memory' = used_memory - SizeOf[old.val] + SizeOf[v]
           \/ /\ \A e \in Entries : e.key # k
              /\ Entries' = Entries \cup {new}
              /\ used_memory' = used_memory + SizeOf[v]
    BY <1>1, <1>5, AddEffect
  <2> HIDE DEF new
  <2>3. EvictsOverLimit'
    BY <1>5 DEF dict_add, EvictsOverLimit
  <2>4. CASE \E old \in Entries :
               /\ old.key = k
               /\ Entries' = (Entries \ {old}) \cup {new}
               /\ used_memory' = used_memory - SizeOf[old.val] + SizeOf[v]
    <3>1. PICK old \in Entries :
            /\ old.key = k
            /\ Entries' = (Entries \ {old}) \cup {new}
            /\ used_memory' = used_memory - SizeOf[old.val] + SizeOf[v]
      BY <2>4
    <3>2. old \in Entry /\ new \notin Entries \ {old}
      BY <1>1, <2>1, <3>1, ToParts DEF Unique
    <3>3. /\ IsFiniteSet(Bytes((Entries \ {old}) \cup {new}))
          /\ Weight((Entries \ {old}) \cup {new}) = Weight(Entries) - SizeOf[old.val] + SizeOf[new.val]
      BY <1>2, <2>2, <3>2, WeightReplaced
    <3>4. IsFiniteSet(Bytes(Entries')) /\ Weight(Entries') = Weight((Entries \ {old}) \cup {new})
      BY <3>1, <3>3
    <3>5. used_memory' = Weight(Entries) - SizeOf[old.val] + SizeOf[new.val]
      BY <1>2, <2>1, <3>1
    <3> QED
      BY <1>3, <2>3, <3>3, <3>4, <3>5 DEF Exact
  <2>5. CASE /\ \A e \in Entries : e.key # k
             /\ Entries' = Entries \cup {new}
             /\ used_memory' = used_memory + SizeOf[v]
    <3>1. new \notin Entries
      BY <2>1, <2>5
    <3>2. /\ IsFiniteSet(Bytes(Entries \cup {new}))
          /\ Weight(Entries \cup {new}) = Weight(Entries) + SizeOf[new.val]
      BY <1>2, <2>2, <3>1, WeightAdded
    <3>3. IsFiniteSet(Bytes(Entries')) /\ Weight(Entries') = Weight(Entries \cup {new})
      BY <2>5, <3>2
    <3>4. used_memory' = Weight(Entries) + SizeOf[new.val]
      BY <1>2, <2>1, <2>5
    <3> QED
      BY <1>3, <2>3, <3>2, <3>3, <3>4 DEF Exact
  <2> QED
    BY <2>2, <2>4, <2>5
<1>6. ASSUME NEW k \in Keys, dict_add_fails(k)
      PROVE  MInv'
  <2>1. Entries' = Entries
    BY <1>1, <1>6, AddFailsEffect
  <2>2. ~evicting /\ UNCHANGED <<used_memory, evicting>>
    BY <1>6 DEF dict_add_fails
  <2> QED
    BY <1>2, <1>4, <2>1, <2>2 DEF Exact
<1>7. ASSUME NEW i \in 0 .. size - 1, NEW e \in table[i], Unlink(i, e), ~evicting, UNCHANGED evicting
      PROVE  MInv'
  BY <1>4, <1>7, UnlinkMemory DEF Exact
<1>8. ASSUME NEW i \in 0 .. size - 1, NEW e \in table[i], NEW f \in Entry,
             f.key = e.key, f.val = e.val, Update(i, e, f), ~evicting
      PROVE  MInv'
  <2>1. UNCHANGED evicting
    BY <1>8 DEF Update
  <2>2. Exact /\ used_memory' = used_memory
    BY <1>8, UpdateMemory DEF Exact
  <2> QED
    BY <1>2, <1>4, <1>8, <2>1, <2>2
<1>9. ASSUME NEW k \in Keys, dict_get(k)
      PROVE  MInv'
  <2>1. ~evicting
    BY <1>9 DEF dict_get
  <2>2. PICK e \in table[Index(k)] :
          \/ Unlink(Index(k), e) /\ UNCHANGED evicting
          \/ Update(Index(k), e, [e EXCEPT !.last_access = now])
    BY <1>9 DEF dict_get
  <2>3. Index(k) \in 0 .. size - 1 /\ e \in Entry
    BY <1>1, ChainOf
  <2>4. CASE Unlink(Index(k), e) /\ UNCHANGED evicting
    BY <1>7, <2>1, <2>3, <2>4
  <2>5. CASE Update(Index(k), e, [e EXCEPT !.last_access = now])
    <3> DEFINE f == [e EXCEPT !.last_access = now]
    <3>1. f \in Entry /\ f.key = e.key /\ f.val = e.val
      BY <1>1, <2>3 DEF Entry, IInv, TypeOK
    <3> QED
      BY <1>8, <2>1, <2>3, <2>5, <3>1
  <2> QED
    BY <2>2, <2>4, <2>5
<1>10. ASSUME NEW k \in Keys, dict_delete(k)
       PROVE  MInv'
  <2>1. PICK e \in table[Index(k)] : Unlink(Index(k), e)
    BY <1>10 DEF dict_delete
  <2>2. Index(k) \in 0 .. size - 1
    BY <1>1, ChainOf
  <2> QED
    BY <1>7, <1>10, <2>1, <2>2 DEF dict_delete
<1>11. ASSUME NEW k \in Keys, NEW t \in TTLs, expire_command(k, t)
       PROVE  MInv'
  <2>1. PICK e \in table[Index(k)] :
          Update(Index(k), e, [e EXCEPT !.last_access = now, !.expire = Deadline(t)])
    BY <1>11 DEF expire_command
  <2> DEFINE f == [e EXCEPT !.last_access = now, !.expire = Deadline(t)]
  <2>2. Index(k) \in 0 .. size - 1 /\ e \in Entry
    BY <1>1, ChainOf
  <2>3. Deadline(t) \in Nat /\ now \in Nat
    BY <1>1, DeadlineType DEF IInv, TypeOK
  <2>4. f \in Entry /\ f.key = e.key /\ f.val = e.val
    BY <2>2, <2>3 DEF Entry
  <2>5. ~evicting
    BY <1>11 DEF expire_command
  <2> QED
    BY <1>8, <2>1, <2>2, <2>4, <2>5
<1>12. ASSUME dict_clear_expired
       PROVE  MInv'
  <2>1. Entries' = Entries \ Swept
    BY <1>1, <1>12, SweepEffect
  <2>2. Swept \subseteq Entries
    BY DEF Swept
  <2>3. used_memory' = used_memory - Weight(Swept) /\ ~evicting /\ UNCHANGED evicting
    BY <1>12 DEF dict_clear_expired
  <2>4. /\ IsFiniteSet(Bytes(Entries \ Swept))
        /\ Weight(Entries \ Swept) = Weight(Entries) - Weight(Swept)
        /\ Weight(Entries \ Swept) \in Nat /\ Weight(Swept) \in Nat
    BY <1>2, <2>2, WeightOfRest
  <2>5. Exact
    BY <1>2, <2>1, <2>3, <2>4 DEF Exact
  <2>6. used_memory' \in Nat /\ used_memory' <= used_memory
    BY <1>2, <2>3, <2>4
  <2> QED
    BY <1>4, <2>3, <2>5, <2>6
<1>13. ASSUME dict_evict_lru_if_needed
       PROVE  MInv'
  <2>1. CASE Oldest(Entries) = {}
    <3>1. Entries = {}
      BY <1>1, <2>1, SomeOldest, ToParts
    <3>2. Bytes(Entries) = {}
      BY <3>1 DEF Bytes
    <3>3. used_memory = 0
      BY <1>2, <3>2, FS_EmptySet DEF Weight
    <3>4. OverLimit(used_memory)
      BY <1>13 DEF dict_evict_lru_if_needed, MInv, EvictsOverLimit
    <3> QED
      BY <3>3, <3>4, DictAssumption DEF OverLimit
  <2>2. CASE Oldest(Entries) # {}
    <3>1. PICK i \in DOMAIN table : \E e \in table[i] : Unlink(i, e) /\ evicting' = OverLimit(used_memory')
      BY <1>13, <2>2 DEF dict_evict_lru_if_needed
    <3>2. PICK e \in table[i] : Unlink(i, e) /\ evicting' = OverLimit(used_memory')
      BY <3>1
    <3>3. i \in 0 .. size - 1
      BY <1>1 DEF IInv, TypeOK
    <3>4. Exact
      BY <3>2, <3>3, UnlinkMemory DEF Exact
    <3>5. EvictsOverLimit'
      BY <3>2 DEF EvictsOverLimit
    <3> QED
      BY <1>3, <3>4, <3>5
  <2> QED
    BY <2>1, <2>2
<1>14. ASSUME Tick \/ UNCHANGED vars
       PROVE  MInv'
  <2>1. UNCHANGED <<table, size, used_memory, evicting>>
    BY <1>14 DEF Tick, vars
  <2>2. Entries' = Entries
    BY <2>1 DEF Entries
  <2> QED
    BY <1>2, <1>3, <2>1, <2>2 DEF Exact, MInv, EvictsOverLimit
<1> QED
  BY <1>5, <1>6, <1>9, <1>10, <1>11, <1>12, <1>13, <1>14 DEF Next

-----------------------------------------------------------------------------
(* Theorems about used_memory                                              *)

\* MInv holds in every reachable state.
THEOREM MemoryInvariance == Spec => []MInv
BY InitMInv, StepMInv, PTL DEF Spec

\* The counter dict_add, the unlinking paths and the sweep keep is the number of
\* bytes of the entries, so that the subtractions never take it below 0.
THEOREM MemoryCorrect == Spec => []MemoryExact
<1>1. MInv => MemoryExact
  BY DEF MInv
<1> QED
  BY <1>1, MemoryInvariance, PTL

\* When dict_add has returned, evictions included, the limit is respected; a
\* value that is over the limit by itself is evicted with all the others.
THEOREM LimitRespected == Spec => []MemoryBounded
<1>1. MInv => MemoryBounded
  <2> SUFFICES ASSUME MInv, ~evicting PROVE MaxMemory = 0 \/ used_memory <= MaxMemory
    BY DEF MemoryBounded
  <2>1. used_memory \in Nat
    BY FS_CardinalityType DEF MInv, MemoryExact, Weight
  <2> QED
    BY <2>1, DictAssumption DEF MInv, EvictsOverLimit, OverLimit
<1> QED
  BY <1>1, MemoryInvariance, PTL
=============================================================================
