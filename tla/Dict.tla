-------------------------------- MODULE Dict --------------------------------
(***************************************************************************)
(* dict.c: the chained hash table behind the database, one call at a time. *)
(* A chain is the set of its entries: the list order is only visible       *)
(* through a tie of last_access in the search for a victim, where the      *)
(* model leaves the choice open.  hash & mask is hash % (mask + 1), the    *)
(* table size being a power of two.  Eviction is recursive in the code;    *)
(* each of its calls is a step here, and no other call starts meanwhile.   *)
(***************************************************************************)
EXTENDS Integers, FiniteSets

CONSTANTS
  Keys, Values,
  SizeOf,     \* cc_obj.size of each value: strlen + 1
  Hash,       \* dict_hash of each key
  TableSize,  \* the size dict_create gives the table
  MaxMemory,  \* dict.max_memory, 0 for no limit (what dict_create sets)
  TTLs,       \* the times to live clients ask for, in ms
  TimeModulus, \* 2^64: deadlines are unsigned and wrap around
  StartTime,  \* the clock when the server starts, in ms
  MaxTime,    \* bound of the model on the clock
  None        \* no object, for the abstract view

ASSUME DictAssumption ==
  /\ SizeOf \in [Values -> Nat \ {0}]
  /\ Hash \in [Keys -> Nat]
  /\ TableSize \in Nat \ {0}
  /\ MaxMemory \in Nat
  /\ TTLs \subseteq Int
  /\ MaxTime \in Nat
  /\ StartTime \in 0 .. MaxTime
  /\ TimeModulus \in Nat \ {0}
  /\ None \notin [val : Values, expire : Nat, last_access : Nat]

\* dict_create rounds the size it is asked for up to a power of two, 4 at least.
ASSUME PowerOfTwo == \E n \in 2 .. TableSize : TableSize = 2 ^ n

VARIABLES
  table,        \* dict.table: the entries of each chain
  size, mask,   \* dict.size and dict.mask
  used,         \* dict.used
  used_memory,  \* dict.used_memory
  evicting,     \* TRUE while dict_evict_lru_if_needed has an entry to remove
  now           \* the clock read by current_time_ms

vars == <<table, size, mask, used, used_memory, evicting, now>>

Entry == [key : Keys, val : Values, expire : Nat, last_access : Nat]

-----------------------------------------------------------------------------
(* Operators                                                               *)

Entries == UNION {table[i] : i \in 0 .. size - 1}

\* hash & mask
BucketOf(k, m) == Hash[k] % (m + 1)

Index(k) == BucketOf(k, mask)

\* An object dies in the millisecond of its deadline.
BugExpired(e, t) == e.expire # 0 /\ e.expire <= t
\* An object is still alive in the millisecond of its deadline.
Expired(e, t) == e.expire # 0 /\ e.expire < t

\* The bytes of a set of entries, numbered entry by entry, and how many they are:
\* what the entries add to used_memory.
Bytes(E) == UNION {{e} \X (1 .. SizeOf[e.val]) : e \in E}
Weight(E) == Cardinality(Bytes(E))

\* max_memory = 0 means that there is no limit.
BugOverLimit(mem) == MaxMemory # 0 /\ mem > MaxMemory + 1
OverLimit(mem) == MaxMemory # 0 /\ mem > MaxMemory

\* The table as it is, and the one dict_resize builds: every entry is hashed
\* again with the new mask.
Layout == [table |-> table, size |-> size, mask |-> mask]

BugResized ==
  [table |-> [i \in 0 .. 2 * size - 1 |->
                {e \in Entries : BucketOf(e.key, 2 * size - 1) = i}],
   size |-> 2 * size, mask |-> mask]
Resized ==
  [table |-> [i \in 0 .. 2 * size - 1 |->
                {e \in Entries : BucketOf(e.key, 2 * size - 1) = i}],
   size |-> 2 * size, mask |-> 2 * size - 1]

\* dict_add resizes a full table; when calloc fails it goes on with the old one.
Layouts == {Layout} \cup (IF used >= size THEN {Resized} ELSE {})

BugDeadline(t) == now + t
\* The deadline of a key given t ms to live; a time to live that reaches back
\* before the epoch wraps around to the far future.
Deadline(t) == (now + t) % TimeModulus

\* What dict_add is called with: no deadline, a new one (SET with EX or PX), or
\* the one of the object it replaces (INCR).
DeadlinesFor(k) ==
  {0} \cup {Deadline(t) : t \in TTLs}
      \cup {e.expire : e \in {f \in Entries : f.key = k}}

-----------------------------------------------------------------------------
(* The calls                                                               *)

Init ==
  /\ table = [i \in 0 .. TableSize - 1 |-> {}]
  /\ size = TableSize
  /\ mask = TableSize - 1
  /\ used = 0
  /\ used_memory = 0
  /\ evicting = FALSE
  /\ now = StartTime

\* A new object replaces the one of the key, or a new entry enters its chain.
dict_add(k, v, exp) ==
  /\ ~evicting
  /\ \E l \in Layouts :
       LET i == BucketOf(k, l.mask)
           new == [key |-> k, val |-> v, expire |-> exp, last_access |-> now]
       IN /\ \/ \E old \in l.table[i] :
                  /\ old.key = k
                  /\ table' = [l.table EXCEPT ![i] = (@ \ {old}) \cup {new}]
                  /\ used' = used
                  /\ used_memory' = used_memory - SizeOf[old.val] + SizeOf[v]
             \/ /\ \A e \in l.table[i] : e.key # k
                /\ table' = [l.table EXCEPT ![i] = @ \cup {new}]
                /\ used' = used + 1
                /\ used_memory' = used_memory + SizeOf[v]
          /\ size' = l.size
          /\ mask' = l.mask
  /\ evicting' = OverLimit(used_memory')
  /\ UNCHANGED now

\* The entry or its key cannot be allocated: the call returns 0 and all that
\* may remain of it is the larger table.
dict_add_fails(k) ==
  /\ ~evicting
  /\ \E l \in Layouts :
       /\ \A e \in l.table[BucketOf(k, l.mask)] : e.key # k
       /\ table' = l.table
       /\ size' = l.size
       /\ mask' = l.mask
  /\ UNCHANGED <<used, used_memory, evicting, now>>

BugUnlinkUsed(i, e) ==
  /\ table' = [table EXCEPT ![i] = @ \ {e}]
  /\ used' = used
  /\ used_memory' = used_memory - SizeOf[e.val]
  /\ UNCHANGED <<size, mask, now>>
BugUnlinkMemory(i, e) ==
  /\ table' = [table EXCEPT ![i] = @ \ {e}]
  /\ used' = used - 1
  /\ used_memory' = used_memory
  /\ UNCHANGED <<size, mask, now>>
\* Unlink entry e of chain i and account for it.
Unlink(i, e) ==
  /\ table' = [table EXCEPT ![i] = @ \ {e}]
  /\ used' = used - 1
  /\ used_memory' = used_memory - SizeOf[e.val]
  /\ UNCHANGED <<size, mask, now>>

\* Give entry e of chain i the fields of f.
Update(i, e, f) ==
  /\ table' = [table EXCEPT ![i] = (@ \ {e}) \cup {f}]
  /\ UNCHANGED <<size, mask, used, used_memory, evicting, now>>

\* A hit is touched; an expired entry is deleted instead.
dict_get(k) ==
  /\ ~evicting
  /\ \E e \in table[Index(k)] :
       /\ e.key = k
       /\ \/ /\ Expired(e, now)
             /\ Unlink(Index(k), e)
             /\ UNCHANGED evicting
          \/ /\ ~Expired(e, now)
             /\ Update(Index(k), e, [e EXCEPT !.last_access = now])

dict_delete(k) ==
  /\ ~evicting
  /\ \E e \in table[Index(k)] :
       /\ e.key = k
       /\ Unlink(Index(k), e)
  /\ UNCHANGED evicting

\* EXPIRE writes the deadline through the pointer dict_get returned.
expire_command(k, t) ==
  /\ ~evicting
  /\ \E e \in table[Index(k)] :
       /\ e.key = k
       /\ ~Expired(e, now)
       /\ Update(Index(k), e, [e EXCEPT !.last_access = now, !.expire = Deadline(t)])

Swept == {e \in Entries : Expired(e, now)}

dict_clear_expired ==
  /\ ~evicting
  /\ table' = [i \in DOMAIN table |-> table[i] \ Swept]
  /\ used' = used - Cardinality(Swept)
  /\ used_memory' = used_memory - Weight(Swept)
  /\ UNCHANGED <<size, mask, evicting, now>>

\* The entries no other entry is older than.
Oldest(E) == {e \in E : \A f \in E : e.last_access <= f.last_access}

\* One call of the recursion: unlink an oldest entry and check the limit again.
dict_evict_lru_if_needed ==
  /\ evicting
  /\ \/ \E i \in DOMAIN table : \E e \in table[i] \cap Oldest(Entries) :
          /\ Unlink(i, e)
          /\ evicting' = OverLimit(used_memory')
     \/ /\ Oldest(Entries) = {}
        /\ evicting' = FALSE
        /\ UNCHANGED <<table, size, mask, used, used_memory, now>>

Tick ==
  /\ now < MaxTime
  /\ now' = now + 1
  /\ UNCHANGED <<table, size, mask, used, used_memory, evicting>>

Next ==
  \/ \E k \in Keys :
       \/ \E v \in Values, exp \in DeadlinesFor(k) : dict_add(k, v, exp)
       \/ dict_add_fails(k)
       \/ dict_get(k)
       \/ dict_delete(k)
       \/ \E t \in TTLs : expire_command(k, t)
  \/ dict_clear_expired
  \/ dict_evict_lru_if_needed
  \/ Tick

Spec == Init /\ [][Next]_vars

-----------------------------------------------------------------------------
(* Properties                                                              *)

\* (used_memory is pinned down by MemoryExact.)
TypeOK ==
  /\ size \in Nat \ {0}
  /\ mask \in Nat
  /\ table \in [0 .. size - 1 -> SUBSET Entry]
  /\ used \in Nat
  /\ evicting \in BOOLEAN
  /\ now \in Nat

\* Whatever was resized, overwritten, expired or evicted, an entry sits in the
\* only chain a search for its key walks, and no key has two entries.
ChainsExact ==
  /\ mask = size - 1
  /\ \A i \in 0 .. size - 1 : \A e \in table[i] : Index(e.key) = i
  /\ \A e, f \in Entries : e.key = f.key => e = f

\* dict.used counts the entries, on which the decision to resize rests: no
\* unlinking path forgets it or counts twice.
UsedExact == used = Cardinality(Entries)

\* dict.used_memory is the weight of the live objects, so that the unsigned
\* counter never wraps below 0 and evicts everything.
MemoryExact == used_memory = Weight(Entries)

\* When dict_add returns, a limit that is set is respected.
MemoryBounded == ~evicting => (MaxMemory = 0 \/ used_memory <= MaxMemory)

\* What a search for k finds.
Found(k) == {e \in table[Index(k)] : e.key = k}

Object(e) == [val |-> e.val, expire |-> e.expire, last_access |-> e.last_access]

\* The object a search finds for each key, and the deadlines clients can set.
Store == [k \in Keys |-> IF Found(k) = {} THEN None
                         ELSE Object(CHOOSE e \in Found(k) : TRUE)]

AllDeadlines == {0} \cup {(n + t) % TimeModulus : n \in StartTime .. MaxTime, t \in TTLs}

KS == INSTANCE Keyspace WITH
  store <- Store, Deadlines <- AllDeadlines, Limit <- MaxMemory

\* Seen through searches, the table is a map that forgets a live key only on a
\* delete or, under a limit, when no key was used longer ago.
RefinesKeyspace == KS!Spec
=============================================================================
