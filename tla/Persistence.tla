---------------------------- MODULE Persistence ----------------------------
(***************************************************************************)
(* persistence.c and what main.c and commands.c do with it: the automatic  *)
(* saves, SAVE and BGSAVE all write the database to one temporary file and *)
(* rename it to dump.rdb; a server that starts loads that file.            *)
(* A saver is a thread or a child process, and a step is one call of it    *)
(* that other savers, clients or a crash can fall before or after.  Files  *)
(* are inodes, since a renamed or truncated file stays open elsewhere.     *)
(***************************************************************************)
EXTENDS Integers, Sequences, FiniteSets, FiniteSetsExt

CONSTANTS
  KeyCount,    \* the keys are numbered in the order a save meets them
  Values,
  Deadlines,   \* the deadlines clients may set; 0 is never
  MaxTime,     \* bound of the model on the clock
  AutoSavers,  \* threads that run auto_save_thread
  Clients,     \* clients that may call SAVE, each at most once at a time
  Children,    \* names for the child processes of BGSAVE
  EventLoop,   \* config.concurrency_model = CONCURRENCY_EVENTLOOP
  SaveChanges, \* config.save_after_changes; 0 never saves for it
  SaveSeconds, \* whether config.save_after_seconds > 0
  BufferSize,  \* records that fit in the buffer of a FILE
  Failures,    \* the calls that may fail
  MaxChanges,  \* bound of the model on the writes between two resets
  None         \* no object, no file

Keys == 1 .. KeyCount
Savers == AutoSavers \cup Clients \cup Children
Object == [val : Values, expire : Deadlines]

ASSUME PersistenceAssumption ==
  /\ KeyCount \in Nat
  /\ Deadlines \subseteq Nat
  /\ MaxTime \in Nat
  /\ IsFiniteSet(Savers)
  /\ AutoSavers \cap Children = {} /\ AutoSavers \cap Clients = {} /\ Clients \cap Children = {}
  /\ EventLoop \in BOOLEAN /\ SaveSeconds \in BOOLEAN
  /\ SaveChanges \in Nat
  /\ BufferSize \in Nat \ {0}
  /\ Failures \subseteq {"open", "write", "close", "rename"}
  /\ MaxChanges \in Nat
  /\ None \notin Object /\ None \notin Nat

\* A saver holds one inode open, two have a name, and fopen takes a free one.
Inodes == 1 .. Cardinality(Savers) + 2

\* What a file is made of, each taken to be one block of it; a hole is what is
\* left where a file was truncated below the offset of one who still writes.
Header(n) == [kind |-> "header", count |-> n]
Entry(k, o) == [kind |-> "entry", key |-> k, obj |-> o]
End == [kind |-> "end"]
Hole == [kind |-> "hole"]
Block == {Header(n) : n \in 0 .. KeyCount} \cup {Entry(k, o) : k \in Keys, o \in Object} \cup {End, Hole}

VARIABLES
  up,       \* the server is running
  clock,
  db,       \* server_db
  changes,  \* server_persistence.changes_since_save
  overdue,  \* save_after_seconds have passed since last_save
  saver,    \* the locals of save_rdb_to_file in each saver
  files,    \* the contents of each inode
  dump,     \* the inode named dump.rdb, or None
  tmp,      \* the inode named dump.rdb.tmp, or None
  late      \* keys written since the save that made dump.rdb began (of the model)

vars == <<up, clock, db, changes, overdue, saver, files, dump, tmp, late>>
disk == <<files, dump, tmp>>

-----------------------------------------------------------------------------
(* The database                                                            *)

Empty == [k \in Keys |-> None]

Expired(o, now) == o # None /\ o.expire # 0 /\ o.expire < now

\* What clients can see of a database.
Live(d) == [k \in Keys |-> IF Expired(d[k], clock) THEN None ELSE d[k]]

BugUsed(d) == Cardinality({k \in Keys : d[k] # None}) + 1
\* db->used counts what has expired and is not yet removed, too.
Used(d) == Cardinality({k \in Keys : d[k] # None})

-----------------------------------------------------------------------------
(* Files                                                                   *)

\* fwrite of blocks bs at offset n of a file, which may have shrunk below n.
WriteAt(f, n, bs) ==
  [i \in 1 .. Max({Len(f), n + Len(bs)}) |->
     IF i \in n + 1 .. n + Len(bs) THEN bs[i - n] ELSE IF i <= Len(f) THEN f[i] ELSE Hole]

HasHeader(f) == Len(f) > 0 /\ f[1].kind = "header"

\* The entries load_rdb_from_file reads: the first count, up to one that is none.
Readable(f) ==
  IF HasHeader(f)
  THEN {i \in 1 .. f[1].count : \A j \in 1 .. i : j < Len(f) /\ f[j + 1].kind = "entry"}
  ELSE {}

BugLoaded(f) ==
  [k \in Keys |->
     LET at == {i \in Readable(f) : f[i + 1].key = k}
     IN  IF at = {} THEN None ELSE [f[Max(at) + 1].obj EXCEPT !.expire = 0]]
\* What load_rdb_from_file adds to an empty database, to its end or an error.
Loaded(f) ==
  [k \in Keys |->
     LET at == {i \in Readable(f) : f[i + 1].key = k /\ ~Expired(f[i + 1].obj, clock)}
     IN  IF at = {} THEN None ELSE f[Max(at) + 1].obj]

\* What a server that starts now finds.
OnDisk == IF dump = None THEN Empty ELSE Loaded(files[dump])

-----------------------------------------------------------------------------
(* Saving                                                                  *)

Rest == [pc |-> "idle", ino |-> None, off |-> 0, buf |-> <<>>, at |-> 1, now |-> 0,
         mem |-> Empty, touched |-> {}]

Idle(s) == saver[s].pc = "idle"
At(s, pc) == saver[s].pc = pc

\* The database a saver walks: a child has the copy fork gave it.
Memory(s) == IF s \in Children THEN saver[s].mem ELSE db

Begin(s) ==
  /\ up
  /\ Idle(s)
  /\ saver' = [saver EXCEPT ![s] = [Rest EXCEPT !.pc = "open", !.mem = IF s \in Children THEN db ELSE Empty]]
  /\ UNCHANGED <<up, clock, db, changes, overdue, disk, late>>

BugDue == SaveChanges > 0 /\ changes >= SaveChanges /\ (SaveSeconds => overdue)
\* Enough changes, or enough time since the last save and any change.
Due ==
  \/ SaveChanges > 0 /\ changes >= SaveChanges
  \/ SaveSeconds /\ overdue /\ changes > 0

\* auto_save_thread wakes up and finds the database due.
auto_save(s) == Due /\ Begin(s)

\* In the event loop one client at a time is served.
save_command(s) ==
  /\ EventLoop => \A c \in Clients : Idle(c)
  /\ Begin(s)

\* bgsave_command forks; the event loop has no request before SAVE returns.
background_save(s) ==
  /\ EventLoop => \A c \in Clients : Idle(c)
  /\ Begin(s)

\* save_rdb_to_file returns; auto_save_thread goes on to reset its counters.
Return(s, ok) ==
  saver' = [saver EXCEPT ![s] = IF ok /\ s \in AutoSavers THEN [Rest EXCEPT !.pc = "reset"] ELSE Rest]

\* An inode without a name that no saver has open.
FreeInodes == {i \in Inodes : i # dump /\ i # tmp /\ \A s \in Savers : saver[s].ino # i}

BugOpen(s) ==
  /\ At(s, "open")
  /\ \E i \in IF tmp = None THEN {Min(FreeInodes)} ELSE {tmp} :
       /\ tmp' = i
       /\ saver' = [saver EXCEPT ![s] = [saver[s] EXCEPT !.pc = "header", !.ino = i]]
  /\ UNCHANGED <<up, clock, db, changes, overdue, files, dump, late>>
\* fopen with "wb" truncates the file of that name, or makes one.
open_temp(s) ==
  /\ At(s, "open")
  /\ \/ \E i \in IF tmp = None THEN {Min(FreeInodes)} ELSE {tmp} :
          /\ tmp' = i
          /\ files' = [files EXCEPT ![i] = <<>>]
          /\ saver' = [saver EXCEPT ![s] = [saver[s] EXCEPT !.pc = "header", !.ino = i]]
     \/ /\ "open" \in Failures
        /\ Return(s, FALSE)
        /\ UNCHANGED <<files, tmp>>
  /\ UNCHANGED <<up, clock, db, changes, overdue, dump, late>>

\* fwrite of block b, after which the locals are r: the buffer takes it, or is
\* first written to the file; when that fails the saver cleans up.
Write(s, b, r) ==
  LET full == Len(r.buf) = BufferSize
  IN  \/ /\ ~full
         /\ saver' = [saver EXCEPT ![s] = [r EXCEPT !.buf = Append(@, b)]]
         /\ UNCHANGED files
      \/ /\ full
         /\ files' = [files EXCEPT ![r.ino] = WriteAt(@, r.off, r.buf)]
         /\ saver' = [saver EXCEPT ![s] = [r EXCEPT !.off = @ + Len(r.buf), !.buf = <<b>>]]
      \/ /\ full /\ "write" \in Failures
         /\ saver' = [saver EXCEPT ![s].pc = "failed"]
         /\ UNCHANGED files

\* The count of entries, expired ones included, and then the time.
write_header(s) ==
  /\ At(s, "header")
  /\ Write(s, Header(Used(Memory(s))), [saver[s] EXCEPT !.pc = "entries", !.now = clock])
  /\ UNCHANGED <<up, clock, db, changes, overdue, dump, tmp, late>>

\* The next key of the walk, which skips what had expired when it began.
write_entry(s) ==
  /\ At(s, "entries") /\ saver[s].at <= KeyCount
  /\ LET k == saver[s].at
         o == Memory(s)[k]
         next == [saver[s] EXCEPT !.at = k + 1]
     IN  IF o = None \/ Expired(o, saver[s].now)
         THEN saver' = [saver EXCEPT ![s] = next] /\ UNCHANGED files
         ELSE Write(s, Entry(k, o), next)
  /\ UNCHANGED <<up, clock, db, changes, overdue, dump, tmp, late>>

write_end(s) ==
  /\ At(s, "entries") /\ saver[s].at > KeyCount
  /\ Write(s, End, [saver[s] EXCEPT !.pc = "close"])
  /\ UNCHANGED <<up, clock, db, changes, overdue, dump, tmp, late>>

BugClose(s) ==
  /\ At(s, "close") \/ At(s, "failed")
  /\ files' = [files EXCEPT ![saver[s].ino] = WriteAt(@, saver[s].off, saver[s].buf)]
  /\ saver' = [saver EXCEPT ![s] = [saver[s] EXCEPT !.pc = "rename", !.ino = None]]
  /\ UNCHANGED <<up, clock, db, changes, overdue, dump, tmp, late>>
\* fclose writes what is left in the buffer; nobody looks whether it could.
close_temp(s) ==
  /\ At(s, "close") \/ At(s, "failed")
  /\ \/ files' = [files EXCEPT ![saver[s].ino] = WriteAt(@, saver[s].off, saver[s].buf)]
     \/ "close" \in Failures /\ UNCHANGED files
  /\ saver' = [saver EXCEPT ![s] = [saver[s] EXCEPT !.pc = IF At(s, "close") THEN "rename" ELSE "unlink",
                                                  !.ino = None]]
  /\ UNCHANGED <<up, clock, db, changes, overdue, dump, tmp, late>>

rename_temp(s) ==
  /\ At(s, "rename")
  /\ \/ /\ tmp # None
        /\ dump' = tmp
        /\ tmp' = None
        /\ late' = saver[s].touched
        /\ Return(s, TRUE)
     \/ /\ tmp = None \/ "rename" \in Failures
        /\ Return(s, FALSE)
        /\ UNCHANGED <<dump, tmp, late>>
  /\ UNCHANGED <<up, clock, db, changes, overdue, files>>

unlink_temp(s) ==
  /\ At(s, "unlink")
  /\ tmp' = None
  /\ Return(s, FALSE)
  /\ UNCHANGED <<up, clock, db, changes, overdue, files, dump, late>>

\* After a save that succeeded auto_save_thread counts from zero.
auto_save_reset(s) ==
  /\ At(s, "reset")
  /\ changes' = 0
  /\ overdue' = FALSE
  /\ saver' = [saver EXCEPT ![s] = Rest]
  /\ UNCHANGED <<up, clock, db, disk, late>>

-----------------------------------------------------------------------------
(* Clients, time, crashes                                                  *)

Touch(ks) == saver' = [s \in Savers |-> IF Idle(s) THEN saver[s] ELSE [saver[s] EXCEPT !.touched = @ \cup ks]]

\* A command writes o under key k, or deletes it, and is counted.
write_command(k, o) ==
  /\ up
  /\ EventLoop => \A c \in Clients : Idle(c)
  /\ changes < MaxChanges
  /\ db' = [db EXCEPT ![k] = o]
  /\ changes' = changes + 1
  /\ late' = late \cup {k}
  /\ Touch({k})
  /\ UNCHANGED <<up, clock, overdue, disk>>

\* dict_clear_expired
cleanup_expired_keys ==
  /\ up
  /\ db' = Live(db)
  /\ UNCHANGED <<up, clock, changes, overdue, saver, disk, late>>

Tick ==
  /\ clock < MaxTime
  /\ clock' = clock + 1
  /\ UNCHANGED <<up, db, changes, overdue, saver, disk, late>>

SecondsPass ==
  /\ up
  /\ SaveSeconds
  /\ overdue' = TRUE
  /\ UNCHANGED <<up, clock, db, changes, saver, disk, late>>

\* The process is killed, and its threads with it; its children go on.
Crash ==
  /\ up
  /\ up' = FALSE
  /\ db' = Empty
  /\ changes' = 0
  /\ overdue' = FALSE
  /\ saver' = [s \in Savers |-> IF s \in Children THEN saver[s] ELSE Rest]
  /\ UNCHANGED <<clock, disk, late>>

\* main loads the file; after an error it goes on with what was loaded so far.
Start ==
  /\ ~up
  /\ up' = TRUE
  /\ db' = OnDisk
  /\ late' = {}
  /\ Touch(Keys)
  /\ UNCHANGED <<clock, changes, overdue, disk>>

-----------------------------------------------------------------------------
Init ==
  /\ up = TRUE
  /\ clock = 1
  /\ db = Empty
  /\ changes = 0
  /\ overdue = FALSE
  /\ saver = [s \in Savers |-> Rest]
  /\ files = [i \in Inodes |-> <<>>]
  /\ dump = None
  /\ tmp = None
  /\ late = {}

Next ==
  \/ \E s \in AutoSavers : auto_save(s) \/ auto_save_reset(s)
  \/ \E s \in Clients : save_command(s)
  \/ \E s \in Children : background_save(s)
  \/ \E s \in Savers :
       \/ open_temp(s) \/ write_header(s) \/ write_entry(s) \/ write_end(s)
       \/ close_temp(s) \/ rename_temp(s) \/ unlink_temp(s)
  \/ \E k \in Keys, o \in Object \cup {None} : write_command(k, o)
  \/ cleanup_expired_keys \/ Tick \/ SecondsPass \/ Crash \/ Start

Spec == Init /\ [][Next]_vars

\* What auto_save_thread does with a save once it has begun one.
AutoSaveStep(s) ==
  \/ auto_save(s) \/ open_temp(s) \/ write_header(s) \/ write_entry(s) \/ write_end(s)
  \/ close_temp(s) \/ rename_temp(s) \/ unlink_temp(s) \/ auto_save_reset(s)

\* Seconds pass, and the thread that sleeps one at a time is scheduled again.
FairSpec == Spec /\ WF_vars(SecondsPass) /\ \A s \in AutoSavers : WF_vars(AutoSaveStep(s))

-----------------------------------------------------------------------------
(* Properties                                                              *)

Locals ==
  [pc : {"idle", "open", "header", "entries", "close", "failed", "rename", "unlink", "reset"},
   ino : Inodes \cup {None}, off : Nat, buf : Seq(Block), at : 1 .. KeyCount + 1, now : Nat,
   mem : [Keys -> Object \cup {None}], touched : SUBSET Keys]

TypeOK ==
  /\ up \in BOOLEAN
  /\ clock \in Nat
  /\ db \in [Keys -> Object \cup {None}]
  /\ changes \in Nat
  /\ overdue \in BOOLEAN
  /\ saver \in [Savers -> Locals]
  /\ files \in [Inodes -> Seq(Block)]
  /\ dump \in Inodes \cup {None}
  /\ tmp \in Inodes \cup {None}
  /\ late \subseteq Keys

\* No save begins while another one runs.
OneAtATime == \A s, t \in Savers : Idle(s) \/ Idle(t) \/ s = t

\* Whenever the server is killed, the next one finds under dump.rdb every key as
\* it was when the last save that succeeded began, but for those written since;
\* nothing that was deleted or has expired comes back, and nothing is cut off.
DumpCurrent == up => \A k \in Keys \ late : OnDisk[k] = Live(db)[k]

\* dump.rdb always holds the whole of one save and nothing else: its header, its
\* entries and its end, however the saves before it ended.
DumpWhole ==
  dump # None =>
    LET f == files[dump]
    IN  /\ HasHeader(f) /\ Len(f) > 1 /\ f[Len(f)] = End
        /\ \A i \in 2 .. Len(f) - 1 : f[i].kind = "entry"

\* A write is followed by an automatic save, even if it is the last one for long
\* (or by the death of the server, which then counts from zero as well).
AutoSaveHappens == changes > 0 ~> changes = 0
=============================================================================
