----------------------------- MODULE ScanCache ------------------------------
(***************************************************************************)
(* The State of dupion over several program runs: the tree of entries, the *)
(* size and hash groups, the three scan passes and the cache file that     *)
(* carries the tree from one run to the next, while files are created,     *)
(* modified and deleted at any moment and the program may crash at any     *)
(* moment.                                                                 *)
(*                                                                         *)
(*   State::validate, set_valid        dupion/src/vfs/entry.rs             *)
(*   State::push_to_*_group,                                               *)
(*   is_file_read_candidate            dupion/src/state/mod.rs             *)
(*   store and load                    dupion/src/vfs/deser.rs             *)
(*   size_file, hash_files             dupion/src/driver/platterwalker.rs  *)
(*   the readahead's queue             reapfrog/src/lib.rs                 *)
(*   decode_zip                        dupion/src/zip/mod.rs               *)
(*                                                                         *)
(* Each action is one critical section of the state's RwLock or one system *)
(* call.  A hash is modelled by the content it was computed from: BLAKE3   *)
(* is taken to be free of collisions.  Every modification of a file gives  *)
(* it a ctime never seen before; the code compares ctimes in seconds, so   *)
(* two changes within a second are outside the model.                      *)
(***************************************************************************)
EXTENDS Naturals, FiniteSets

CONSTANTS
  Files,        \* paths of regular files below the scanned roots
  Archives,     \* the ones with an archive extension
  HugeThres,    \* huge_zip_thres: a larger archive is not decoded from memory
  Members,      \* names of archive members
  Contents,     \* what a file can contain
  Possible,     \* Possible[f]: what a scan may find in f
  SizeOf,       \* SizeOf[c]: the length of content c
  Holds,        \* Holds[c][m]: content of member m in an archive with content c
  None,         \* absent value, for Option::None and for a missing file
  ScanMin, ScanMax,  \* --min-size, --max-size
  MaxTime,      \* bound: number of file modifications
  MaxRuns       \* bound: number of program runs

ASSUME ConstantsAssumption ==
  /\ IsFiniteSet(Files) /\ IsFiniteSet(Members)
  /\ Archives \subseteq Files
  /\ HugeThres \in Nat
  /\ SizeOf \in [Contents -> Nat]
  /\ Possible \in [Files -> SUBSET Contents]
  /\ Holds \in [Contents -> [Members -> Contents \cup {None}]]
  /\ None \notin Contents /\ None \notin Files
  /\ None \notin Nat /\ None \notin [size : Nat, ctime : Nat]
  /\ ScanMin \in Nat /\ ScanMax \in Nat
  /\ MaxTime \in Nat /\ MaxRuns \in Nat
  /\ Files \cap (Archives \X Members) = {}

(* An entry of the tree is a file or a member of an archive.               *)
Nodes == Files \cup (Archives \X Members)

Entry == [ctime : Nat \cup {None}, size : Nat \cup {None}, hash : Contents \cup {None},
          valid : BOOLEAN, is_file : BOOLEAN, is_dir : BOOLEAN,
          was_file : BOOLEAN, was_dir : BOOLEAN]

(* VfsEntry::new; a path without an entry is represented by it.            *)
NewEntry == [ctime |-> None, size |-> None, hash |-> None,
             valid |-> FALSE, is_file |-> FALSE, is_dir |-> FALSE,
             was_file |-> FALSE, was_dir |-> FALSE]

VARIABLES
  disk,          \* disk[f]: content and ctime of file f, or None
  now,           \* ctime of the latest modification
  cache,         \* the entries in the cache file; an unreadable or absent
                 \* file loads as a tree of new entries
  runs,          \* program runs so far
  phase,         \* "off", "size", "hash", "post", "done"
  read_archives, \* opts.read_archives of this run
  tree,          \* State::tree
  sizes,         \* State::sizes: the entries of each size group
  hashes,        \* State::hashes: the entries of each hash group
  group_size,    \* HashGroup::size
  todo,          \* files this pass has not come to yet
  entries,       \* PlatterWalker::entries: the files found by pass 1
  meta,          \* metadata taken from a file and not used yet
  failed,        \* files whose error is in the readahead's queue
  behind,        \* the file whose error next() has returned last, or None
  lost,          \* lost[f]: the file behind whose error next() of this pass
                 \* has discarded the opened file f, or None
  reading,       \* the file hash_files is reading, or None
  data,          \* what it has read of it, or None before the end of file
  decode,        \* decoding task of each archive, or None: the content it
                 \* reads (None before it opens the file) and the members
                 \* it has still to decode
  panicked,      \* an assertion has failed in this run
  disturbed      \* files that changed or could not be read in this run

ahead == <<failed, behind, lost>>
scan == <<tree, sizes, hashes, group_size, todo, entries, meta, ahead, reading, data, decode>>
vars == <<disk, now, cache, runs, phase, read_archives, scan, panicked, disturbed>>

NoTree == [n \in Nodes |-> NewEntry]
SizeValues == {SizeOf[c] : c \in Contents}

(* The metadata of a file.                                                 *)
StatOf(f) == [size |-> SizeOf[disk[f].data], ctime |-> disk[f].ctime]

(* opts.zip_by_extension                                                   *)
IsZip(f) == read_archives /\ f \in Archives

Init ==
  /\ disk \in [Files -> [data : Contents, ctime : {0}] \cup {None}]
  /\ \A f \in Files : disk[f] # None => disk[f].data \in Possible[f]
  /\ now = 0
  /\ cache = NoTree
  /\ runs = 0
  /\ phase = "off"
  /\ read_archives = FALSE
  /\ tree = NoTree
  /\ sizes = [s \in SizeValues |-> {}]
  /\ hashes = [h \in Contents |-> {}]
  /\ group_size = [h \in Contents |-> None]
  /\ todo = {}
  /\ entries = {}
  /\ meta = [f \in Files |-> None]
  /\ failed = {}
  /\ behind = None
  /\ lost = [f \in Files |-> None]
  /\ reading = None
  /\ data = None
  /\ decode = [f \in Files |-> None]
  /\ panicked = FALSE
  /\ disturbed = {}

-----------------------------------------------------------------------------
(* Other programs.                                                         *)

(* A file is created, written or replaced.                                 *)
Modify(f, c) ==
  /\ now < MaxTime
  /\ now' = now + 1
  /\ disk' = [disk EXCEPT ![f] = [data |-> c, ctime |-> now + 1]]
  /\ disturbed' = disturbed \cup {f}
  /\ UNCHANGED <<cache, runs, phase, read_archives, scan, panicked>>

Delete(f) ==
  /\ disk[f] # None
  /\ disk' = [disk EXCEPT ![f] = None]
  /\ disturbed' = disturbed \cup {f}
  /\ UNCHANGED <<now, cache, runs, phase, read_archives, scan, panicked>>

-----------------------------------------------------------------------------
(* The cache file.                                                         *)

(* Mutant of Stored: the kinds of the entry are not written.               *)
StoredWithoutKinds(e) ==
  [ctime |-> e.ctime, size |-> e.size, hash |-> e.hash,
   valid |-> FALSE, is_file |-> FALSE, is_dir |-> FALSE]

(* EntryIntermediateMsgPack::from_entry followed by into_entry of the run  *)
(* that loads the file.                                                    *)
Stored(e) ==
  [ctime |-> e.ctime, size |-> e.size, hash |-> e.hash,
   valid |-> FALSE, is_file |-> FALSE, is_dir |-> FALSE,
   was_file |-> e.is_file \/ (e.was_file /\ ~e.valid),
   was_dir |-> e.is_dir \/ (e.was_dir /\ ~e.valid)]

Serialized(t) == [n \in Nodes |-> Stored(t[n])]

(* try_eventually_store_vfs: std::fs::write truncates and rewrites the     *)
(* file in place, so when it fails midway the file no longer loads.        *)
StoreOutcomes(t) == {Serialized(t), NoTree}

(* Without `force` it stores only if the info thread has set               *)
(* VFS_STORE_NOTIF, which it does every ten minutes.                       *)
NotifOutcomes(t) == StoreOutcomes(t) \cup {cache}

(* try_eventually_load_vfs: the entries of the file, or, when it cannot be *)
(* read, none.                                                             *)
LoadOutcomes == {cache, NoTree}

-----------------------------------------------------------------------------
(* Groups.                                                                 *)

Childs(t, f) ==
  IF f \in Archives THEN {n \in {f} \X Members : t[n] # NewEntry} ELSE {}

(* push_to_size_group for the file entries of S.                           *)
PushSizes(t, S) ==
  [s \in SizeValues |-> sizes[s] \cup {n \in S : t[n].is_file /\ t[n].size = s}]

(* push_to_hash_group for the hashed file entries of S ...                 *)
HashedIn(t, S) == {n \in S : t[n].is_file /\ t[n].hash # None}

PushHashes(t, S) ==
  [h \in Contents |-> hashes[h] \cup {n \in HashedIn(t, S) : t[n].hash = h}]

(* ... the first of which gives a new group its size ...                   *)
PushGroupSize(t, S) ==
  [h \in Contents |->
     IF group_size[h] = None /\ \E n \in HashedIn(t, S) : t[n].hash = h
     THEN t[CHOOSE n \in HashedIn(t, S) : t[n].hash = h].size
     ELSE group_size[h]]

(* ... while the others must agree: assert_eq!(v.size,size).               *)
PushPanics(t, S) ==
  \E n \in HashedIn(t, S) : t[n].size # PushGroupSize(t, S)[t[n].hash]

more_than_one_size(s) == Cardinality(sizes[s]) > 1

is_file_read_candidate(f) ==
  \/ /\ tree[f].hash = None
     /\ tree[f].is_file
     /\ \/ IsZip(f)
        \/ /\ more_than_one_size(tree[f].size)
           /\ tree[f].size >= ScanMin
           /\ tree[f].size <= ScanMax
  \/ IsZip(f) /\ tree[f].is_file /\ ~tree[f].is_dir

-----------------------------------------------------------------------------
(* Program start and end.                                                  *)

ClearScan ==
  /\ sizes' = [s \in SizeValues |-> {}]
  /\ hashes' = [h \in Contents |-> {}]
  /\ group_size' = [h \in Contents |-> None]
  /\ entries' = {}
  /\ meta' = [f \in Files |-> None]
  /\ failed' = {}
  /\ behind' = None
  /\ lost' = [f \in Files |-> None]
  /\ reading' = None
  /\ data' = None
  /\ decode' = [f \in Files |-> None]

(* main: eventually_load_vfs, then scan.                                   *)
Start(ra) ==
  /\ phase = "off"
  /\ runs < MaxRuns
  /\ runs' = runs + 1
  /\ read_archives' = ra
  /\ phase' = "size"
  /\ tree' \in LoadOutcomes
  /\ todo' = Files
  /\ ClearScan
  /\ disturbed' = {}
  /\ panicked' = FALSE
  /\ UNCHANGED <<disk, now, cache>>

(* State::set_valid of the entries S.                                      *)
SetValid(t, S) ==
  [n \in Nodes |->
     IF n \in S
     THEN [t[n] EXCEPT !.valid = TRUE,
                       !.is_file = @ \/ t[n].was_file,
                       !.is_dir = @ \/ t[n].was_dir]
     ELSE t[n]]

(* main with --no-scan: dirty_load trusts every entry of the loaded cache, *)
(* and nothing is stored.                                                  *)
DirtyLoad(c) ==
  LET S == {n \in Nodes : c[n] # NewEntry}
      t == SetValid(c, S)
  IN
  /\ phase = "off"
  /\ runs < MaxRuns
  /\ runs' = runs + 1
  /\ disturbed' = Files
  /\ panicked' = PushPanics(t, S)
  /\ IF PushPanics(t, S)
     THEN UNCHANGED <<phase, scan>>
     ELSE /\ phase' = "done"
          /\ tree' = t
          /\ sizes' = PushSizes(t, S)
          /\ hashes' = PushHashes(t, S)
          /\ group_size' = PushGroupSize(t, S)
          /\ UNCHANGED <<todo, entries, meta, ahead, reading, data, decode>>
  /\ UNCHANGED <<disk, now, cache, read_archives>>

(* The memory of the process is gone: at its end or when it is killed.     *)
Gone ==
  /\ phase' = "off"
  /\ tree' = NoTree
  /\ todo' = {}
  /\ ClearScan
  /\ UNCHANGED <<disk, now, runs, read_archives, panicked, disturbed>>

Exit ==
  /\ phase = "done"
  /\ Gone
  /\ UNCHANGED cache

(* A kill may hit the process while it writes the cache.                   *)
Crash ==
  /\ phase \in {"size", "hash", "post"}
  /\ Gone
  /\ cache' \in {cache, NoTree}

(* An assertion failed in the thread that goes through the files: it does  *)
(* nothing more, while tasks that were spawned run to their end.           *)
PanicInLoop ==
  /\ panicked' = TRUE
  /\ todo' = {}
  /\ meta' = [f \in Files |-> None]
  /\ failed' = {}
  /\ behind' = None
  /\ reading' = None
  /\ data' = None
  /\ UNCHANGED <<disk, now, cache, runs, phase, read_archives, sizes, hashes,
                 group_size, entries, lost, disturbed>>

Idle ==
  /\ todo = {} /\ failed = {} /\ behind = None
  /\ \A f \in Files : meta[f] = None /\ decode[f] = None
  /\ reading = None

(* pool.scope resumes the panic when every task has returned, and no run   *)
(* of a pass catches it.                                                   *)
Unwind ==
  /\ phase \in {"size", "hash", "post"}
  /\ Idle
  /\ panicked
  /\ Gone
  /\ UNCHANGED cache

-----------------------------------------------------------------------------
(* Pass 1.                                                                 *)

(* The walker takes the metadata of a file ...                             *)
Stat(f) ==
  /\ phase = "size"
  /\ f \in todo
  /\ disk[f] # None
  /\ meta' = [meta EXCEPT ![f] = StatOf(f)]
  /\ todo' = todo \ {f}
  /\ UNCHANGED <<disk, now, cache, runs, phase, read_archives, tree, sizes, hashes,
                 group_size, entries, ahead, reading, data, decode, panicked, disturbed>>

(* ... or does not find it, or fails.                                      *)
Miss(f) ==
  /\ phase = "size"
  /\ f \in todo
  /\ todo' = todo \ {f}
  /\ disturbed' = IF disk[f] = None THEN disturbed ELSE disturbed \cup {f}
  /\ UNCHANGED <<disk, now, cache, runs, phase, read_archives, tree, sizes, hashes,
                 group_size, entries, meta, ahead, reading, data, decode, panicked>>

(* Mutant of IsValid: the ctime is not compared.                           *)
IsValidBySize(f) == tree[f].size = meta[f].size

(* Mutant of IsValid: asks for the kind that set_valid has still to set.   *)
IsValidFile(f) ==
  /\ tree[f].ctime = meta[f].ctime
  /\ tree[f].size = meta[f].size
  /\ tree[f].is_file

IsValid(f) == tree[f].ctime = meta[f].ctime /\ tree[f].size = meta[f].size

(* Mutant of Validated: the hash of the previous content stays.            *)
ValidatedKeepsHash(f) ==
  IF IsValid(f)
  THEN SetValid(tree, {f} \cup Childs(tree, f))
  ELSE [tree EXCEPT ![f].size = None, ![f].ctime = meta[f].ctime, ![f].valid = TRUE]

(* State::validate                                                         *)
Validated(f) ==
  IF IsValid(f)
  THEN SetValid(tree, {f} \cup Childs(tree, f))
  ELSE [tree EXCEPT ![f].size = None, ![f].hash = None,
                    ![f].ctime = meta[f].ctime, ![f].valid = TRUE]

(* size_file                                                               *)
SizeFile(f) ==
  LET t == [Validated(f) EXCEPT ![f].is_file = TRUE, ![f].size = meta[f].size]
      S == {f} \cup (IF IsValid(f) THEN Childs(tree, f) ELSE {})
  IN
  /\ phase = "size"
  /\ meta[f] # None
  /\ tree' = t
  /\ IF PushPanics(t, S)
     THEN PanicInLoop /\ UNCHANGED decode
     ELSE /\ sizes' = PushSizes(t, S)
          /\ hashes' = PushHashes(t, S)
          /\ group_size' = PushGroupSize(t, S)
          /\ entries' = entries \cup {f}
          /\ meta' = [meta EXCEPT ![f] = None]
          /\ UNCHANGED <<disk, now, cache, runs, phase, read_archives,
                         todo, ahead, reading, data, decode, panicked, disturbed>>

EndSize ==
  /\ phase = "size"
  /\ Idle
  /\ ~panicked
  /\ phase' = "hash"
  /\ todo' = entries
  /\ UNCHANGED <<disk, now, cache, runs, read_archives, tree, sizes, hashes, group_size,
                 entries, meta, ahead, reading, data, decode, panicked, disturbed>>

-----------------------------------------------------------------------------
(* Passes 2 and 3: hash_files.                                             *)

Hashing == phase \in {"hash", "post"}

DoZips == phase = "hash"

(* The archives that are read into memory, and the ones that are read      *)
(* a second time by their task.                                            *)
InMemoryZip(f) == DoZips /\ IsZip(f) /\ meta[f].size <= HugeThres
HugeZip(f) == DoZips /\ IsZip(f) /\ meta[f].size > HugeThres

(* Between an error and the next call of next() nothing enters the queue.  *)
Queueing == Hashing /\ behind = None

(* The readahead asks its source for the next file: one that is not a      *)
(* candidate at this moment is filtered out, ...                           *)
Filter(f) ==
  /\ Queueing
  /\ f \in todo
  /\ ~is_file_read_candidate(f)
  /\ todo' = todo \ {f}
  /\ UNCHANGED <<disk, now, cache, runs, phase, read_archives, tree, sizes, hashes,
                 group_size, entries, meta, ahead, reading, data, decode, panicked, disturbed>>

(* ... a candidate is opened and its metadata taken.                       *)
Open(f) ==
  /\ Queueing
  /\ f \in todo
  /\ is_file_read_candidate(f)
  /\ disk[f] # None
  /\ meta' = [meta EXCEPT ![f] = StatOf(f)]
  /\ todo' = todo \ {f}
  /\ UNCHANGED <<disk, now, cache, runs, phase, read_archives, tree, sizes, hashes,
                 group_size, entries, ahead, reading, data, decode, panicked, disturbed>>

(* ... or cannot be opened, and its error is queued instead ...            *)
OpenError(f) ==
  /\ Queueing
  /\ f \in todo
  /\ is_file_read_candidate(f)
  /\ todo' = todo \ {f}
  /\ failed' = failed \cup {f}
  /\ disturbed' = disturbed \cup {f}
  /\ UNCHANGED <<disk, now, cache, runs, phase, read_archives, tree, sizes, hashes,
                 group_size, entries, meta, behind, lost, reading, data, decode, panicked>>

(* ... until next() takes it off the queue and returns it.                 *)
ReportError(f) ==
  /\ Queueing
  /\ reading = None
  /\ f \in failed
  /\ failed' = failed \ {f}
  /\ behind' = f
  /\ UNCHANGED <<disk, now, cache, runs, phase, read_archives, tree, sizes, hashes,
                 group_size, todo, entries, meta, lost, reading, data, decode, panicked,
                 disturbed>>

(* The next call of next() discards what it takes for the most recent      *)
(* file, and what is behind the error in the queue: a file that was        *)
(* opened, and that no one reads now, ...                                  *)
DiscardFile(f) ==
  /\ Hashing
  /\ behind # None
  /\ meta[f] # None
  /\ meta' = [meta EXCEPT ![f] = None]
  /\ lost' = [lost EXCEPT ![f] = behind]
  /\ behind' = None
  /\ UNCHANGED <<disk, now, cache, runs, phase, read_archives, tree, sizes, hashes,
                 group_size, todo, entries, failed, reading, data, decode, panicked,
                 disturbed>>

(* ... another error, which no one reports, ...                            *)
DiscardError(f) ==
  /\ Hashing
  /\ behind # None
  /\ f \in failed
  /\ failed' = failed \ {f}
  /\ behind' = None
  /\ UNCHANGED <<disk, now, cache, runs, phase, read_archives, tree, sizes, hashes,
                 group_size, todo, entries, meta, lost, reading, data, decode, panicked,
                 disturbed>>

(* ... or nothing.                                                         *)
DiscardNothing ==
  /\ Hashing
  /\ behind # None
  /\ failed = {} /\ \A f \in Files : meta[f] = None
  /\ behind' = None
  /\ UNCHANGED <<disk, now, cache, runs, phase, read_archives, tree, sizes, hashes,
                 group_size, todo, entries, meta, failed, lost, reading, data, decode,
                 panicked, disturbed>>

(* The file's turn has come, but it is not the one pass 1 saw.             *)
SkipComodified(f) ==
  /\ Queueing
  /\ reading = None
  /\ meta[f] # None
  /\ tree[f].size # meta[f].size \/ tree[f].ctime # meta[f].ctime
  /\ meta' = [meta EXCEPT ![f] = None]
  /\ UNCHANGED <<disk, now, cache, runs, phase, read_archives, tree, sizes, hashes,
                 group_size, todo, entries, ahead, reading, data, decode, panicked, disturbed>>

(* It is: reading starts.  The task of a huge archive is spawned first.    *)
StartRead(f) ==
  /\ Queueing
  /\ reading = None
  /\ meta[f] # None
  /\ tree[f].size = meta[f].size
  /\ tree[f].ctime = meta[f].ctime
  /\ reading' = f
  /\ decode' = IF HugeZip(f)
               THEN [decode EXCEPT ![f] = [data |-> None, left |-> {}]]
               ELSE decode
  /\ UNCHANGED <<disk, now, cache, runs, phase, read_archives, tree, sizes, hashes,
                 group_size, todo, entries, meta, ahead, data, panicked, disturbed>>

(* The members of an archive with content c.                               *)
MembersOf(c) == {m \in Members : Holds[c][m] # None}

(* What has been read by the end of the file: its content, or, when the    *)
(* file was modified since it was opened, anything.                        *)
ReadOutcomes(f) ==
  IF disk[f] # None /\ disk[f].ctime = meta[f].ctime THEN {disk[f].data} ELSE Possible[f]

(* The end of the file, or of the buffer that has the size of the archive, *)
(* which is then handed to its task.                                       *)
FinishRead(c) ==
  /\ reading # None
  /\ data = None
  /\ c \in ReadOutcomes(reading)
  /\ InMemoryZip(reading) => SizeOf[c] = meta[reading].size
  /\ data' = c
  /\ decode' = IF InMemoryZip(reading)
               THEN [decode EXCEPT ![reading] = [data |-> c, left |-> MembersOf(c)]]
               ELSE decode
  /\ UNCHANGED <<disk, now, cache, runs, phase, read_archives, tree, sizes, hashes,
                 group_size, todo, entries, meta, ahead, reading, panicked, disturbed>>

ReadError ==
  /\ reading # None
  /\ data = None
  /\ disturbed' = disturbed \cup {reading}
  /\ meta' = [meta EXCEPT ![reading] = None]
  /\ reading' = None
  /\ UNCHANGED <<disk, now, cache, runs, phase, read_archives, tree, sizes, hashes,
                 group_size, todo, entries, ahead, data, decode, panicked>>

(* An archive in memory that got shorter: assert_eq!(off,size).            *)
ShortRead(c) ==
  /\ reading # None
  /\ data = None
  /\ InMemoryZip(reading)
  /\ c \in ReadOutcomes(reading)
  /\ SizeOf[c] < meta[reading].size
  /\ PanicInLoop
  /\ UNCHANGED <<tree, decode>>

(* The hash is stored, and perhaps the cache.                              *)
Commit ==
  LET f == reading
      t == [tree EXCEPT ![f].hash = data, ![f].is_dir = @ \/ IsZip(f)]
  IN
  /\ data # None
  /\ tree' = t
  /\ IF PushPanics(t, {f})
     THEN PanicInLoop /\ UNCHANGED decode
     ELSE /\ hashes' = PushHashes(t, {f})
          /\ group_size' = PushGroupSize(t, {f})
          /\ cache' \in NotifOutcomes(t)
          /\ meta' = [meta EXCEPT ![f] = None]
          /\ reading' = None
          /\ data' = None
          /\ UNCHANGED <<disk, now, runs, phase, read_archives, sizes, todo, entries, ahead,
                         decode, panicked, disturbed>>

-----------------------------------------------------------------------------
(* The decoding tasks.                                                     *)

(* The task of a huge archive stores the cache if it is time, and opens    *)
(* the file itself.                                                        *)
TaskOpen(f) ==
  /\ decode[f] # None
  /\ decode[f].data = None
  /\ cache' \in NotifOutcomes(tree)
  /\ decode' = [decode EXCEPT ![f] =
                  IF disk[f] = None THEN None
                  ELSE [data |-> disk[f].data, left |-> MembersOf(disk[f].data)]]
  /\ UNCHANGED <<disk, now, runs, phase, read_archives, tree, sizes, hashes, group_size,
                 todo, entries, meta, ahead, reading, data, panicked, disturbed>>

(* One round of decode_zip: a member is entered into the tree, where       *)
(* cid_and_create makes its archive a directory.                           *)
DecodeMember(f, m) ==
  LET n == <<f, m>>
      c == Holds[decode[f].data][m]
      t == [tree EXCEPT ![n].is_dir = FALSE, ![n].is_file = TRUE, ![n].valid = TRUE,
                        ![n].size = SizeOf[c], ![n].hash = c,
                        ![f].is_dir = TRUE]
  IN
  /\ decode[f] # None
  /\ m \in decode[f].left
  /\ tree' = t
  /\ sizes' = PushSizes(t, {n})
  /\ IF PushPanics(t, {n})
     THEN /\ panicked' = TRUE
          /\ decode' = [decode EXCEPT ![f] = None]
          /\ UNCHANGED <<hashes, group_size>>
     ELSE /\ hashes' = PushHashes(t, {n})
          /\ group_size' = PushGroupSize(t, {n})
          /\ decode' = [decode EXCEPT ![f].left = @ \ {m}]
          /\ UNCHANGED panicked
  /\ UNCHANGED <<disk, now, cache, runs, phase, read_archives, todo, entries,
                 meta, ahead, reading, data, disturbed>>

(* A member that cannot be read is passed over: try_counted.               *)
MemberError(f, m) ==
  /\ decode[f] # None
  /\ m \in decode[f].left
  /\ decode' = [decode EXCEPT ![f].left = @ \ {m}]
  /\ disturbed' = disturbed \cup {f}
  /\ UNCHANGED <<disk, now, cache, runs, phase, read_archives, tree, sizes, hashes,
                 group_size, todo, entries, meta, ahead, reading, data, panicked>>

(* The end of the archive.                                                 *)
TaskEnd(f) ==
  /\ decode[f] # None
  /\ decode[f].data # None
  /\ decode[f].left = {}
  /\ decode' = [decode EXCEPT ![f] = None]
  /\ UNCHANGED <<disk, now, cache, runs, phase, read_archives, tree, sizes, hashes,
                 group_size, todo, entries, meta, ahead, reading, data, panicked, disturbed>>

(* File::open, open_zip or decode_zip failed: the rest is not decoded, as  *)
(* after 16 errors in a row.                                               *)
TaskFail(f) ==
  /\ decode[f] # None
  /\ decode' = [decode EXCEPT ![f] = None]
  /\ disturbed' = disturbed \cup {f}
  /\ UNCHANGED <<disk, now, cache, runs, phase, read_archives, tree, sizes, hashes,
                 group_size, todo, entries, meta, ahead, reading, data, panicked>>

-----------------------------------------------------------------------------
(* Mutant of EndHash: there is no pass 3.                                  *)
EndHashDone ==
  /\ phase = "hash"
  /\ Idle
  /\ ~panicked
  /\ phase' = "done"
  /\ cache' \in StoreOutcomes(tree)
  /\ UNCHANGED <<disk, now, runs, read_archives, scan, panicked, disturbed>>

(* pool.scope has returned: the next pass goes through the entries again.  *)
EndHash ==
  /\ phase = "hash"
  /\ Idle
  /\ ~panicked
  /\ phase' = "post"
  /\ todo' = entries
  /\ lost' = [f \in Files |-> None]
  /\ UNCHANGED <<disk, now, cache, runs, read_archives, tree, sizes, hashes, group_size,
                 entries, meta, failed, behind, reading, data, decode, panicked, disturbed>>

(* The scan is complete and the cache is stored.                           *)
EndPost ==
  /\ phase = "post"
  /\ Idle
  /\ ~panicked
  /\ phase' = "done"
  /\ cache' \in StoreOutcomes(tree)
  /\ UNCHANGED <<disk, now, runs, read_archives, scan, panicked, disturbed>>

-----------------------------------------------------------------------------
Environment ==
  \/ \E f \in Files : \E c \in Possible[f] : Modify(f, c)
  \/ \E f \in Files : Delete(f)

Process ==
  \/ \E ra \in BOOLEAN : Start(ra)
  \/ \E c \in LoadOutcomes : DirtyLoad(c)
  \/ Exit
  \/ Crash
  \/ Unwind

Passes ==
  \/ \E f \in Files :
       \/ Stat(f) \/ Miss(f) \/ SizeFile(f)
       \/ Filter(f) \/ Open(f) \/ OpenError(f) \/ SkipComodified(f) \/ StartRead(f)
       \/ ReportError(f) \/ DiscardFile(f) \/ DiscardError(f)
  \/ DiscardNothing
  \/ EndSize
  \/ \E c \in Contents : FinishRead(c) \/ ShortRead(c)
  \/ ReadError
  \/ Commit
  \/ EndHash
  \/ EndPost

Tasks ==
  \E f \in Archives :
    \/ TaskOpen(f) \/ TaskEnd(f) \/ TaskFail(f)
    \/ \E m \in Members : DecodeMember(f, m) \/ MemberError(f, m)

Next == Environment \/ Process \/ Passes \/ Tasks

Spec == Init /\ [][Next]_vars

-----------------------------------------------------------------------------
(* Properties.                                                             *)

Meta == [size : Nat, ctime : Nat] \cup {None}
DecodeTask == [data : Contents \cup {None}, left : SUBSET Members] \cup {None}

(* The entries of tree and cache, the groups and the state of the passes   *)
(* have the types the code gives them.                                     *)
TypeOK ==
  /\ disk \in [Files -> [data : Contents, ctime : Nat] \cup {None}]
  /\ now \in Nat
  /\ cache \in [Nodes -> Entry]
  /\ runs \in Nat
  /\ phase \in {"off", "size", "hash", "post", "done"}
  /\ read_archives \in BOOLEAN
  /\ tree \in [Nodes -> Entry]
  /\ sizes \in [SizeValues -> SUBSET Nodes]
  /\ hashes \in [Contents -> SUBSET Nodes]
  /\ group_size \in [Contents -> Nat \cup {None}]
  /\ todo \in SUBSET Files
  /\ entries \in SUBSET Files
  /\ meta \in [Files -> Meta]
  /\ failed \in SUBSET Files
  /\ behind \in Files \cup {None}
  /\ lost \in [Files -> Files \cup {None}]
  /\ reading \in Files \cup {None}
  /\ data \in Contents \cup {None}
  /\ decode \in [Files -> DecodeTask]
  /\ panicked \in BOOLEAN
  /\ disturbed \in SUBSET Files

(* A recorded hash is the hash of the file as long as the recorded ctime   *)
(* is the file's ctime: this is what lets a later run (validate) and the   *)
(* grouping of this run trust it without reading the file.                 *)
FreshIn(d, t) ==
  \A f \in Files :
    (d[f] # None /\ t[f].hash # None /\ t[f].ctime = d[f].ctime)
       => t[f].hash = d[f].data

HashFresh == FreshIn(disk, tree) /\ FreshIn(disk, cache)

(* After a scan every file that was left alone, could be read and shares   *)
(* its size with another entry is hashed, also when the other entry is a   *)
(* member of an archive that was decoded late in pass 2.  The exception is *)
(* a file that the readahead of pass 3 has discarded behind the error of   *)
(* another one: such files are no more than the errors of the pass, each   *)
(* behind an error of its own, and a file lost in pass 2 gets its turn     *)
(* again in pass 3.                                                        *)
Undisturbed(f) == f \notin disturbed /\ disk[f] # None

CandidatesHashed ==
  phase = "done" =>
    \A f \in Files :
      /\ /\ Undisturbed(f) /\ lost[f] = None
         /\ \E n \in sizes[SizeOf[disk[f].data]] : n # f
         /\ SizeOf[disk[f].data] \in ScanMin..ScanMax
         => f \in hashes[disk[f].data]
      /\ lost[f] # None =>
           /\ lost[f] \in disturbed
           /\ \A g \in Files \ {f} : lost[g] # lost[f]

(* Files that were left alone are grouped by content: a hash group holds   *)
(* no file with another content, and the group has the files' size.        *)
GroupsByContent ==
  phase = "done" =>
    \A h \in Contents : \A f \in hashes[h] \cap Files :
      Undisturbed(f) => disk[f].data = h /\ group_size[h] = SizeOf[h]

(* A hash that is still right is not thrown away while the program runs:   *)
(* a file is not read again because of validate, of a crash of an earlier  *)
(* run or of a change of another file.                                     *)
Known(f) == /\ disk[f] # None
            /\ tree[f].hash # None
            /\ tree[f].ctime = disk[f].ctime

HashKept ==
  [][\A f \in Files :
       (phase # "off" /\ phase' # "off" /\ Known(f)) => tree'[f].hash = tree[f].hash]_vars

(* No assertion fails in any order of events.                              *)
NoPanic == ~panicked

(* What is listed as a member of an archive is one.                        *)
NoPhantomMembers ==
  phase = "done" =>
    \A f \in Archives : \A m \in Members :
      (Undisturbed(f) /\ tree[<<f, m>>].is_file) => m \in MembersOf(disk[f].data)

-----------------------------------------------------------------------------
(* The inductive invariant behind HashFresh.                               *)

(* No recorded ctime is later than the latest modification, so the next    *)
(* modification invalidates whatever was recorded about its file.          *)
NotLater(n, t) == \A f \in Files : t[f].ctime # None => t[f].ctime <= n

TimesInv ==
  /\ NotLater(now, tree)
  /\ NotLater(now, cache)
  /\ \A f \in Files : disk[f] # None => disk[f].ctime <= now
  /\ \A f \in Files : meta[f] # None => meta[f].ctime <= now

(* A file is read only between the comodification check and the commit,    *)
(* and what was read is its content unless it was modified since pass 1.   *)
ReadInv ==
  /\ \A f \in Files : meta[f] # None => f \notin todo
  /\ reading # None =>
       /\ phase \in {"hash", "post"}
       /\ meta[reading] # None /\ behind = None
       /\ tree[reading].ctime = meta[reading].ctime
  /\ data # None =>
       /\ reading # None
       /\ (disk[reading] # None /\ disk[reading].ctime = tree[reading].ctime)
             => data = disk[reading].data

(* A task decodes what its archive holds.                                  *)
DecodeInv ==
  \A f \in Files : (decode[f] # None /\ decode[f].left # {}) =>
    /\ decode[f].data # None
    /\ decode[f].left \subseteq MembersOf(decode[f].data)

IInv == TypeOK /\ TimesInv /\ ReadInv /\ DecodeInv /\ HashFresh

(* What HashKept needs besides: a recorded size is the file's as long as   *)
(* the recorded ctime is, ...                                              *)
SizesIn(d, t) ==
  \A f \in Files : (d[f] # None /\ t[f].ctime = d[f].ctime) => t[f].size = SizeOf[d[f].data]

(* ... and so is the size in metadata, which are not older than the entry. *)
MetaIn(d, t, m) ==
  \A f \in Files : (d[f] # None /\ m[f] # None) =>
    /\ m[f].ctime = d[f].ctime => m[f].size = SizeOf[d[f].data]
    /\ t[f].ctime = d[f].ctime => m[f].ctime = d[f].ctime

SizesInv ==
  /\ SizesIn(disk, tree) /\ SizesIn(disk, cache) /\ MetaIn(disk, tree, meta)
  /\ phase = "off" => \A f \in Files : meta[f] = None

-----------------------------------------------------------------------------
(* The inductive invariant of GroupsByContent and CandidatesHashed.        *)

(* The entry of a file is up to date, and in the groups it belongs to.     *)
Entered(f) ==
  /\ tree[f].ctime = disk[f].ctime
  /\ tree[f].is_file
  /\ f \in sizes[tree[f].size]
  /\ tree[f].hash # None => f \in hashes[tree[f].hash]

(* What a run knows of a file that was left alone is the file's: metadata  *)
(* taken from it, and its hash group, whose size is that of its entry.     *)
Alone(f) ==
  /\ meta[f] # None => meta[f] = StatOf(f)
  /\ \A h \in Contents : f \in hashes[h] =>
       /\ tree[f].ctime = disk[f].ctime
       /\ tree[f].hash = h
       /\ group_size[h] = tree[f].size
  /\ f \in entries /\ ~panicked => Entered(f)

AloneInv == \A f \in Files : Undisturbed(f) => Alone(f)

(* A file that pass 3 has to hash.                                         *)
Unhashed(f) ==
  /\ tree[f].hash = None
  /\ tree[f].is_file
  /\ more_than_one_size(tree[f].size)
  /\ tree[f].size \in ScanMin..ScanMax

(* No pass loses a file: pass 1 enters it, and pass 3, in which the size   *)
(* groups stay as they are because no archive is decoded, hashes it.       *)
PassInv ==
  /\ phase # "hash" => \A f \in Files : decode[f] = None
  /\ phase = "size" => \A f \in Files : lost[f] = None
  /\ phase = "done" => ~panicked
  /\ ~panicked => \A f \in Files : Undisturbed(f) =>
       /\ phase = "size" => f \in todo \/ meta[f] # None \/ f \in entries
       /\ phase \in {"hash", "post", "done"} => f \in entries
       /\ phase = "post" => f \in todo \/ meta[f] # None \/ lost[f] # None \/ ~Unhashed(f)
       /\ phase = "done" => lost[f] # None \/ ~Unhashed(f)

ScanInv == AloneInv /\ PassInv

(* An error is in one place, and discards one file at most.                *)
ErrorInv ==
  /\ failed \cap todo = {} /\ behind \notin todo \cup failed
  /\ failed \subseteq disturbed /\ (behind # None => behind \in disturbed)
  /\ \A f \in Files : lost[f] # None =>
       /\ lost[f] \in disturbed \ (todo \cup failed \cup {behind})
       /\ \A g \in Files \ {f} : lost[g] # lost[f]
=============================================================================
