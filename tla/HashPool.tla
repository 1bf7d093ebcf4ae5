------------------------------ MODULE HashPool ------------------------------
(***************************************************************************)
(* One call of hash_files (dupion/src/driver/platterwalker.rs): the        *)
(* closure given to pool.scope reads the candidate files one after the     *)
(* other and spawns an archive decoding task for every archive.  Two       *)
(* resources are shared between the closure and the tasks:                 *)
(*                                                                         *)
(*   - read_mutex (util::ZeroLock): at most one thread reads the disk.     *)
(*     The closure keeps it between files; the task of a huge archive      *)
(*     takes it around each read (util::MutexedReader).                    *)
(*   - ALLOC_MON (util::AllocMonBuf): the bytes of archives kept in        *)
(*     memory.  The closure waits in AllocMonBuf::new until a new buffer   *)
(*     fits in archive_cache_mem; the buffer is dropped by its task.       *)
(*                                                                         *)
(* The closure runs on a worker of the rayon pool, so a pool of            *)
(* opts.threads workers has one worker less for the tasks until the        *)
(* closure has returned.                                                   *)
(*                                                                         *)
(* What is written to the State under its RwLock is the subject of the     *)
(* module ScanCache; here a commit only records that a file was hashed.    *)
(***************************************************************************)
EXTENDS Naturals, FiniteSets

CONSTANTS
  N,            \* number of candidates the reader yields
  IsZip,        \* IsZip[i]: zip_by_extension of candidate i
  Size,         \* Size[i]: the size of candidate i
  Chunks,       \* Chunks[i]: reads of 64 MiB a huge archive i takes
  Threads,      \* opts.threads
  CacheMem,     \* opts.archive_cache_mem
  DoZips        \* the parameter do_zips: pass 2 decodes, pass 3 does not

Files == 1..N

ASSUME ConstantsAssumption ==
  /\ N \in Nat
  /\ Threads \in Nat \ {0}
  /\ CacheMem \in Nat
  /\ IsZip \in [Files -> BOOLEAN]
  /\ Size \in [Files -> Nat]
  /\ Chunks \in [Files -> Nat]
  /\ DoZips \in BOOLEAN

VARIABLES
  pc,           \* where the scope closure is
  cur,          \* the candidate the reader is at, N + 1 when it is exhausted
  read_mutex,   \* who holds the mutex: 0 nobody, N + 1 the closure, i task i
  ALLOC_MON,    \* bytes accounted to live AllocMonBufs
  bufs,         \* the candidates whose AllocMonBuf is alive
  task,         \* state of the decoding task of each candidate
  left,         \* reads that a huge task still has to do
  hashed,       \* candidates whose hash was committed
  skipped       \* candidates given up: unreadable or modified meanwhile

vars == <<pc, cur, read_mutex, ALLOC_MON, bufs, task, left, hashed, skipped>>

Free == 0
Closure == N + 1

(* An archive of at most this size is kept in memory for its task.         *)
HugeZipThres == CacheMem \div Threads

InMemory(i) == DoZips /\ IsZip[i] /\ Size[i] <= HugeZipThres

Huge(i) == DoZips /\ IsZip[i] /\ Size[i] > HugeZipThres

Running == {i \in Files : task[i] \in {"open", "wait", "read", "decode"}}

ClosureReturned == pc \in {"returned", "panicked"}

(* The workers of the pool that execute something: the scope closure       *)
(* occupies one until it returns, then that worker helps with the tasks.   *)
BusyWorkers == Cardinality(Running) + IF ClosureReturned THEN 0 ELSE 1

Init ==
  /\ pc = "lock"
  /\ cur = 1
  /\ read_mutex = Free
  /\ ALLOC_MON = 0
  /\ bufs = {}
  /\ task = [i \in Files |-> "none"]
  /\ left = [i \in Files |-> 0]
  /\ hashed = {}
  /\ skipped = {}

-----------------------------------------------------------------------------
(* The scope closure.                                                      *)

(* local_read_lock.lock() before the loop and at the end of each round.    *)
Lock ==
  /\ pc = "lock"
  /\ read_mutex = Free
  /\ read_mutex' = Closure
  /\ pc' = "next"
  /\ UNCHANGED <<cur, ALLOC_MON, bufs, task, left, hashed, skipped>>

(* Mutant of Return: the mutex stays locked.                               *)
ReturnLocked ==
  /\ pc = "next"
  /\ cur > N
  /\ pc' = "returned"
  /\ UNCHANGED <<cur, read_mutex, ALLOC_MON, bufs, task, left, hashed, skipped>>

(* reaper.next() = None: leave the loop, unlock, return.                   *)
Return ==
  /\ pc = "next"
  /\ cur > N
  /\ read_mutex' = Free
  /\ pc' = "returned"
  /\ UNCHANGED <<cur, ALLOC_MON, bufs, task, left, hashed, skipped>>

(* An error of the reader, or a file whose size or ctime is not the one    *)
(* found in pass 1: `continue` with the mutex kept.                        *)
SkipFile ==
  /\ pc = "next"
  /\ cur \in Files
  /\ skipped' = skipped \cup {cur}
  /\ cur' = cur + 1
  /\ UNCHANGED <<pc, read_mutex, ALLOC_MON, bufs, task, left, hashed>>

(* An archive to keep in memory: AllocMonBuf::new is called.               *)
StartAlloc ==
  /\ pc = "next"
  /\ cur \in Files
  /\ InMemory(cur)
  /\ pc' = "await"
  /\ UNCHANGED <<cur, read_mutex, ALLOC_MON, bufs, task, left, hashed, skipped>>

(* Mutant of AwaitMemory: the size of the new buffer is not counted.       *)
AwaitMemoryNoSize ==
  /\ pc = "await"
  /\ ALLOC_MON <= CacheMem
  /\ pc' = "alloc"
  /\ UNCHANGED <<cur, read_mutex, ALLOC_MON, bufs, task, left, hashed, skipped>>

(* It looks at ALLOC_MON every 50 ms until the buffer fits.  The mutex     *)
(* stays locked meanwhile.                                                 *)
AwaitMemory ==
  /\ pc = "await"
  /\ ALLOC_MON + Size[cur] <= CacheMem
  /\ pc' = "alloc"
  /\ UNCHANGED <<cur, read_mutex, ALLOC_MON, bufs, task, left, hashed, skipped>>

(* ALLOC_MON.fetch_add(size), a step after the load that let it through.   *)
Alloc ==
  /\ pc = "alloc"
  /\ ALLOC_MON' = ALLOC_MON + Size[cur]
  /\ bufs' = bufs \cup {cur}
  /\ pc' = "read"
  /\ UNCHANGED <<cur, read_mutex, task, left, hashed, skipped>>

(* A file that is only hashed, or a huge archive: the task of the latter   *)
(* is spawned before the closure reads the file.                           *)
StartRead ==
  /\ pc = "next"
  /\ cur \in Files
  /\ ~InMemory(cur)
  /\ task' = [task EXCEPT ![cur] = IF Huge(cur) THEN "queued" ELSE @]
  /\ pc' = "read"
  /\ UNCHANGED <<cur, read_mutex, ALLOC_MON, bufs, left, hashed, skipped>>

(* Mutant of FinishRead: the buffer is dropped at the end of the round     *)
(* although its task was spawned.                                          *)
FinishReadDrop ==
  /\ pc = "read"
  /\ read_mutex' = Free
  /\ task' = [task EXCEPT ![cur] = IF InMemory(cur) THEN "queued" ELSE @]
  /\ ALLOC_MON' = IF cur \in bufs THEN ALLOC_MON - Size[cur] ELSE ALLOC_MON
  /\ bufs' = bufs \ {cur}
  /\ pc' = "commit"
  /\ UNCHANGED <<cur, left, hashed, skipped>>

(* The read loop reached the end of the file: unlock, and hand the buffer  *)
(* of an archive kept in memory to its task.                               *)
FinishRead ==
  /\ pc = "read"
  /\ read_mutex' = Free
  /\ task' = [task EXCEPT ![cur] = IF InMemory(cur) THEN "queued" ELSE @]
  /\ pc' = "commit"
  /\ UNCHANGED <<cur, ALLOC_MON, bufs, left, hashed, skipped>>

(* Mutant of FailRead: every failing file is subtracted from ALLOC_MON,    *)
(* with or without a buffer.                                               *)
FailReadSubtract ==
  /\ pc = "read"
  /\ skipped' = skipped \cup {cur}
  /\ ALLOC_MON' = ALLOC_MON - Size[cur]
  /\ bufs' = bufs \ {cur}
  /\ cur' = cur + 1
  /\ pc' = "next"
  /\ UNCHANGED <<read_mutex, task, left, hashed>>

(* Mutant of FailRead: the mutex is released, but the loop goes on as if   *)
(* it were held.                                                           *)
FailReadUnlock ==
  /\ pc = "read"
  /\ skipped' = skipped \cup {cur}
  /\ read_mutex' = Free
  /\ ALLOC_MON' = IF cur \in bufs THEN ALLOC_MON - Size[cur] ELSE ALLOC_MON
  /\ bufs' = bufs \ {cur}
  /\ cur' = cur + 1
  /\ pc' = "next"
  /\ UNCHANGED <<task, left, hashed>>

(* Mutant of FailRead: the same file is tried again.                       *)
FailReadRetry ==
  /\ pc = "read"
  /\ ALLOC_MON' = IF cur \in bufs THEN ALLOC_MON - Size[cur] ELSE ALLOC_MON
  /\ bufs' = bufs \ {cur}
  /\ pc' = "next"
  /\ UNCHANGED <<cur, read_mutex, task, left, hashed, skipped>>

(* A read error: `continue 'big` drops the buffer and keeps the mutex.     *)
FailRead ==
  /\ pc = "read"
  /\ skipped' = skipped \cup {cur}
  /\ ALLOC_MON' = IF cur \in bufs THEN ALLOC_MON - Size[cur] ELSE ALLOC_MON
  /\ bufs' = bufs \ {cur}
  /\ cur' = cur + 1
  /\ pc' = "next"
  /\ UNCHANGED <<read_mutex, task, left, hashed>>

(* The archive shrank after its metadata was read: the mutex is released   *)
(* and assert_eq!(off,size) unwinds the closure, which drops the buffer.   *)
ShortRead ==
  /\ pc = "read"
  /\ cur \in bufs
  /\ read_mutex' = Free
  /\ ALLOC_MON' = ALLOC_MON - Size[cur]
  /\ bufs' = bufs \ {cur}
  /\ pc' = "panicked"
  /\ UNCHANGED <<cur, task, left, hashed, skipped>>

(* The hash is stored under the write lock of the state.                   *)
Commit ==
  /\ pc = "commit"
  /\ hashed' = hashed \cup {cur}
  /\ cur' = cur + 1
  /\ pc' = "lock"
  /\ UNCHANGED <<read_mutex, ALLOC_MON, bufs, task, left, skipped>>

-----------------------------------------------------------------------------
(* The decoding tasks.                                                     *)

(* A worker without work takes a spawned job.                              *)
TaskStart(i) ==
  /\ task[i] = "queued"
  /\ BusyWorkers < Threads
  /\ task' = [task EXCEPT ![i] = IF Huge(i) THEN "open" ELSE "decode"]
  /\ left' = [left EXCEPT ![i] = IF Huge(i) THEN Chunks[i] ELSE 0]
  /\ UNCHANGED <<pc, cur, read_mutex, ALLOC_MON, bufs, hashed, skipped>>

(* MutexedReader::read of a huge archive asks for the mutex, ...           *)
TaskRequest(i) ==
  /\ task[i] = "open"
  /\ left[i] > 0
  /\ task' = [task EXCEPT ![i] = "wait"]
  /\ UNCHANGED <<pc, cur, read_mutex, ALLOC_MON, bufs, left, hashed, skipped>>

(* ... gets it, ...                                                        *)
TaskLock(i) ==
  /\ task[i] = "wait"
  /\ read_mutex = Free
  /\ read_mutex' = i
  /\ task' = [task EXCEPT ![i] = "read"]
  /\ UNCHANGED <<pc, cur, ALLOC_MON, bufs, left, hashed, skipped>>

(* ... reads and unlocks, whatever the read returns.                       *)
TaskRead(i) ==
  /\ task[i] = "read"
  /\ read_mutex' = Free
  /\ left' = [left EXCEPT ![i] = @ - 1]
  /\ task' = [task EXCEPT ![i] = "open"]
  /\ UNCHANGED <<pc, cur, ALLOC_MON, bufs, hashed, skipped>>

(* The task of a huge archive returns at the end of the archive, or at an  *)
(* error of File::open, open_zip or decode_zip.                            *)
TaskReturn(i) ==
  /\ task[i] = "open"
  /\ task' = [task EXCEPT ![i] = "done"]
  /\ UNCHANGED <<pc, cur, read_mutex, ALLOC_MON, bufs, left, hashed, skipped>>

(* Mutant of TaskDrop: the buffer stays accounted.                         *)
TaskDropLeak(i) ==
  /\ task[i] = "decode"
  /\ task' = [task EXCEPT ![i] = "done"]
  /\ bufs' = bufs \ {i}
  /\ UNCHANGED <<pc, cur, read_mutex, ALLOC_MON, left, hashed, skipped>>

(* The task of an archive in memory returns and drops its AllocMonBuf.     *)
TaskDrop(i) ==
  /\ task[i] = "decode"
  /\ task' = [task EXCEPT ![i] = "done"]
  /\ ALLOC_MON' = ALLOC_MON - Size[i]
  /\ bufs' = bufs \ {i}
  /\ UNCHANGED <<pc, cur, read_mutex, left, hashed, skipped>>

-----------------------------------------------------------------------------
ScopeClosure ==
  \/ Lock
  \/ Return
  \/ SkipFile
  \/ StartAlloc
  \/ AwaitMemory
  \/ Alloc
  \/ StartRead
  \/ FinishRead
  \/ FailRead
  \/ ShortRead
  \/ Commit

Task(i) ==
  \/ TaskStart(i)
  \/ TaskRequest(i)
  \/ TaskLock(i)
  \/ TaskRead(i)
  \/ TaskReturn(i)
  \/ TaskDrop(i)

(* pool.scope returns (or resumes the panic) when the closure has returned *)
(* and every spawned task has finished.                                    *)
ScopeDone ==
  /\ ClosureReturned
  /\ \A i \in Files : task[i] \in {"none", "done"}

Finished == ScopeDone /\ UNCHANGED vars

Next ==
  \/ ScopeClosure
  \/ \E i \in Files : Task(i)
  \/ Finished

(* Threads run: the operating system schedules each of them, a sleeping    *)
(* closure wakes up every 50 ms, and the mutex is passed on.               *)
Fairness ==
  /\ WF_vars(ScopeClosure)
  /\ \A i \in Files : WF_vars(Task(i))

Spec == Init /\ [][Next]_vars /\ Fairness

-----------------------------------------------------------------------------
(* Properties.                                                             *)

(* The closure, the accounting and the tasks of hash_files stay within     *)
(* their ranges; in particular ALLOC_MON never goes below zero.            *)
TypeOK ==
  /\ pc \in {"lock", "next", "await", "alloc", "read", "commit", "returned", "panicked"}
  /\ cur \in 1..(N + 1)
  /\ read_mutex \in 0..(N + 1)
  /\ ALLOC_MON \in Nat
  /\ bufs \in SUBSET Files
  /\ task \in [Files -> {"none", "queued", "open", "wait", "read", "decode", "done"}]
  /\ left \in [Files -> Nat]
  /\ hashed \in SUBSET Files
  /\ skipped \in SUBSET Files

(* At most one thread reads the disk: while the closure reads a candidate  *)
(* no decoding task is inside MutexedReader::read, and no two tasks are.   *)
(* The closure keeps read_mutex across `continue` and frees it only around *)
(* a commit, so this holds only if every exit of a round keeps its half of *)
(* the lock discipline.                                                    *)
OneDiskReader ==
  Cardinality({i \in Files : task[i] = "read"} \cup (IF pc = "read" THEN {Closure} ELSE {})) <= 1

(* The bytes of a set of archive buffers, one pair for each byte.          *)
Bytes(S) == UNION {{i} \X (1..Size[i]) : i \in S}

BufferedBytes == Cardinality(Bytes(bufs))

(* The buffers of all archives in memory fit in --archive-cache-mem at     *)
(* every moment.  AllocMonBuf::new checks and adds in two separate atomic  *)
(* operations; that is safe because only the closure allocates.            *)
MemoryBounded == BufferedBytes <= CacheMem

(* ALLOC_MON counts the live buffers exactly, so it neither leaks (the     *)
(* closure would sleep forever) nor wraps below zero.                      *)
AllocMonExact ==
  ALLOC_MON = BufferedBytes

(* A buffer is never dropped under the thread that uses it and never       *)
(* outlives it: it belongs to the read in progress or to a spawned task    *)
(* that has not returned.                                                  *)
BuffersOwned ==
  \A i \in Files :
     i \in bufs <=> /\ InMemory(i)
                    /\ \/ pc = "read" /\ cur = i
                       \/ task[i] \in {"queued", "decode"}

(* When pool.scope has returned nothing is left behind: the mutex is free, *)
(* no buffer is accounted, and, unless the closure panicked, every         *)
(* candidate was either hashed or reported.                                *)
NothingLeftBehind ==
  ScopeDone =>
    /\ read_mutex = Free
    /\ ALLOC_MON = 0
    /\ pc = "returned" => hashed \cup skipped = Files /\ hashed \cap skipped = {}

(* Whenever the closure sleeps in AllocMonBuf::new, some archive in memory *)
(* is being decoded or can be taken by a worker, so its buffer will be     *)
(* freed.  Holds when the huge archives are fewer than the workers left    *)
(* for the tasks, one of them kept free: HugeFit.                          *)
HugeFit == Cardinality({i \in Files : Huge(i)}) + 1 < Threads

SleeperIsWoken ==
  (HugeFit /\ pc = "await" /\ ALLOC_MON + Size[cur] > CacheMem)
     => \E i \in bufs : \/ task[i] = "decode"
                        \/ task[i] = "queued" /\ BusyWorkers < Threads

(* The closure and the task that reads are the ones the mutex names.       *)
LockInv ==
  /\ read_mutex = Closure <=> pc \in {"next", "await", "alloc", "read"}
  /\ \A i \in Files : read_mutex = i <=> task[i] = "read"

(* Which candidates can have a task in which state.                        *)
TaskInv ==
  \A i \in Files :
    /\ task[i] # "none" => i < cur \/ (i = cur /\ (pc = "commit" \/ (pc = "read" /\ Huge(i))))
    /\ task[i] # "none" => Huge(i) \/ InMemory(i)
    /\ task[i] \in {"open", "wait", "read"} => Huge(i)
    /\ task[i] = "decode" => InMemory(i)
    /\ task[i] \in {"wait", "read"} => left[i] > 0

(* The candidates before the current one are settled, in order.            *)
ProgressInv ==
  /\ pc \in {"await", "alloc", "read", "commit"} => cur \in Files
  /\ pc \in {"await", "alloc"} => InMemory(cur)
  /\ pc = "returned" => cur = N + 1
  /\ hashed \cup skipped = 1..(cur - 1)
  /\ hashed \cap skipped = {}

(* Nothing is added to ALLOC_MON between the check and the addition.       *)
MemoryInv ==
  /\ IsFiniteSet(Bytes(bufs))
  /\ AllocMonExact
  /\ ALLOC_MON <= CacheMem
  /\ pc = "alloc" => ALLOC_MON + Size[cur] <= CacheMem

(* The inductive invariant.                                                *)
IInv ==
  /\ TypeOK
  /\ LockInv
  /\ TaskInv
  /\ ProgressInv
  /\ BuffersOwned
  /\ MemoryInv

(* hash_files returns: the closure and all tasks finish.                   *)
HashFilesReturns == <>ScopeDone

(* Every candidate is settled: hashed, or given up with a message, or the  *)
(* process has panicked.                                                   *)
EveryCandidateSettled ==
  \A i \in Files : <>(i \in hashed \cup skipped \/ pc = "panicked")
=============================================================================
