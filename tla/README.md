# Verification of dupion

dupion finds duplicate files and directories, also inside archives, and can
deduplicate them on btrfs. This directory holds TLA+ models of its core, the TLC
configurations that check them on small instances, and TLAPS proofs of the
properties that matter most for every instance. Paths below are relative to the
root of the repository.

## 1. Inventory of the system

| Component | Source | State | Operations |
|---|---|---|---|
| Driver | `dupion/src/driver/platterwalker.rs` | `entries` (files found by pass 1) | pass 1 `size_file`; passes 2 and 3 `hash_files` with a rayon scope |
| Locks and memory | `dupion/src/util/mod.rs` | `ZeroLock` read mutex, `ALLOC_MON` | `lock`, `unlock`, `MutexedReader::read`, `AllocMonBuf::new`, `drop` |
| Scan state | `dupion/src/state/mod.rs`, `vfs/entry.rs` | tree of entries, size groups, hash groups | `validate`, `set_valid`, `push_to_size_group`, `push_to_hash_group`, `is_file_read_candidate` |
| Archive decoding | `dupion/src/zip/mod.rs` | the task's position in the archive | `open_zip`, `decode_zip`, `try_counted` |
| Cache file | `dupion/src/vfs/deser.rs`, `main.rs` | the entries of earlier runs | store (at the end, or when ten minutes have passed), load, `dirty_load` |
| Readahead | `reapfrog/src/lib.rs` | queue of open files and errors, prefetch positions, budget | `next`, `read`, `advance`, `add_file` |
| Selection | `dupion/src/dedup/mod.rs` | candidates of a hash group | `Deduper::dedup`, `count_phys_occurrences_sorted` |
| Deduplication | `dupion/src/dedup/btrfs.rs`, `rust-btrfs/.../deduplicate.rs` | queue of groups, the batch, open files, answers of the kernel | `dedup_groups`, `dedup_group_batch`, `deduplicate_range` |
| Directory hashes | `dupion/src/process/mod.rs`, `group/mod.rs` | hashes of directories, shadowed entries, the sorted groups | `calculate_dir_hash`, `find_shadowed`, `export` |
| Output | `dupion/src/output/` | none | `print_groups`, `print_tree`, `print_treediff`, `find_diff` |
| Path tree | `dupion/src/vfs/mod.rs` | entries by path | `cid`, `cid_and_create`, `child_of` |
| Directory walk | `platter-walk/src/lib.rs` | queues of directories and files, prefetch window, the directory that is read | `add_root`, `ToScan::next` |
| btrfs file systems | `rust-btrfs/src/diskformat/` | superblocks of the devices, chunk map, trees | `open_try_backups`, `subvolume_path` |
| Options, status line | `dupion/src/main.rs`, `opts/`, `lib.rs`, `phase/` | options, display counters | parsing, printing |
| libarchive binding, other ioctls | `libarchive-rust/`, `rust-btrfs/src/linux/` | foreign | used through a few functions |

**Interaction.** `main` loads the cache, `PlatterWalker` walks the roots (pass 1),
`validate` decides for each file whether the cached entry is still right, and
files of a non-unique size are hashed (pass 2). The files of pass 2 come from the
readahead, whose source is filtered by `is_file_read_candidate` at the moment it
is asked. Archives are decoded by tasks on the same rayon pool while the pass
goes on; their members join size and hash groups. Pass 3 hashes what has become a
candidate because of a member. The cache is stored at the end, and during the
passes when the info thread asks for it. `--dedup btrfs` then takes the hash
groups, chooses for each the file to keep, and asks the kernel to share its
extents. After the passes `main` hashes directories from the hashes of what they
hold, marks what lies inside of duplicates, and prints the groups, the tree or
the difference of the roots. `rust-btrfs` is a library: of it dupion calls the
deduplication ioctl and the extent maps; the reader of unmounted file systems is
reached by nothing in dupion and stands for itself.

**What is hard.** The scope closure and the decoding tasks share a mutex, a
memory budget and the workers of the pool; other programs change files between
the walk, the open, the read and the commit; the program may be killed at any
time, also while it writes the cache; the next run trusts what it finds there;
every open, read, archive member and ioctl may fail on its own; directories
appear and vanish while they are walked; an archive is a file and a directory at
once; a file system may be found in the middle of a commit. `PROJECT.json`
lists the hazards line by line.

**What makes it correct.** One disk reader at a time and bounded memory without
deadlock (hash pool); no hash is trusted for a file that has changed, every file
that may be a duplicate is hashed, groups hold equal files (scan state and cache);
every file is handed out once and in order within the budget (readahead); no
dup is lost or submitted twice and what is marked is what was shared
(deduplication); counts and choice are right (selection); a path is one entry and
each file is listed once per root (walk, path tree); directories have one
hash exactly if they hold the same, and no duplicate is hidden (directory
hashes, output); a tree that is accepted is whole, and the newest state
that can be read is taken (btrfs).

## 2. Modules and the code they model

`PROJECT.json` maps each definition to its lines. The properties, the inductive
invariants and the mutants of a module stand in the module; `*Proofs` extends it
with theorems, `MC*` with the values for TLC.

### HashPool (`HashPoolProofs`, `MCHashPool`)

One call of `hash_files`. `pc` and `cur` are the position of the scope closure in
its loop over the candidates; `read_mutex` the holder of the `ZeroLock`;
`ALLOC_MON` and `bufs` the accounted bytes and the live `AllocMonBuf`s;
`task[i]` and `left[i]` the decoding task of candidate `i` and the reads it has
still to do. Actions: `Lock`, `SkipFile` (open error or comodified file),
`StartAlloc`, `AwaitMemory` and `Alloc` (the check and the addition of
`AllocMonBuf::new` are two steps, as in the code), `StartRead`, `FinishRead`,
`FailRead` (`continue 'big` keeps the mutex), `ShortRead` (the assertion on the
bytes read), `Commit`, `Return`; for a task `TaskStart` (it takes one of
`Threads` workers, of which the closure occupies one until it returns),
`TaskRequest`, `TaskLock`, `TaskRead` (one `MutexedReader::read`), `TaskReturn`,
`TaskDrop`. What a commit writes is left to ScanCache.

### ScanCache (`ScanCacheProofs`, `MCScanCache`)

The state of the program over several runs, together with the disk and the cache file. An
action is one critical section of the state's `RwLock` or one system call. `tree`,
`sizes`, `hashes` and `group_size` are the `State`; `meta`, `reading` and `data` are what
the pass has taken from the disk and not used yet; `decode[f]` is the task of archive `f`;
`disk`, `now` and `cache` outlive the run. Actions of the program: `Start` and `DirtyLoad`
(`--no-scan`), `Stat`, `Miss`, `SizeFile` (`validate`, `set_valid` and the group pushes in
one critical section), `Filter`, `Open`, `OpenError`, `ReportError`, `DiscardFile`,
`DiscardError`, `DiscardNothing`, `SkipComodified`, `StartRead`, `FinishRead`,
`ReadError`, `ShortRead`, `Commit`, the task's `TaskOpen`, `DecodeMember`, `MemberError`,
`TaskEnd`, `TaskFail`, the ends of the passes, `Exit`, `Crash`, `Unwind`. Other programs:
`Modify`, `Delete`.

A hash is represented by the content it was computed from. The cache file is what
a load gives back: `Stored` is `from_entry` of the run that stores followed by
`into_entry` of the run that loads; a store that fails midway, or a crash during
one, leaves a file that does not load. `disturbed` collects the files that
changed or met an error in this run, for properties that promise something only
about files that were left alone.

The readahead stands between the candidates and the loop of `hash_files`, and its errors
cost more than the file they are about. The files it has opened are those with `meta`,
the errors in its queue are `failed`. After an error was returned (`ReportError`) the next
call discards once more: a file that was opened, which is then never read (`lost[f]` is
the file of that error), or another error, or nothing. Which of them comes next in the
queue is left open, the order being Readahead's. A file lost in pass 2 has its turn again
in pass 3.

### Readahead, ReadQueue (`ReadaheadProofs`, `MCReadahead`)

`MultiFileReadahead`: `next` and `read` call `advance`, whose loop is one step per
iteration (`LoopSpent`, `LoopAdd`, `LoopFull`, `LoopContinue`, `LoopPrefetch`), so
that the property about its termination means something. `open` is the queue with
errors in it, as in the code. `ReadQueue` is the abstract specification, with errors
anywhere: files are handed out in the order of the source and never twice (`Give`),
files that cannot be opened are reported or passed over (`Report`, `Find`), another
file is passed over only behind an error, and the end comes after the last file or
before files that cannot be opened (`End`).

### Dedup (`DedupProofs`, `MCDedup`)

`dedup_groups` and `dedup_group_batch`. `TakeGroup`, `SplitEnd`, `Submit` are the
rounds of the loop that prepares a batch; `SimulateBatch` is a batch of a dry run;
`OpenGroup`, `OpenSenpaiFails`, `AllOpened`, `DedupGroup`, `RetryDup`, `EndRetry`,
`Account`, `BatchDone` are the batch. The kernel (`KernelAnswers`) is external: it
shares the extents of equal files and may refuse any file, or the call as a whole.
`Decoded` is `deduplicate_range`, which stops at the first error and leaves the
statuses behind it at their initial value. `Change` is another program.

### DedupSelect (`DedupSelectProofs`, `MCDedupSelect`)

`Deduper::dedup` for one hash group: `Collect` filters and sorts, `Forward` and
`Backward` are the rounds of the two loops of `count_phys_occurrences_sorted`,
`Select` is the `min_by_key` and the `retain`.

### DirGroups (`DirGroupsProofs`, `MCDirGroups`)

What `main` does with the tree after the passes, in its order: `CalculateDirHash`,
`FindShadowed`, `Export`, then one of `PrintGroups(rule)`, `PrintTree` and
`PrintTreediff`. Entries are numbered in the order of their paths, the order in which
`export` sorts them; `Parent`, `Name` and `Above` follow from the paths. The recursion of
`calculate_dir_hash` is the recursive function `Result`, the search of `find_shadowed` is
described by the entries it reaches (`Searched`) and those it stops at (`Stops`). `Trees`
gives the trees the passes may have left, with entries that were not read, archives whose
members were or were not decoded, stale entries of an earlier run, and directories in the
place of a cached file. A hash is what was fed to the hasher: a set of names and hashes
for a directory, the content for a file; hashing nothing gives the same value in both
cases, as it does in the code. (The code feeds names and hashes to the hasher without
separators; the model assumes that no two different listings give one sequence of
bytes.) A directory may have a `file_hash`: the cache knew a file of its
name, and `cid_and_create` makes it a directory without clearing the hash. `find_shadowed`
and `find_diff` take that hash for the entry's own. `Push` is `push_to_hash_group`. The
unwraps and the assertion on the way (`Unwraps`, `SizesDiffer`, `RootMissing`) end in a
panic.

### VfsTree, PlatterWalk, Pass1 (`Pass1Proofs`, `MCPass1`)

`VfsTree` holds the operators of the tree of entries: `cid`, `child_of`,
`cid_and_create` component by component (`Along`), and `Loaded`, the tree the cache
gives. `PlatterWalk` is `ToScan::next`, cut into the rounds of its loop because
other programs change directories between them: `TakeUnordered` and `TakeOrdered`
choose the next directory, `Rewind` sends the cursor back to the start of the disk,
`EntryDir`, `EntryFile`, `EntryLink`, `TypeError` (its type cannot be read, it is lost)
and `EntrySkipped` are the entries of the directory that is read, `ReadError` an error of
the listing (with it std ends the listing, and all that was still to come is lost),
`EndOfDir` its end, `InodePass` and `ContentPass` sort
and hand out a batch, `NothingLeft` ends the walk. `Appear` and `Disappear` are
other programs; an entry that is deleted while its directory is read may still come
out. `Pass1` composes the two, as `Phase::Size` does: `AddRootDir`, `AddRootFile`,
`SkipRoot` (its metadata cannot be had), `RootFails` (the pass is given up),
`StartWalk`, then `ProcessFile` (an entry in the tree and a place in `dest`),
`SkipFile`, `ProcessError` for what the walk yields, and `Finish`.

### BtrfsItems, BtrfsTrees, BtrfsOpen (`BtrfsOpenProofs`, `MCBtrfsOpen`)

`BtrfsItems` models how blocks are taken apart. A cell is one struct of fixed size
or one byte of a name, so that the arithmetic of offsets and sizes with which the
code finds an item, an entry of an item or a system chunk is in the model, in cells.
`BtrfsTrees` has the order of keys, the lookups in a tree of items and the mapping of
logical addresses to devices. `BtrfsOpen` is the file system and the program. The
file system makes commits (`BeginCommit`, `WriteNode`, `WriteSuper`), which never
overwrite the last generation and reuse the blocks of older ones, is cut off at any
point, and its devices may lose blocks (`LoseNode`, `LoseSuper`). A node has a copy in
each stripe of its chunk (`Copies`), all of which a commit writes and each of which is
lost on its own; the program reads the first (`Physical`). A generation has a chunk tree
(`ChunkRoots`), which its superblock and the backups of later ones name; the program
always takes the superblock's (`ChunkRoot`). The program opens
it: `Open` with some of its devices in some order, `AddDevice`, `EndDevices`,
`ReadChunkNode`, `ChunkTreeRead`, `ReadTreeNode`, `TreeRead`, and after a failure
`FailOpen` and `NextAttempt` with the next backup; then `SubvolumePath` and `Climb`.
What a commit looks like on the disk is modelled from what the reader relies on and
marked external: leaves filled from both ends (`Leaf`), the array of system chunks
(`SystemEntries`), and directories as the items of their links and names (`Directories`,
`LinkItem`, `NamesItem`). An iterator over parts of different sizes is modelled by the places
it stops at (`Positions`), which go from one part to the end of it.

### Assumptions and abstractions

- BLAKE3 has no collisions.
- Every modification gives a file a ctime not seen before. The code compares
  seconds; a change within the same second that keeps the size is not seen by
  the code and is outside the model.
- In ScanCache roots do not overlap (in Pass1 they do), and members have flat names
  inside their archive: the directories between an archive and its member are left
  out, so the assertion on `is_dir` in `decode_zip` cannot be met by the model.
- Paths are canonical, as `main` makes them; names are model values or short
  sequences of them.
- DirGroups takes the trees as input: their entries are in the states the passes
  leave, independently of one another.
- In Pass1 a directory has one extent sum, whether it is a root or was found below one; the
  code takes 0 for a root (`add_root`). The theorems hold for any sums.
- btrfs: checksums tell every damaged node from a good one; a superblock is either whole
  or lost; the file system is not mounted while it is read. The constants of `BtrfsOpen`
  are a file system, in six named assumptions: every node lies in a chunk and no copies of
  two nodes at one place (`ChunksAssumption`); the superblocks list the chunks of the
  chunk trees, and each chunk tree all chunks (`ChunkTreeAssumption`); a tree that is
  never overwritten is a leaf or has leaves below its root, and no two items of a tree
  have one key (`FixedAssumption`, `RootsAssumption`); a directory has one link and is
  listed under it in the directory above (`DirectoriesAssumption`); `None` is nothing else
  (`NoneAssumption`). The stripes of a chunk are copies of one another (profiles single,
  DUP and RAID1; striped ones are outside the model, and `logical_to_physical_address`
  does not know them either). Commits may move the chunk tree, but no chunks, and the
  nodes of older chunk trees are not reused.
- The task of a huge archive opens the file and sees one content; an archive that
  changes while it is read by its task is a change before or after the open.
- A file that was modified since it was opened may be read as any content it
  could have.
- Not modelled: `--pass-1-hash`, `--bench-pass-1`, `--no-cache`, drop-behind (a hint
  to the kernel), the branch behind the constant `allow_range_split = false`,
  partial `bytes_deduped` of a call that succeeds, the display counters of the scan,
  the readahead hint for the blocks of a directory in the walk.
- Bounds in guards: `MaxTime` (modifications), `MaxRuns` (program runs), `MaxRead`
  and `Grow` (bytes of one read and beyond the length in the metadata), `MaxErrors`
  (errors of one walk), `MaxGeneration` (commits), `MaxDamage` (losses of the
  devices). The proofs hold for any value of those in their modules.

## 3. Model checking

Each run is `tlc -config <cfg> <module>` in this directory; `PROJECT.json` names
them. State counts are distinct states.

| Run | Instance | What it shows |
|---|---|---|
| `hashpool_mix` | 3 workers, 6 candidates: 4 archives in memory, 1 huge archive with two reads, 1 plain file; memory for 6 units (51,000) | one disk reader, bounded and owned memory (`OneDiskReader`, `MemoryBounded`, `BuffersOwned`), nothing left behind, a sleeper that can be woken, and termination `HashFilesReturns`, with every read free to fail |
| `hashpool_huge` | 2 workers, a huge archive and 3 in memory | violation of `EveryCandidateSettled`, see section 5 |
| `scan_cache` | 2 program runs, 1 modification, any deletions, 1 archive path that may hold a huge archive, a small one or no archive, 1 plain file (2.4 million) | hashes are fresh and kept (`HashFresh`, `HashKept`), candidates are hashed but for those lost behind the error of another (`CandidatesHashed`), groups hold equal files |
| `scan_cache_panic`, `_phantom` | 2 or 3 files, 1 to 3 runs | violations of `NoPanic`, `NoPhantomMembers` |
| `readahead` | 9 files of length 0 to 5, `MAX_OPEN` 4, blocks of 2, budgets 2 and 5, any file may fail to open (86,000) | refinement `IsQueue` of `ReadQueue`, `Bounded`, `ReaderStaysValid`, `CallReturns` |
| `readahead_lost` | 4 files, `MAX_OPEN` 8, any may fail | violation of `NoFileLost` |
| `dedup` | a dry run over 6 groups of 2 to 7 files with every sequence of cache estimates from 3 to 10, and 2 groups sent to the kernel while two files change and any open, file or call may fail (206,000) | `EachDupOnce`, `BatchBounded`, `AllAccounted`, `LinkedMarked`, `MarksExact`, `DedupReturns` |
| `dedup_select` | all groups of 4 entries, placed or not, at 3 places with 2 extent counts and 2 ctimes (353,000) | `OccurrencesCounted`, `OnePlaceAfterwards`, `SenpaiAtCommonPlace` |
| `dir_groups` | all trees of two roots that hold a file `x` and a directory or archive `d` with a file `y`, in up to 7 states each, with every output and shadow rule (99,000) | directories have one hash exactly if they hold the same (`DirHashMeaning`), groups hold duplicates, no duplicate is hidden unless `--shadow-rule 3` asks for it or a directory keeps the hash of a file (`DuplicatesVisible`), the tree difference is exact where no leftover of the cache is compared (`TreeDiffExact`), nothing but two known unwraps panics |
| `pass1` | two overlapping roots, a directory and its file that come and go, two directories at one place of the disk, one in front of its parent, an earlier cache, one error (63,000) | each file is listed once per root, an error loses what it is about or the rest of one directory, a path has one entry, batch and prefetch window are bounded, the walk ends |
| `btrfs_open` | two devices with three superblocks, up to three further commits of which the last is cut off anywhere, one of which rewrites the chunk tree, one loss, 5 choices of devices (124,000) | what is opened is exactly one generation, from a backup if its blocks have not been reused (`OpenedExact`), the newest superblock and the first attempt that can be read are taken (`BestEffort`), a cut commit costs at most that commit (`SurvivesPowerLoss`), names lead back to their subvolume (`PathRoundTrip`), opening ends |

**Why the bounds are enough.**

- *HashPool*: with three workers, one huge archive leaves one worker for the archives in
  memory, three of which fill the memory so that the fourth has to wait. Read errors,
  short reads, the mutex passed between closure and task, and an unfinished task when the
  closure returns all occur. The invariants are proved for all sizes.
- *ScanCache*: a history that can go wrong needs a store, a change and a load, in any
  order with the passes of a run: two runs and one modification. Further modifications and
  runs add nothing to `HashFresh`, which is proved for any number of them; with three runs
  (5 million states) the other properties hold as well. Plain contents of equal size and
  different content, an archive that holds a member equal to the plain file, and sizes on
  and outside `--min-size` and `--max-size` are all there. The violations that need a
  third file or contents of other sizes have configurations of their own.
- *Readahead*: blocks of two bytes make unaligned positions and the overshoot of the
  budget occur; budgets below and above a file's length; nine files are more than twice
  `MAX_OPEN`, so that the queue fills, empties and fills again; a whole batch of
  `add_file` may fail. The order and the front of the queue are proved for all sizes.
- *Dedup*: groups above the file limit, above the cache, above both and below; estimates
  on both sides of every threshold. For the ioctl, a group that is split, and one that is
  not, with the senpai and a dup that change.
- *DedupSelect*: four entries make two runs of two, a run of three beside a single one,
  and unplaced entries in between; all three properties are proved for any number.
- *DirGroups*: two roots are what the tree difference and shadowing compare; two levels
  below them put a duplicate inside of a duplicate; the states of `d` include an archive
  with and without its own hash, with and without members, and `y` may be a leftover of an
  earlier run; `d` may be a directory in the place of a cached file; a root may be a
  file itself. What needs a third copy or a third level (a
  shadowed entry with a copy that is not shadowed) occurs between `x` and `y`, which may
  be equal.
- *Pass1*: the smallest tree with two directories at one offset, one before the cursor,
  one without an extent, a link and overlapping roots; batches of two files and a window
  of three units are exceeded by it. One error at any place, of an entry or of the listing
  with two entries still to come; a root that cannot be added.
- *BtrfsOpen*: three further commits are needed for a backup whose blocks have been
  reused; a loss on top of a cut commit sends the program through the backups, to one that
  is whole or to the end of them. The chunk tree is rewritten by the third generation, so
  that a backup names another one than the superblock, and some nodes have a second copy:
  the cases in which opening fails although a copy or a chunk tree that is not read is
  whole both occur. Chunks that touch and a chunk with a stripe on each device make every
  address of the mapping's borders occur; two names share a hash.

Deadlock is checked except in the ScanCache runs (the bounded number of runs is used up)
and in `hashpool_huge` (where the stop is the finding, stated as a temporal
property).

**Fairness.** `HashPool` assumes that the closure and each task continue when they
can (weak fairness): the operating system schedules threads, the sleeping closure
polls every 50 ms, and the mutex is handed to a waiting thread whenever it is free
for good. No strong fairness is assumed for the mutex; the closure does not wait
for it forever in the instance because each task reads finitely often. `Readahead`
assumes that an operation that was called runs to its end, `Dedup`, `Pass1` and
`BtrfsOpen` that the single thread runs and every system call returns; nothing is
assumed of other programs, of the moment the file system is cut off or of its
devices. `ScanCache` and `DirGroups` have no fairness and no liveness property.

**Refinement.** `Readahead` implements `ReadQueue` for every pattern of failures,
under the mapping `ended <- (result = "none")`, `broken <- (1..source - 1) \ opened`:
a file is known to be broken from the moment `add_file` has tried it. That a good
file may be passed over behind an error is part of what `ReadQueue` allows; that it
should not be is `NoFileLost`, the finding of `readahead_lost`.

**Mutants.** For each property `PROJECT.json` names a definition and a changed form
of it, as a slip in the code would give it (a dropped guard, a buffer that is not
subtracted, a missing pass), with which TLC finds the property violated. The
changed forms stand before the definitions they replace.

## 4. Proofs

Eight modules hold theorems; all obligations are discharged by the SMT backend,
Zenon and, for the temporal steps, PTL. The constants are assumed to satisfy only the
assumptions of their modules, which TLC evaluates in the runs.

**HashPoolProofs.** `Invariance`: `Spec => []IInv`, with `IInv == TypeOK /\ LockInv /\
TaskInv /\ ProgressInv /\ BuffersOwned /\ MemoryInv`. None of the properties is inductive
alone. `OneDiskReader` needs to know that who reads holds the mutex, and at which places
of its loop the closure does (`LockInv`). `MemoryBounded` (which contains `AllocMonExact`)
needs that what was checked in `AwaitMemory` is still true in `Alloc`, which holds because
nobody else allocates (`MemoryInv`), and that `ALLOC_MON` is exactly the bytes of the live
buffers, which needs that a buffer is dropped once (`BuffersOwned`), which needs to know
which tasks exist (`TaskInv`). Consequences: `TypeCorrect`, `DiskReadExclusive`,
`MemoryLimit`, `CleanReturn`, and `SleeperProgress`: if the huge archives number at least
two fewer than the workers, a closure that waits for memory always has an archive in
memory that is being decoded or can start. The hypothesis (`HugeFit`) is in the property;
without it `hashpool_huge` shows the deadlock.

**ScanCacheProofs.** `Invariance`, with
`IInv == TypeOK /\ TimesInv /\ ReadInv /\ DecodeInv /\ HashFresh`. `HashFresh` says
of the tree and of the cache that a recorded hash is the file's hash as long as the
recorded ctime is the file's ctime. A modification keeps it because its ctime is
later than any recorded one (`TimesInv`). A commit keeps it because the file is
read after the comodification check, so that either the data is the file's
content or the file's ctime has moved on (`ReadInv`). `TypeCorrect` and
`HashesFresh` follow. The theorem covers torn reads, crashes, panics, failed
stores and failed loads, since these are steps of the specification.
`RightHashesKept` is an action property and needs more than freshness: that
`validate` finds a recorded entry equal to the file. `SizesInv` adds that a recorded
size is the file's size as long as the recorded ctime is the file's, in the tree, in
the cache and in the metadata a pass holds. With it the comparison in
`validate` succeeds on a known file (`SizeFileKeeps`, `StatKeeps`), and a
commit writes the hash that was there (`CommitKeeps`), by `HashFresh`.

`GroupedByContent` and `CandidatesAreHashed` speak of files that were left alone.
`ScanInv` (`ScanInvariance`) adds two parts to the invariants above. `AloneInv`: what a
run knows of such a file is the file's, that is its metadata, the hash group it is in and
the size of that group. `PassInv`: no pass loses such a file. Pass 1 has it still to look
at or has entered it in its size group; in pass 3 a file whose size another entry has is
in its hash group or still to be hashed. Here the size groups must not grow behind the
back of the pass, which holds because archives are decoded in pass 2 only. That a member
enters the size group of a file that pass 2 has already filtered out is what pass 3 is
for, and the theorem says that it is enough. The third way for a file to leave pass 3 is
to be discarded by the readahead. `ErrorInv` says that the errors in the queue and the
files behind whose errors others were lost are disjoint, so that each error takes at most
one file (`lost` is injective where it is not `None`).

**DedupSelectProofs.** `CountsRight`: after the two loops of
`count_phys_occurrences_sorted` each candidate has the number of candidates at its
place. `ForwardInv` says that the first loop numbers the members of each run of
equal places; `BackwardInv` that the second one copies the last number of a run
over the run. Both rest on the list being sorted (`ListInv`), and on the lemmas
that relate the cardinality of a run up to `k` to the one up to `k - 1`.
`OnePlace` and `CommonPlaceKept` follow with `ChoiceInv`: the sorted list holds each
candidate exactly once (an injection into a finite set of its size is a surjection),
so that what is said about positions of the list is said about the candidates.

**ReadaheadProofs.** `Refinement`: `Spec => IsQueue`. `QueueInv` says that the queue holds
the consecutive files before `source`, so that its front is known from its length
(`First`); `AnswersInv` that all answers are about files in front of it; `FrontInv` and
`CallInv` what the front is when `next` or `read` comes back from `advance`. Each step of
the program is a step of `ReadQueue` or a stutter: what `advance` adds is `Find`, the
answer of `next` is `Give`, `Report` or `End`. `ReaderValid` follows from the same
invariant. `WindowBounded` is about the budget: `advance` subtracts bytes from `spent` as
unsigned numbers, prefetches a last block that may go beyond the budget, and counts again
at every call. `WindowInv` says that in the loop the bytes ahead of the reader and what is
left of the budget are together at most the budget, unless the last prefetch took it all
and perhaps a part of a block more. The bytes ahead are a set of pairs of file and byte
(`AheadBytes`), of which the model takes the cardinality, so that the lemmas on finite
sets give what a step adds to the sum.

**DedupProofs.** `DupsSubmittedOnce`: `EachDupOnce` is about pairs in three places, and
cutting a group moves a part of its pairs. `PlacesInv` says it per dup: the groups of the
queue and of the batch are `Separate` and nothing of them has been submitted (`Outside`),
which a cut keeps because the two parts of a sequence without repetition have no element
in common. The hypothesis is that the input is a `Workload`: no file occurs twice in it,
which holds because a file has one hash. `BatchesFit`: the assertions of the loop hold and
a submitted batch fits, because `TakeGroup` adds a group only if the result fits
(`BatchInv`), so that a batch that has to be cut is a single group, and by a lemma on the
quotient with which the code computes how many files to leave in it. `BatchesBounded` adds
the types of the queues and of the batch. `FilesInv` (`FilesInvariance`) follows the files
of a batch: the dups of a group that is open are those of its input that could be opened,
the others are reported (`OpenInv`), and what the kernel linked is marked, or will be when
the answers are evaluated, and no dup of a group that still waits is (`MarkInv`). From it
follow `EveryDupAccounted`, for which every file is counted exactly once in the queue, in
the batch or as done, `LinkedFilesMarked` and `MarksAreExact`.

**Pass1Proofs.** First the operators of the tree. `Grown` says what a tree of entries made
by the program is: each path has one entry, the root is the first, and an entry is a child
of exactly one other, the one with its path up to the last component. `CreateGrown`:
`cid_and_create` keeps this for every path and tree, keeps all entries in their places and
returns the entry of the path; `LoadedGrown` the same of `into_entry` for a whole cache
file. `GrownIsWellFormed`: in such a tree `cid` finds each entry by its path, parents and
children are those of the paths, and what is above something that exists is a directory.
`cid` and `cid_and_create` go down a path component by component; what they compute is
shown by taking the least component (`LeastNumber`) at which it would be wrong.

`WalkInvariance`: `Spec => []IInv` for the walk composed with the tree. `QueueInv` types
the queues and says what the directory that is read was; `BatchInv` that a batch is made
and handed out by the same call; `PrefetchInv` that the window holds directories that are
still to be visited; `TreeInv` that the tree is `Grown` and the candidates are entries of
files. Sorting is a choice in the model, of the sequence in which each element comes at
its rank; `Ranks` shows that such a sequence exists for every strict order on a finite set
and holds each element once (`Permuted`). `WalkTypes`, `EntriesAreUnique` and
`WalkIsBounded` follow.

`FilesListedOnce` (`ListedOncePerRoot`) needs more, since the queues do not record which
root an item comes from. `Listings(f)` counts everything the walk holds that leads to the
file f: roots still to be added, directories to be visited with and without a place, the
directory that is read if one of the entries it may still yield leads to f, the files of
the batch before and after the sort, and f in `dest`. At the start these are the roots
above f. A step may not make them more, and may make them fewer only if f was disturbed
(`Kept`, one lemma per kind of step): a directory that is opened gives its one way to f to
one of its entries (`ReadDirWays`, `EntryLeads`), an error of the listing disturbs all
that it loses, an entry that comes out takes it along
(`TookWays`), `add` keeps the one whose place it takes (`AddWays`), the sorts lose and
double nothing (`WaysPermuted`), and an entry that appears in a directory that is read was
counted as one that may (`EnvironmentLists`). `ListedInv` adds to `IInv` that the queues
are empty when `next` returns `None` (`EndInv`), that what exists lies in directories that
exist and a directory yields entries of its own (`DiskInv`), and that `Listings(f)` is at
most the number of roots above f, and exactly that for an undisturbed file (`ListInv`). At
the end only `dest` is left. The proof assumes (`TypesAssumption`) what any directory tree
satisfies: a path has one type, what lies in something lies in a directory, and `/` is a
directory that stays.

**DirGroupsProofs.** `Invariance`: `Spec => [](IInv /\ Printed)`, with `IInv == PassesInv
/\ GroupsInv /\ MeaningInv /\ ShadowInv /\ SortedInv /\ OnlyKnownPanics`, for every tree
the passes may leave. `PassesInv` is what does not change after the passes, `GroupsInv`
that a group holds exactly what has its hash and each path once. The heart is
`HashesMeanListings`: a directory has a hash if and only if all files in it have, its size
is their sum, and two directories have one hash if and only if they hold the same. The
hash is made level by level and `Listing` speaks of paths of any length; the lemmas take a
listing apart into those of the children (`ListingParts`) and show both directions
(`OwnHashGood`, `HashesGood`) for the entry of the largest number for which one would
fail, whose children have larger numbers (`LastEntry`). `SizesAgree` needs it: the
assertion on the sizes in a group holds because equal hashes mean equal listings, and a
file and a directory share a hash only if both are empty. `PanicsAreKnown` adds
`KnownUnwrap`: the archive whose unwrap fails, taken as deep as possible, has members that
all have a hash. For `NoDuplicateHidden` the hypothesis is a file with a duplicate; on the
way down to it the search of `find_shadowed` stops at a first duplicate (`StopsOnce`),
which is not shadowed (`ShadowInv`), as an archive at least not as a file; so its group
has an entry outside of any shadow and shows it under the rules 0 to 2 (`StopShown`), and
no line above it ends the tree (`TreeVisible`). The search also stops at a directory that
keeps the hash of a file which has a duplicate (`Misled`). Such a directory is in no group
of that hash, and what lies below it may be hidden: the property leaves that out for the
rules 1 and 2, not for rule 0 and the tree. What is `Misled` stays so (`MisledKept`). `ListedAreDuplicates` puts `SortedInv`,
that sorting loses and doubles nothing, and `HashesMeanListings` together.
`TreeDifferencesExact` is about all roots at once, while `find_diff` compares two: a mark
never gets smaller (`MarksGrow`), each pair of roots has its turn (`PairsMean`), and the
calls reach an entry exactly if nothing above it is the same elsewhere (`OpenCalled`). So
such an entry is marked DUPS exactly if it is the same elsewhere itself (`MarkedDups`).
Otherwise it gets a mark exactly if it is a directory in which everything got one, at the
latest in the last comparison of its root (`LastPair`, `MarkedParts`). What has such a
copy holds no unique file, as the listings of the copies are equal (`ElsewhereNotUnique`);
the rest follows from the leaves upwards (`MarkedUnique`). The theorem is about two roots
or more that lie apart, none of them in an archive (`RootsApart`), and speaks of a line if
nothing at or below it was compared by a hash that is not its own (`Judged`): not of stale
entries, nor of two sides with cached hashes of which one is a directory (`Misjudged`). A
misjudged entry elsewhere does no harm, as only marks at and below a line decide on it;
where nothing is misjudged, what `find_diff` takes for equal is equal (`ElsewhereMeans`). A single root is
compared with nothing, so all of it keeps UNIQ, even an archive without members (SUPR in
one of two roots); in a root that lies in another one a path has a place for each of them.

**BtrfsOpenProofs.** `Invariant`: `Spec => []IInv`, with `IInv == FsInv /\ DevicesOK /\
ChosenOK /\ Tried /\ ChunksOK /\ TreeOK /\ OpenedOK /\ ReadOK`, for any chunks, any number
of devices and superblocks, any fixed trees of at most two levels, any contents that the
generations write, any number of commits and losses.

The first part is what the bytes mean. `LeafDecode`: from a leaf that btrfs fills from
both ends the iterator of `BtrfsLeafNodeItems` reads exactly the items that were written;
it rests on where a part of a flattened sequence lies (`FlattenBlock`, `Layout`).
`PositionsAre`: an iterator over parts of different sizes stops at the start of each part
and nowhere else, whence `SystemChunksDecode` for the array of system chunks and
`EntriesDecode` for the entries of an item. `LogicalToPhysical` and `SystemToPhysical`:
both mappings find the place of every node, as a chunk that covers it is listed and chunks
do not overlap.

`FsInv` is the file system: the last generation is on the disk but for what its commit has
still to write, the one before it is whole as long as a superblock still names it
(`DiskOK`), each superblock is of one of the two (`SupersOK`), and what differs from that
was lost (`damage > 0`). `DevicesOK` and `ChosenOK` say that the newest superblock is
chosen of those given, `Tried` that each attempt given up was hopeless: the first copy of a
node of that generation or of the trees shared by all attempts (`SharedNodes`, the
superblock's chunk tree among them, `ChunkRootIs`) is not there, or a device of the chunk
tree. `ChunksOK`
and `TreeOK` follow the stack of nodes that are read: with it, the items read so far are
those of the first leaves (`FixedRead`), or a tree is one leaf (`LeafRead`). Both `TreeOK`
and `OpenedOK` speak of a generation that is `Sound`, each of whose nodes is there or no
other node in its place; a checksum cannot tell a reused block. `Sound` is what the
hypothesis of `OpenedExact` gives (`WholeIsSound`), and it stays, because nothing is
written while the program reads.

`OpeningIsExact` follows from `OpenedOK`, `OpeningIsBestEffort` from `Tried`, and
`PowerLossIsSurvived` because with no loss and all devices the first attempt is not
hopeless (`NothingLost`), and no other is made. For `PathsLeadBack` the invariant is `IInv
/\ NamedOK`: the parts found so far lead from the directory reached down to the subvolume.
The link of a directory gives the directory above and a name (`LinkFound`), that name
leads back, past others of the same hash (`ListedFound`), and a part put in front of a
path is the first to be followed (`LookupFirst`). The climb ends at the top, the one
directory that is its own parent.

**Recursive definitions** are recursive functions here. That they exist (`ResultsExist`,
`MarksExist`, `ComparedExist`, and the same in the other modules) is proved, and so is what they
return. The library's induction theorems cannot be used, since they take an operator as
parameter; each induction is done by the least or last element for which the claim would
fail.

**Only model-checked** is liveness: `HashFilesReturns`, `CallReturns`, `DedupReturns`,
`WalkEnds`, `OpenReturns`. Their proofs need `ENABLED`, which this prover does not support.
Every invariant and action property that a passing run checks is a theorem.

## 5. Disagreements between code and documentation

The runs that end with a violation show where the code does not do what its
documentation, messages or assertions say. Each is a finding in `PROJECT.json`.

- `hashpool_huge`: the closure sleeps in `AllocMonBuf::new` while it holds the read
  mutex and a worker. Tasks of huge archives wait for the mutex; when they occupy
  the other workers, the task that would free memory never starts and the scan
  hangs. With `--threads 1` the closure is the only worker and a second archive in
  memory is enough.
- `scan_cache_panic`: a file that changes after the comodification check is committed
  with the hash of the new content and the size of pass 1, and
  `assert_eq!(v.size,size)` fails when its group has another size.
- `scan_cache_phantom`: members of a replaced archive keep `was_file` in the cache
  and become members again when a later run finds the archive valid.
- `readahead_lost`: `next` pops an open error when it returns it and pops again at
  the next call, which discards a file that was opened and never handed out. (A batch of
  `add_file` in which no file can be opened is taken for the end of the source where
  `next` itself calls it, line 204. dupion does not get there: its budget is never below
  1 MiB, `platterwalker.rs:238`, so with an empty queue `advance` has called `add_file`
  before, and the errors are in the queue.) What this costs the scan is in
  `CandidatesHashed`: for each error at most one other file.

Further observations made while modelling, which the models take as they are:

- *Deduplication.* After a failed call the loop behind the retries evaluates the
  statuses of that call again: a file that the retry found different is marked as
  deduplicated, and bytes of files before the error are counted twice. `MarksExact`
  therefore speaks only of calls the kernel answered for every file.
- *Scan.* `is_dir`, the mark of a searched archive, is set with the hash
  (`platterwalker.rs:352`), before and independently of the decoding: a cache stored in
  between, or after a failed decode, makes later runs skip the archive's members.
  Members are missed by this, not reported wrongly.
- *Scan.* The ctime is compared in whole seconds (`vfs/entry.rs:174`).
- *Directory hashes.* An archive whose members were decoded and whose own read failed
  has no hash when `process/mod.rs:103` unwraps it; a root without any file
  has no entry when `output/tree.rs:137` and `output/treediff.rs:143` unwrap its `cid`.
  `OnlyKnownPanics` says that these are the only panics. An archive without members
  has the hash of an empty directory and is grouped with empty directories (a TODO at
  `state/mod.rs:79`).
- *Output.* `find_diff` does not descend into a root that has an equal as a whole, so
  that its children print as unique (`treediff.rs:116`), although the help text calls
  the comparison exact; `TreeDiffExact` leaves such roots out. Entries of an earlier run
  that no longer exist take part in it (`treediff.rs:108`).
- *Output.* Where the cache knows a file and there is a directory now, the entry keeps the
  `file_hash` (`vfs/mod.rs:38`, `:44` set only `is_dir`). `find_shadowed` takes it for a
  duplicate file (`process/mod.rs:113`): what lies below is shadowed, although the
  directory is listed nowhere, and under the shadow rules 1 and 2 its duplicates are not
  printed. `find_diff` compares it with the file opposite (`treediff.rs:109`): a directory
  is DUPS with a file, or with a directory of other contents. Both are reached in
  `dir_groups`; `Misled` and `Misjudged` say where.
- *Walk.* The last, incomplete batch is handed out without the sort by inode. When the
  device of a mount point cannot be opened for the prefetch,
  `mountpoints.retain(prune.contains)` (`platter-walk/src/lib.rs:295`) keeps what it
  should drop; in dupion that takes `--dir-prefetch`, and concerns hints to the kernel
  only. An error of a listing loses the rest of that directory and is reported as one
  error.
- *btrfs.* Nodes are not checked for their generation, owner or level: a backup root whose
  blocks were reused opens as the tree that is there now. Superblocks
  are taken without a look at their checksum. Backups are tried by their slot and not by
  their age, with the chunk tree of the superblock itself and not the one the backup
  names (`root_backup.rs:13`), and only the first stripe of a chunk is read
  (`chunk_tree.rs:95`): one bad copy of a chunk node fails all five attempts, although
  another copy or the backup's chunk tree may be whole. `BestEffort` states it, and
  `btrfs_open` reaches both cases. A device that was not given ends in a panic (`read_tree.rs:19`).
  `subvolume_path` gives the path within the parent subvolume (a TODO in the code),
  and `root_item` does not find snapshots, whose key has an offset.

## 6. Not modelled

- The libarchive binding (`libarchive-rust`): foreign function calls. ScanCache keeps
  what `decode_zip` sees of it, members, errors and the end. That the binding takes
  some errors for the end of the archive (`Disk`'s `next_header`) is not in the model.
- The ioctls other than deduplication, the mount points and the option parsing,
  status line, wording and JSON layout of the outputs: input and output.
- In rust-btrfs: extents and their compression, inode items, directory indexes and the
  accessors nothing calls; items of a wrong size, which become `Invalid` and
  make accessors panic; file systems that are mounted and written while they are read.
- `--pass-1-hash`, `--no-cache`, nested paths of members, the reader of old cache
  files.

## 7. Plan

Done: the modules of section 2 and the proofs of section 4. Left:

- `--pass-1-hash` as a further action of ScanCache, and nested member paths.
