------------------------------- MODULE Dedup --------------------------------
(***************************************************************************)
(* BtrfsDedup::dedup_groups and dedup_group_batch                          *)
(* (dupion/src/dedup/btrfs.rs).  Groups of equal files are collected into  *)
(* batches that fit the page cache and the limit on open files; a group    *)
(* that is too large is split.  The files of a batch are opened, and for   *)
(* each group the kernel is asked to share the extents of its source file  *)
(* (`senpai`) with the others (`dups`).                                    *)
(*                                                                         *)
(* Files change at any moment: the kernel compares contents itself, so the *)
(* model keeps for each file only whether it is still the one the scan     *)
(* hashed.  The kernel may refuse any file or any call.                    *)
(*                                                                         *)
(* allow_range_split is the constant false in the code; the branch behind  *)
(* it is not modelled.                                                     *)
(***************************************************************************)
EXTENDS Naturals, Sequences, FiniteSets, SequencesExt

CONSTANTS
  Ids,          \* entries of the tree
  Workloads,    \* what is deduplicated, see Workload
  MaxDups       \* max_dups_per_group

Group == [senpai : Ids, dups : Seq(Ids), len : Nat \ {0}]

(* The groups dedup() has built, in their order; the values                *)
(* CacheUsable::get may return; the files other programs modify or delete; *)
(* opts.dedup_simulate.                                                    *)
Workload ==
  [input : Seq(Group), cache_maxes : SUBSET Nat, changing : SUBSET Ids, simulate : BOOLEAN]

(* dedup() gives no group without dups, none of an empty file, and no      *)
(* entry twice: an entry is in one hash group.                             *)
ASSUME InputAssumption ==
  \A w \in Workloads : \A k \in DOMAIN w.input :
    /\ w.input[k].dups # <<>>
    /\ w.input[k].senpai \notin ToSet(w.input[k].dups)
    /\ IsInjective(w.input[k].dups)
    /\ \A l \in DOMAIN w.input : k # l =>
         ({w.input[k].senpai} \cup ToSet(w.input[k].dups))
           \cap ({w.input[l].senpai} \cup ToSet(w.input[l].dups)) = {}

ASSUME ConstantsAssumption ==
  /\ Workloads \subseteq Workload
  /\ MaxDups \in Nat /\ MaxDups >= 2

VARIABLES
  work,         \* what is deduplicated
  groups,       \* groups that are not in a batch yet
  submit_buf,   \* the batch
  cache_max,    \* estimated size of the usable page cache
  pc,           \* "fill", "batch", "ioctl", "retry", "account", "done"
  at,           \* index of the loop over the batch, or over the retried dups
  opened,       \* the groups of the batch whose files are open
  answer,       \* dest_infos of the latest call for the whole group
  file,         \* what has become of each file since the scan
  dedup_state,  \* entries with dedup_state = Some(true)
  told,         \* entries reported as "Not deduped"
  processed,    \* DISP_PROCESSED_FILES
  deduped,      \* DISP_DEDUPED_BYTES
  linked,       \* files that share the extents of their senpai
  skipped,      \* dups that could not be opened, or whose senpai could not
  submitted     \* pairs of senpai and dup that went through a batch

counters == <<dedup_state, told, processed, deduped, linked>>
vars == <<work, groups, submit_buf, cache_max, pc, at, opened, answer, file, counters,
          skipped, submitted>>

Input == work.input

Init ==
  /\ work \in Workloads
  /\ groups = Input
  /\ submit_buf = <<>>
  /\ cache_max \in work.cache_maxes
  /\ pc = "fill"
  /\ at = 1
  /\ opened = <<>>
  /\ answer = <<>>
  /\ file = [f \in Ids |-> "same"]
  /\ dedup_state = {}
  /\ told = {}
  /\ processed = 0
  /\ deduped = 0
  /\ linked = {}
  /\ skipped = {}
  /\ submitted = {}

-----------------------------------------------------------------------------
(* Sums over groups.                                                       *)

(* DedupGroup::sum, the files of a group.                                  *)
Sum(g) == Len(g.dups) + 1

(* The files of some groups, and their bytes: submit_sum, submit_usage.    *)
FilesOf(gs) == UNION {{k} \X (1..Sum(gs[k])) : k \in DOMAIN gs}
BytesOf(gs) == UNION {{k} \X ((1..Sum(gs[k])) \X (1..gs[k].len)) : k \in DOMAIN gs}

FileSum(gs) == Cardinality(FilesOf(gs))
Usage(gs) == Cardinality(BytesOf(gs))

Pairs(gs) == UNION {{gs[k].senpai} \X ToSet(gs[k].dups) : k \in DOMAIN gs}

Fits(gs) == FileSum(gs) <= MaxDups /\ Usage(gs) <= cache_max

Minimum(x, y) == IF x < y THEN x ELSE y
Maximum(x, y) == IF x > y THEN x ELSE y

-----------------------------------------------------------------------------
(* Other programs modify a file (in size or not) or delete it.             *)
Change(f, s) ==
  /\ f \in work.changing
  /\ pc # "done"
  /\ file[f] = "same"
  /\ s \in {"changed", "resized", "gone"}
  /\ file' = [file EXCEPT ![f] = s]
  /\ UNCHANGED <<work, groups, submit_buf, cache_max, pc, at, opened, answer, counters,
                 skipped, submitted>>

-----------------------------------------------------------------------------
(* dedup_groups: the inner loop, which prepares a batch.                   *)

(* Mutant of CanTake: the size of the page cache is not looked at.         *)
CanTakeAnySize ==
  /\ groups # <<>>
  /\ \/ Head(groups).dups = <<>>
     \/ submit_buf = <<>>
     \/ FileSum(Append(submit_buf, Head(groups))) <= MaxDups

(* The first group can be taken: an empty one is dropped, any one starts a *)
(* batch, and it joins a batch in which it fits.                           *)
CanTake ==
  /\ groups # <<>>
  /\ \/ Head(groups).dups = <<>>
     \/ submit_buf = <<>>
     \/ Fits(Append(submit_buf, Head(groups)))

(* One round of the loop: the first group is taken.                        *)
TakeGroup ==
  /\ pc = "fill"
  /\ CanTake
  /\ groups' = Tail(groups)
  /\ submit_buf' = IF Head(groups).dups = <<>> THEN submit_buf
                   ELSE Append(submit_buf, Head(groups))
  /\ UNCHANGED <<work, cache_max, pc, at, opened, answer, file, counters, skipped, submitted>>

(* The number of files of a group that fit.                                *)
max_group_files ==
  Maximum(2, Minimum(cache_max \div submit_buf[1].len, MaxDups))

(* The point of the first assertion of the loop.                           *)
TooLarge == pc = "fill" /\ ~CanTake /\ submit_buf # <<>> /\ ~Fits(submit_buf)

(* Mutant of SplitEnd: the dup at the cut goes to both halves.             *)
SplitEndOverlap ==
  /\ TooLarge
  /\ max_group_files < FileSum(submit_buf)
  /\ LET g == submit_buf[1]
         n == max_group_files - 1
     IN
     /\ submit_buf' = <<[g EXCEPT !.dups = SubSeq(g.dups, 1, n)]>>
     /\ groups' = <<[g EXCEPT !.dups = SubSeq(g.dups, n, Len(g.dups))]>> \o groups
  /\ UNCHANGED <<work, cache_max, pc, at, opened, answer, file, counters, skipped, submitted>>

(* Mutant of SplitEnd: the senpai is not counted, so a batch stays too     *)
(* large.                                                                  *)
SplitEndLate ==
  /\ TooLarge
  /\ max_group_files < FileSum(submit_buf)
  /\ LET g == submit_buf[1]
         n == max_group_files
     IN
     /\ submit_buf' = <<[g EXCEPT !.dups = SubSeq(g.dups, 1, n)]>>
     /\ groups' = <<[g EXCEPT !.dups = SubSeq(g.dups, n + 1, Len(g.dups))]>> \o groups
  /\ UNCHANGED <<work, cache_max, pc, at, opened, answer, file, counters, skipped, submitted>>

(* A single group with too many files: its end is put back.                *)
SplitEnd ==
  /\ TooLarge
  /\ max_group_files < FileSum(submit_buf)
  /\ LET g == submit_buf[1]
         n == max_group_files - 1
     IN
     /\ submit_buf' = <<[g EXCEPT !.dups = SubSeq(g.dups, 1, n)]>>
     /\ groups' = <<[g EXCEPT !.dups = SubSeq(g.dups, n + 1, Len(g.dups))]>> \o groups
  /\ UNCHANGED <<work, cache_max, pc, at, opened, answer, file, counters, skipped, submitted>>

(* The batch fits, or is a pair that does not fit and is tried anyway.     *)
Submit ==
  /\ pc = "fill"
  /\ ~CanTake
  /\ submit_buf # <<>>
  /\ Fits(submit_buf) \/ max_group_files >= FileSum(submit_buf)
  /\ pc' = "batch"
  /\ at' = 1
  /\ UNCHANGED <<work, groups, submit_buf, cache_max, opened, answer, file, counters,
                 skipped, submitted>>

(* Both loops end when nothing is left.                                    *)
Return ==
  /\ pc = "fill"
  /\ groups = <<>>
  /\ submit_buf = <<>>
  /\ pc' = "done"
  /\ UNCHANGED <<work, groups, submit_buf, cache_max, at, opened, answer, file, counters,
                 skipped, submitted>>

(* dedup_group_batch has returned: the batch is cleared and the usable     *)
(* cache estimated again.                                                  *)
EndBatch ==
  /\ submitted' = submitted \cup Pairs(submit_buf)
  /\ submit_buf' = <<>>
  /\ cache_max' \in work.cache_maxes
  /\ pc' = "fill"

-----------------------------------------------------------------------------
(* dedup_group_batch.                                                      *)

(* With --dedup-simulate it only counts.                                   *)
SimulateBatch ==
  /\ work.simulate
  /\ pc = "batch"
  /\ processed' = processed + Cardinality(Pairs(submit_buf))
  /\ EndBatch
  /\ UNCHANGED <<work, groups, at, opened, answer, file, dedup_state, told, deduped, linked,
                 skipped>>

(* The files that are opened in vain: deleted or of another size now.      *)
Unusable == {f \in Ids : file[f] \in {"resized", "gone"}}

(* What is left of a list of dups without the bad ones, in its order: the  *)
(* only member of this set.                                                *)
Left(dups, bad) ==
  LET good == {k \in DOMAIN dups : dups[k] \notin bad} IN
  {[k \in DOMAIN p |-> dups[p[k]]] :
     p \in {q \in [1..Cardinality(good) -> good] :
              ToSet(q) = good /\ \A k, l \in DOMAIN q : k < l => q[k] < q[l]}}

(* The files of the next group of the batch are opened; `bad` are the dups *)
(* for which this fails, for these reasons or another.                     *)
OpenGroup ==
  LET g == submit_buf[at] IN
  /\ ~work.simulate
  /\ pc = "batch"
  /\ at <= Len(submit_buf)
  /\ g.senpai \notin Unusable
  /\ \E bad \in SUBSET ToSet(g.dups) :
       /\ ToSet(g.dups) \cap Unusable \subseteq bad
       /\ \E left \in Left(g.dups, bad) : opened' = Append(opened, [g EXCEPT !.dups = left])
       /\ skipped' = skipped \cup bad
  /\ at' = at + 1
  /\ UNCHANGED <<work, groups, submit_buf, cache_max, pc, answer, file, counters, submitted>>

(* Without its senpai a group is left out.                                 *)
OpenSenpaiFails ==
  /\ ~work.simulate
  /\ pc = "batch"
  /\ at <= Len(submit_buf)
  /\ skipped' = skipped \cup ToSet(submit_buf[at].dups)
  /\ opened' = opened
  /\ at' = at + 1
  /\ UNCHANGED <<work, groups, submit_buf, cache_max, pc, answer, file, counters, submitted>>

AllOpened ==
  /\ ~work.simulate
  /\ pc = "batch"
  /\ at > Len(submit_buf)
  /\ pc' = "ioctl"
  /\ UNCHANGED <<work, groups, submit_buf, cache_max, at, opened, answer, file, counters,
                 skipped, submitted>>

(* ioctl_file_dedupe_range: the kernel compares senpai s and file d and    *)
(* shares the extents if they are equal; it may also refuse.               *)
KernelAnswers(s, d) ==
  {"error"} \cup (IF {file[s], file[d]} \subseteq {"same", "gone"}
                  THEN {"same"} ELSE {"differs"})

(* deduplicate_range decodes the answers in order and stops at an error:   *)
(* from there on the statuses keep their initial value Same with 0 bytes.  *)
(* `ok` is FALSE if the call as a whole failed.                            *)
Decoded(ok, r) ==
  [j \in DOMAIN r |->
     IF ok /\ \A l \in 1..j : r[l] # "error" THEN r[j] ELSE "untouched"]

Cur == Head(opened)

Answers(g) ==
  {r \in [DOMAIN g.dups -> {"error", "same", "differs"}] :
     \A j \in DOMAIN r : r[j] \in KernelAnswers(g.senpai, g.dups[j])}

(* The dups of a group that got this status.                               *)
With(g, r, status) == {g.dups[j] : j \in {l \in DOMAIN r : r[l] = status}}

(* One call for all dups of a group.                                       *)
DedupGroup(ok) ==
  /\ pc = "ioctl"
  /\ opened # <<>>
  /\ \E r \in Answers(Cur) :
       /\ linked' = IF ok THEN linked \cup With(Cur, r, "same") ELSE linked
       /\ answer' = Decoded(ok, r)
       /\ pc' = IF ok /\ With(Cur, r, "error") = {} THEN "account" ELSE "retry"
  /\ at' = 1
  /\ UNCHANGED <<work, groups, submit_buf, cache_max, opened, file, dedup_state, told,
                 processed, deduped, skipped, submitted>>

(* After an error one call for each dup.  A refused one keeps Same.        *)
RetryDup(k) ==
  LET d == Cur.dups[at] IN
  /\ pc = "retry"
  /\ at <= Len(Cur.dups)
  /\ k \in KernelAnswers(Cur.senpai, d)
  /\ linked' = IF k = "same" THEN linked \cup {d} ELSE linked
  /\ deduped' = IF k = "same" THEN deduped + Cur.len ELSE deduped
  /\ told' = IF k = "differs" THEN told \cup {d} ELSE told
  /\ dedup_state' = IF k = "differs" THEN dedup_state ELSE dedup_state \cup {d}
  /\ at' = at + 1
  /\ UNCHANGED <<work, groups, submit_buf, cache_max, pc, opened, answer, file, processed,
                 skipped, submitted>>

EndRetry ==
  /\ pc = "retry"
  /\ at > Len(Cur.dups)
  /\ pc' = "account"
  /\ UNCHANGED <<work, groups, submit_buf, cache_max, at, opened, answer, file, counters,
                 skipped, submitted>>

(* Mutant of Account: the senpai is counted as processed.                  *)
AccountSum ==
  /\ pc = "account"
  /\ processed' = processed + Sum(Cur)
  /\ deduped' = deduped + Cur.len * Cardinality(With(Cur, answer, "same"))
  /\ told' = told \cup With(Cur, answer, "differs")
  /\ dedup_state' = dedup_state \cup (ToSet(Cur.dups) \ With(Cur, answer, "differs"))
  /\ opened' = Tail(opened)
  /\ answer' = <<>>
  /\ pc' = "ioctl"
  /\ UNCHANGED <<work, groups, submit_buf, cache_max, at, file, linked, skipped, submitted>>

(* Mutant of Account: only what was decoded is marked.                     *)
AccountDecoded ==
  /\ pc = "account"
  /\ processed' = processed + Len(Cur.dups)
  /\ deduped' = deduped + Cur.len * Cardinality(With(Cur, answer, "same"))
  /\ told' = told \cup With(Cur, answer, "differs")
  /\ dedup_state' = dedup_state \cup With(Cur, answer, "same")
  /\ opened' = Tail(opened)
  /\ answer' = <<>>
  /\ pc' = "ioctl"
  /\ UNCHANGED <<work, groups, submit_buf, cache_max, at, file, linked, skipped, submitted>>

(* Mutant of Account: every file of the group is marked.                   *)
AccountAll ==
  /\ pc = "account"
  /\ processed' = processed + Len(Cur.dups)
  /\ deduped' = deduped + Cur.len * Cardinality(With(Cur, answer, "same"))
  /\ told' = told \cup With(Cur, answer, "differs")
  /\ dedup_state' = dedup_state \cup ToSet(Cur.dups)
  /\ opened' = Tail(opened)
  /\ answer' = <<>>
  /\ pc' = "ioctl"
  /\ UNCHANGED <<work, groups, submit_buf, cache_max, at, file, linked, skipped, submitted>>

(* The answers of the call for the whole group are evaluated, after a      *)
(* retry, too.                                                             *)
Account ==
  /\ pc = "account"
  /\ processed' = processed + Len(Cur.dups)
  /\ deduped' = deduped + Cur.len * Cardinality(With(Cur, answer, "same"))
  /\ told' = told \cup With(Cur, answer, "differs")
  /\ dedup_state' = dedup_state \cup (ToSet(Cur.dups) \ With(Cur, answer, "differs"))
  /\ opened' = Tail(opened)
  /\ answer' = <<>>
  /\ pc' = "ioctl"
  /\ UNCHANGED <<work, groups, submit_buf, cache_max, at, file, linked, skipped, submitted>>

BatchDone ==
  /\ pc = "ioctl"
  /\ opened = <<>>
  /\ EndBatch
  /\ UNCHANGED <<work, groups, at, opened, answer, file, counters, skipped>>

-----------------------------------------------------------------------------
Program ==
  \/ TakeGroup
  \/ SplitEnd
  \/ Submit
  \/ Return
  \/ SimulateBatch
  \/ OpenGroup
  \/ OpenSenpaiFails
  \/ AllOpened
  \/ \E ok \in BOOLEAN : DedupGroup(ok)
  \/ \E k \in {"error", "same", "differs"} : RetryDup(k)
  \/ EndRetry
  \/ Account
  \/ BatchDone

Done == pc = "done" /\ UNCHANGED vars

Next ==
  \/ Program
  \/ \E f \in Ids : \E s \in {"changed", "resized", "gone"} : Change(f, s)
  \/ Done

(* A single thread runs; every system call returns.                        *)
Fairness == WF_vars(Program)

Spec == Init /\ [][Next]_vars /\ Fairness

-----------------------------------------------------------------------------
(* Properties.                                                             *)

(* The groups and batches of dedup_groups and the state of                 *)
(* dedup_group_batch.                                                      *)
TypeOK ==
  /\ work \in Workloads
  /\ groups \in Seq(Group)
  /\ submit_buf \in Seq(Group)
  /\ cache_max \in work.cache_maxes
  /\ pc \in {"fill", "batch", "ioctl", "retry", "account", "done"}
  /\ at \in Nat \ {0}
  /\ opened \in Seq(Group)
  /\ answer \in Seq({"same", "differs", "untouched"})
  /\ file \in [Ids -> {"same", "changed", "resized", "gone"}]
  /\ dedup_state \in SUBSET Ids
  /\ told \in SUBSET Ids
  /\ processed \in Nat
  /\ deduped \in Nat
  /\ linked \in SUBSET Ids
  /\ skipped \in SUBSET Ids
  /\ submitted \in SUBSET (Ids \X Ids)

(* Splitting and batching neither loses a dup nor submits one twice nor    *)
(* moves it to the senpai of another group: at every moment each pair of   *)
(* the input is in exactly one place.                                      *)
EachDupOnce ==
  /\ Pairs(groups) \cup Pairs(submit_buf) \cup submitted = Pairs(Input)
  /\ Pairs(groups) \cap Pairs(submit_buf) = {}
  /\ Pairs(groups) \cap submitted = {}
  /\ Pairs(submit_buf) \cap submitted = {}
  /\ pc = "done" => submitted = Pairs(Input)

(* The two assertions of the loop: a batch that does not fit is a single   *)
(* group, and one that cannot be split is a pair.                          *)
ChecklistAsserts ==
  TooLarge =>
    /\ Len(submit_buf) = 1
    /\ max_group_files >= FileSum(submit_buf) =>
         max_group_files = 2 /\ FileSum(submit_buf) = 2

(* A batch fits in the limit on open files and in the page cache, except   *)
(* for a single pair of files that are too large for the cache.            *)
BatchFits ==
  pc \in {"batch", "ioctl", "retry", "account"} =>
    /\ FileSum(submit_buf) <= MaxDups
    /\ Usage(submit_buf) <= cache_max \/ FileSum(submit_buf) = 2

(* Splitting keeps batches within their bounds, and the assertions on the  *)
(* way hold (dedup_groups).  The state is well typed.                      *)
BatchBounded == TypeOK /\ ChecklistAsserts /\ BatchFits

(* The progress display ends with every dup of the input processed, except *)
(* for the ones about which an error was printed when they were opened.    *)
AllAccounted ==
  pc = "done" => processed + Cardinality(skipped) = Cardinality(Pairs(Input))

(* A file whose extents the kernel has shared is marked as deduplicated,   *)
(* on the path with and on the path without retries.                       *)
LinkedMarked ==
  pc \in {"fill", "batch", "done"} => linked \subseteq dedup_state

(* dedup_groups returns.                                                   *)
DedupReturns == <>(pc = "done")

(* Where the kernel answered for every file of a group, exactly the files  *)
(* whose extents it shared are marked; only after a retry, where the       *)
(* statuses of the failed call are evaluated again, may others be, too.    *)
MarksExact ==
  [][(pc = "account" /\ pc' = "ioctl" /\ "untouched" \notin ToSet(answer)) =>
       dedup_state' \cap ToSet(Cur.dups) = linked' \cap ToSet(Cur.dups)]_vars

-----------------------------------------------------------------------------
(* The inductive invariant of EachDupOnce.                                 *)

(* No file is in two groups of a list, or twice in one of them.            *)
Separate(gs) ==
  \A k \in DOMAIN gs :
    /\ IsInjective(gs[k].dups)
    /\ \A l \in DOMAIN gs : k # l => ToSet(gs[k].dups) \cap ToSet(gs[l].dups) = {}

(* No file is both in a group of a list and in a set.                      *)
Outside(gs, files) == \A k \in DOMAIN gs : ToSet(gs[k].dups) \cap files = {}

DupsOf(gs) == UNION {ToSet(gs[k].dups) : k \in DOMAIN gs}

Submitted == {p[2] : p \in submitted}

(* The types of what the loop that fills a batch works on.                 *)
FillTypes ==
  /\ work \in Workloads
  /\ groups \in Seq(Group)
  /\ submit_buf \in Seq(Group)
  /\ cache_max \in Nat

(* Every dup of the input is in one place.                                 *)
PlacesInv ==
  /\ Separate(groups) /\ Separate(submit_buf)
  /\ Outside(groups, DupsOf(submit_buf) \cup Submitted)
  /\ Outside(submit_buf, Submitted)
  /\ Pairs(groups) \cup Pairs(submit_buf) \cup submitted = Pairs(Input)

(* A batch that is cut is a single group: one of several groups fits.      *)
BatchInv ==
  /\ pc = "fill" /\ Len(submit_buf) > 1 => Fits(submit_buf)
  /\ \A k \in DOMAIN submit_buf : submit_buf[k].dups # <<>>
  /\ pc = "done" => groups = <<>> /\ submit_buf = <<>>

IInv == FillTypes /\ PlacesInv /\ BatchInv

-----------------------------------------------------------------------------
(* The inductive invariant of LinkedMarked, MarksExact and AllAccounted.   *)

(* The groups of the batch that have been opened, in vain or not, and      *)
(* their dups.                                                             *)
TriedGroups ==
  {k \in DOMAIN submit_buf : IF pc = "batch" THEN k < at ELSE pc \in {"ioctl", "retry", "account"}}

Tried == UNION {ToSet(submit_buf[k].dups) : k \in TriedGroups}

(* The kernel has been asked about the first open group.                   *)
Asked == pc \in {"retry", "account"}

(* The open groups for which it has not.                                   *)
Waiting == IF Asked THEN Tail(opened) ELSE opened

(* An open group is what could be opened of a group of the batch.          *)
OpenInv ==
  /\ Separate(opened)
  /\ DupsOf(opened) \subseteq Tried
  /\ DupsOf(opened) \cap skipped = {}
  /\ skipped \subseteq Submitted \cup Tried
  /\ pc \in {"fill", "done"} \/ work.simulate => opened = <<>>
  /\ work.simulate => pc \in {"fill", "batch", "done"} /\ (pc = "batch" => at = 1)
  /\ Asked => opened # <<>> /\ DOMAIN answer = DOMAIN Cur.dups

(* No dup of a waiting group is linked or marked; one that is linked is    *)
(* marked, or will be when the answers are evaluated.  If the kernel       *)
(* answered for all, nothing is marked yet, and there is nothing to retry. *)
MarkInv ==
  /\ linked \cup dedup_state \subseteq Submitted \cup Tried
  /\ DupsOf(Waiting) \cap (linked \cup dedup_state) = {}
  /\ linked \subseteq dedup_state \cup
       (IF Asked THEN ToSet(Cur.dups) \ With(Cur, answer, "differs") ELSE {})
  /\ Asked /\ "untouched" \notin ToSet(answer) =>
       /\ pc = "retry" => Cur.dups = <<>>
       /\ linked \cap ToSet(Cur.dups) = With(Cur, answer, "same")
       /\ dedup_state \cap ToSet(Cur.dups) = {}

(* The dups that are counted: in batches and done with.                    *)
Counted == (Submitted \cup Tried) \ (skipped \cup DupsOf(opened))

(* The batches of IInv, and what has become of the files in them.          *)
FilesInv ==
  /\ TypeOK
  /\ OpenInv
  /\ MarkInv
  /\ processed = Cardinality(Counted)
=============================================================================
