----------------------------- MODULE Readahead ------------------------------
(***************************************************************************)
(* MultiFileReadahead (reapfrog/src/lib.rs), through which hash_files gets *)
(* its files: next() hands out the next file and read() reads from it;     *)
(* both first run advance(), which opens files ahead and asks the kernel   *)
(* to prefetch them as far as the budget goes.                             *)
(*                                                                         *)
(* The loop of advance() is one step per iteration.  The environment       *)
(* decides which files can be opened, how much a read returns and, through *)
(* CacheUsable, the budget before each next().                             *)
(***************************************************************************)
EXTENDS Naturals, Sequences, FiniteSets, SequencesExt

CONSTANTS
  N,            \* number of paths the source yields
  Length,       \* Length[f]: length of file f in its metadata
  MaxOpen,      \* MAX_OPEN
  BatchFiles,   \* files that add_file opens, MAX_OPEN / 4
  Block,        \* PREFETCH_BLOCK
  Budgets,      \* the budgets hash_files may set
  MaxRead,      \* bound: bytes one read returns
  Grow          \* bound: bytes a file may have more than its metadata says

Files == 1..N

ASSUME ConstantsAssumption ==
  /\ N \in Nat
  /\ Length \in [Files -> Nat]
  /\ MaxOpen \in Nat \ {0} /\ BatchFiles \in Nat \ {0}
  /\ Block \in Nat \ {0}
  /\ Budgets \subseteq Nat
  /\ MaxRead \in Nat /\ Grow \in Nat

VARIABLES
  source,       \* the next path of the source, N + 1 when it is exhausted
  open,         \* the open files and open errors, in the order of the source
  budget,       \* the budget set by hash_files
  pc,           \* "idle", "advance", "loop", "front"
  caller,       \* the operation advance() was called from
  i,            \* loop index of advance(), counted from 1
  left,         \* what is left of the budget in advance()
  result,       \* the latest answer of next(): "start" (not called yet),
                \* "ok", "err" or "none"
  given,        \* the files handed out so far
  reported,     \* the files whose open error was handed out
  opened        \* the files that were opened successfully

vars == <<source, open, budget, pc, caller, i, left, result, given, reported, opened>>

Fetch(f, ok) == [file |-> f, ok |-> ok, read_pos |-> 0, prefetch_pos |-> 0]

Init ==
  /\ source = 1
  /\ open = <<>>
  /\ budget \in Budgets
  /\ pc = "idle"
  /\ caller = "next"
  /\ i = 1
  /\ left = 0
  /\ result = "start"
  /\ given = <<>>
  /\ reported = {}
  /\ opened = {}

Minimum(x, y) == IF x < y THEN x ELSE y

SatSub(x, y) == IF x > y THEN x - y ELSE 0

(* Prefetched bytes of an open file that have not been read, ...           *)
Ahead(p) == IF p.ok THEN (p.read_pos + 1)..p.prefetch_pos ELSE {}

(* ... those of all open files, ...                                        *)
AheadBytes == UNION {{open[k].file} \X Ahead(open[k]) : k \in DOMAIN open}

(* ... and how many they are.                                              *)
Consumed == Cardinality(AheadBytes)

RoundDown(x) == (x \div Block) * Block
RoundUp(x) == ((x + Block - 1) \div Block) * Block

(* The paths one call of add_file takes from the source.                   *)
Batch == {f \in Files : source <= f /\ f < source + BatchFiles}

(* Mutant of AddFile: the source is advanced by one path only.             *)
AddFileOverlap(bad) ==
  /\ bad \in SUBSET Batch
  /\ open' = open \o [k \in 1..Cardinality(Batch) |->
                        Fetch(source + k - 1, (source + k - 1) \notin bad)]
  /\ source' = source + Minimum(1, Cardinality(Batch))
  /\ opened' = opened \cup (Batch \ bad)

(* add_file: opens a batch; the files of `bad` cannot be opened.           *)
AddFile(bad) ==
  /\ bad \in SUBSET Batch
  /\ open' = open \o [k \in 1..Cardinality(Batch) |->
                        Fetch(source + k - 1, (source + k - 1) \notin bad)]
  /\ source' = source + Cardinality(Batch)
  /\ opened' = opened \cup (Batch \ bad)

(* Its return value: whether it has opened anything.                       *)
Added(bad) == Batch \ bad # {}

-----------------------------------------------------------------------------
(* next(): the budget is set, and the file handed out last is closed.      *)
CallNext(b) ==
  /\ pc = "idle"
  /\ result # "none"
  /\ budget' = b
  /\ open' = IF open = <<>> THEN open ELSE Tail(open)
  /\ caller' = "next"
  /\ pc' = "advance"
  /\ UNCHANGED <<source, i, left, result, given, reported, opened>>

(* Mutant of Read: a file that was read to its end is closed.              *)
ReadClose(n) ==
  /\ pc = "idle"
  /\ result = "ok"
  /\ open # <<>>
  /\ open[1].read_pos + n <= Length[open[1].file] + Grow
  /\ open' = IF open[1].read_pos + n >= Length[open[1].file]
             THEN Tail(open) ELSE [open EXCEPT ![1].read_pos = @ + n]
  /\ caller' = "read"
  /\ pc' = "advance"
  /\ UNCHANGED <<source, budget, i, left, result, given, reported, opened>>

(* read() of the file handed out last.                                     *)
Read(n) ==
  /\ pc = "idle"
  /\ result = "ok"
  /\ open[1].read_pos + n <= Length[open[1].file] + Grow
  /\ open' = [open EXCEPT ![1].read_pos = @ + n]
  /\ caller' = "read"
  /\ pc' = "advance"
  /\ UNCHANGED <<source, budget, i, left, result, given, reported, opened>>

AfterAdvance == IF caller = "next" THEN "front" ELSE "idle"

(* advance(): nothing happens before half of the window is used up.        *)
Advance ==
  /\ pc = "advance"
  /\ left' = SatSub(budget, Consumed)
  /\ i' = 1
  /\ pc' = IF left' < Consumed THEN AfterAdvance ELSE "loop"
  /\ UNCHANGED <<source, open, budget, caller, result, given, reported, opened>>

(* The loop ends when the budget is spent, ...                             *)
LoopSpent ==
  /\ pc = "loop"
  /\ left < Block
  /\ pc' = AfterAdvance
  /\ UNCHANGED <<source, open, budget, caller, i, left, result, given, reported, opened>>

(* ... or when no file could be added; otherwise it goes on with the first *)
(* of the added ones, ...                                                  *)
LoopAdd(bad) ==
  /\ pc = "loop"
  /\ left >= Block
  /\ i = Len(open) + 1
  /\ AddFile(bad)
  /\ pc' = IF Added(bad) /\ i <= MaxOpen + 1 THEN "loop" ELSE AfterAdvance
  /\ UNCHANGED <<budget, caller, i, left, result, given, reported>>

(* ... or behind the file number MAX_OPEN.                                 *)
LoopFull ==
  /\ pc = "loop"
  /\ left >= Block
  /\ i <= Len(open)
  /\ i > MaxOpen + 1
  /\ pc' = AfterAdvance
  /\ UNCHANGED <<source, open, budget, caller, i, left, result, given, reported, opened>>

AtFile ==
  /\ pc = "loop"
  /\ left >= Block
  /\ i <= Len(open)
  /\ i <= MaxOpen + 1

OldPos == IF open[i].read_pos > open[i].prefetch_pos
          THEN open[i].read_pos ELSE open[i].prefetch_pos

WantsPrefetch == open[i].ok /\ OldPos < Length[open[i].file]

(* Mutant of LoopContinue: `continue` skips the increment.                 *)
LoopContinueStuck ==
  /\ AtFile
  /\ ~WantsPrefetch
  /\ UNCHANGED vars

(* An error, or a file that is prefetched to its end.                      *)
LoopContinue ==
  /\ AtFile
  /\ ~WantsPrefetch
  /\ i' = i + 1
  /\ UNCHANGED <<source, open, budget, pc, caller, left, result, given, reported, opened>>

(* Mutant of NewPos: the whole file at once.                               *)
NewPosWhole == Length[open[i].file]

(* The position up to which the file is prefetched.                        *)
NewPos ==
  LET length == Length[open[i].file]
  IN  Minimum(length, RoundUp(OldPos + Minimum(length - OldPos, RoundDown(left))))

(* The file is prefetched; rounding up may take more than what is left.    *)
LoopPrefetch ==
  /\ AtFile
  /\ WantsPrefetch
  /\ open' = [open EXCEPT ![i].prefetch_pos = NewPos]
  /\ left' = SatSub(left, NewPos - OldPos)
  /\ i' = i + 1
  /\ UNCHANGED <<source, budget, pc, caller, result, given, reported, opened>>

(* The rest of next(): the front of the queue is the answer; if the queue  *)
(* is empty add_file is tried once more.                                   *)
FrontAdd(bad) ==
  /\ pc = "front"
  /\ open = <<>>
  /\ AddFile(bad)
  /\ IF Added(bad)
     THEN pc' = "front" /\ UNCHANGED result
     ELSE pc' = "idle" /\ result' = "none"
  /\ UNCHANGED <<budget, caller, i, left, given, reported>>

(* An open error is taken out of the queue and returned.                   *)
FrontErr ==
  /\ pc = "front"
  /\ open # <<>>
  /\ ~open[1].ok
  /\ reported' = reported \cup {open[1].file}
  /\ open' = Tail(open)
  /\ result' = "err"
  /\ pc' = "idle"
  /\ UNCHANGED <<source, budget, caller, i, left, given, opened>>

FrontOk ==
  /\ pc = "front"
  /\ open # <<>>
  /\ open[1].ok
  /\ given' = Append(given, open[1].file)
  /\ result' = "ok"
  /\ pc' = "idle"
  /\ UNCHANGED <<source, open, budget, caller, i, left, reported, opened>>

-----------------------------------------------------------------------------
(* The steps inside an operation.                                          *)
Internal ==
  \/ Advance
  \/ LoopSpent
  \/ \E bad \in SUBSET Files : LoopAdd(bad) \/ FrontAdd(bad)
  \/ LoopFull
  \/ LoopContinue
  \/ LoopPrefetch
  \/ FrontErr
  \/ FrontOk

Done == pc = "idle" /\ result = "none" /\ UNCHANGED vars

Next ==
  \/ \E b \in Budgets : CallNext(b)
  \/ \E n \in 0..MaxRead : Read(n)
  \/ Internal
  \/ Done

(* An operation that was called runs to its end.                           *)
Fairness == WF_vars(Internal)

Spec == Init /\ [][Next]_vars /\ Fairness

-----------------------------------------------------------------------------
(* Properties.                                                             *)

OpenFile == [file : Files, ok : BOOLEAN, read_pos : Nat, prefetch_pos : Nat]

(* The types of the queue of MultiFileReadahead, of the loop of advance()  *)
(* and of what was handed out.                                             *)
TypeOK ==
  /\ source \in 1..(N + 1)
  /\ open \in Seq(OpenFile)
  /\ budget \in Budgets
  /\ pc \in {"idle", "advance", "loop", "front"}
  /\ caller \in {"next", "read"}
  /\ i \in Nat \ {0}
  /\ left \in Nat
  /\ result \in {"start", "none", "ok", "err"}
  /\ given \in Seq(Files)
  /\ reported \in SUBSET Files
  /\ opened \in SUBSET Files

Largest(b) == \A c \in Budgets : c <= b

(* The window of prefetched bytes stays within the largest budget plus the *)
(* rounding of one prefetch to whole blocks, and the open files below      *)
(* MAX_OPEN plus one batch of add_file (advance); what is left of the      *)
(* budget never wraps (TypeOK).                                            *)
Bounded ==
  /\ TypeOK
  /\ \A b \in Budgets : Largest(b) => Consumed < b + Block
  /\ Len(open) <= MaxOpen + 1 + BatchFiles

(* While a file is being read it stays at the front of the queue.          *)
ReaderStaysValid ==
  (result = "ok" /\ (pc = "idle" \/ caller = "read")) =>
     /\ open # <<>>
     /\ open[1].ok
     /\ open[1].file = Last(given)

(* Every call returns: the loop of advance() ends.                         *)
CallReturns == (pc # "idle") ~> (pc = "idle")

(* reapfrog's README: `Read` implementations are returned for each file.   *)
(* When next() has returned None, the source is exhausted and every file   *)
(* that could be opened was handed out.                                    *)
NoFileLost ==
  result = "none" => source = N + 1 /\ opened \subseteq ToSet(given)

(* The refinement mapping to ReadQueue.                                    *)
Queue ==
  INSTANCE ReadQueue WITH ended <- (result = "none"), broken <- (1..source - 1) \ opened

(* The readahead implements ReadQueue, for every pattern of files that     *)
(* cannot be opened: their order (by the place on the disk, which          *)
(* hash_files has sorted by) is kept, nothing is handed out twice, and a   *)
(* good file is lost only behind an error (next, advance, add_file).       *)
IsQueue == Queue!Spec

-----------------------------------------------------------------------------
(* The inductive invariant of IsQueue and ReaderStaysValid.                *)

(* The file at the front of the queue, or the next one of the source.      *)
First == source - Len(open)

(* The queue holds the files before `source` in their order, back to the   *)
(* front.                                                                  *)
QueueInv ==
  /\ source \in 1..(N + 1)
  /\ open \in Seq(ToSet(open))
  /\ Len(open) < source
  /\ \A k \in 1..Len(open) : /\ {"file", "ok"} \subseteq DOMAIN open[k]
                             /\ open[k].file = First + k - 1
                             /\ open[k].ok <=> First + k - 1 \in opened

(* Answers are about files that were taken from the source.                *)
AnswersInv ==
  /\ opened \in SUBSET (1..(source - 1))
  /\ reported \in SUBSET (1..(source - 1))
  /\ given \in Seq(1..(source - 1))
  /\ Queue!LastAnswer \in {0} \cup ToSet(given) \cup reported
  /\ \A f \in {0} \cup ToSet(given) \cup reported : f <= Queue!LastAnswer

(* The front of the queue is the file the last answer was about while it   *)
(* can be read, and the one the next answer is due about during next().    *)
FrontInv ==
  /\ (result = "ok" /\ (pc = "idle" \/ caller = "read")) =>
        /\ Len(open) > 0 /\ open[1].ok
        /\ First = Queue!LastAnswer
        /\ Len(given) > 0 /\ given[Len(given)] = Queue!LastAnswer
  /\ pc = "idle" /\ result = "start" => Len(open) = 0 /\ First = Queue!LastAnswer + 1
  /\ pc = "idle" /\ result = "err" =>
        Queue!LastAnswer \in reported /\ First = Queue!LastAnswer + 1
  /\ pc # "idle" /\ caller = "next" => First \in Queue!Due

(* The end is announced only when a call of next() returns, and only files *)
(* that were handed out are read.                                          *)
CallInv ==
  /\ pc \in {"idle", "advance", "loop", "front"}
  /\ caller \in {"next", "read"}
  /\ result \in {"start", "none", "ok", "err"}
  /\ pc # "idle" => result # "none"
  /\ pc = "front" => caller = "next"
  /\ caller = "read" => result = "ok"

IInv == QueueInv /\ AnswersInv /\ FrontInv /\ CallInv

(* The inductive invariant of Bounded: in the loop what is left of the     *)
(* budget is not in use yet, unless the last prefetch took it all and      *)
(* perhaps a part of a block more; and the loop adds files only behind the *)
(* ones it may look at.                                                    *)
WindowInv ==
  /\ open \in Seq(OpenFile)
  /\ budget \in Budgets
  /\ i \in Nat \ {0}
  /\ left \in Nat
  /\ Len(open) <= MaxOpen + 1 + BatchFiles
  /\ pc = "loop" => i <= MaxOpen + 2
  /\ \A b \in Budgets : Largest(b) =>
       /\ Consumed < b + Block
       /\ pc = "loop" => left = 0 \/ Consumed + left <= b
=============================================================================
