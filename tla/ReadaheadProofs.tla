-------------------------- MODULE ReadaheadProofs ---------------------------
(***************************************************************************)
(* Proofs about Readahead for every number and length of files, every      *)
(* MAX_OPEN, every sequence of budgets and every choice of files that      *)
(* cannot be opened: what next() answers is a behaviour of ReadQueue.      *)
(***************************************************************************)
EXTENDS Readahead, FiniteSetTheorems, SequenceTheorems, TLAPS

(* The largest number of a set that has one.                               *)
LEMMA MaxOf ==
  ASSUME NEW S \in SUBSET Nat, NEW m \in S, \A x \in S : x <= m
  PROVE  Max(S) = m
<1>1. \A x \in S : m >= x
  OBVIOUS
<1>2. \A n \in S : (\A x \in S : n >= x) => n = m
  BY <1>1
<1> QED
  BY <1>1, <1>2 DEF Max

(* The files before a file are before a later one.                         *)
LEMMA Before ==
  ASSUME NEW a \in Nat, NEW b \in Nat, a <= b
  PROVE  1..(a - 1) \subseteq 1..(b - 1)
OBVIOUS

(* The last answer of ReadQueue, before and after a step.                  *)
LEMMA LastAnswerIs ==
  /\ Queue!LastAnswer = Max({0} \cup ToSet(given) \cup reported)
  /\ Queue!LastAnswer' = Max({0} \cup ToSet(given') \cup reported')
<1>1. Queue!LastAnswer = Max({0} \cup ToSet(given) \cup reported)
  BY Zenon DEF Queue!LastAnswer, Queue!Max, Queue!ToSet, Max, ToSet
<1>2. Queue!LastAnswer' = Max({0} \cup ToSet(given') \cup reported')
  BY Zenon DEF Queue!LastAnswer, Queue!Max, Queue!ToSet, Max, ToSet
<1> QED
  BY <1>1, <1>2

(* A sequence is a sequence of its elements.                               *)
LEMMA OwnElements ==
  ASSUME NEW S, NEW s \in Seq(S)
  PROVE  /\ s \in Seq(ToSet(s))
         /\ ToSet(s) = {s[k] : k \in 1..Len(s)}
         /\ ToSet(s) \subseteq S
<1>1. Len(s) \in Nat /\ s \in [1..Len(s) -> S] /\ DOMAIN s = 1..Len(s)
  BY LenProperties
<1>2. ToSet(s) = {s[k] : k \in 1..Len(s)}
  BY <1>1 DEF ToSet
<1>3. s \in [1..Len(s) -> ToSet(s)]
  BY <1>1, <1>2
<1>4. s \in Seq(ToSet(s))
  BY <1>1, <1>3, SeqDef
<1> QED
  BY <1>1, <1>2, <1>4

(* The batch of add_file is the next files of the source.                  *)
LEMMA BatchIs ==
  ASSUME QueueInv
  PROVE  /\ Cardinality(Batch) \in Nat
         /\ source + Cardinality(Batch) \in 1..(N + 1)
         /\ Batch = source..(source + Cardinality(Batch) - 1)
         /\ Batch = {} => source = N + 1
<1> DEFINE m == IF N <= source + BatchFiles - 1 THEN N ELSE source + BatchFiles - 1
<1>1. /\ N \in Nat /\ BatchFiles \in Nat \ {0}
      /\ source \in Nat \ {0} /\ source <= N + 1
  BY ConstantsAssumption DEF QueueInv
<1>2. m \in Nat /\ m <= N /\ source <= m + 1 /\ Batch = source..m
  BY <1>1 DEF Batch, Files
<1> HIDE DEF m
<1>3. Cardinality(source..m) = m - source + 1
  <2>1. Cardinality(source..m) = IF source > m THEN 0 ELSE m - source + 1
    BY <1>1, <1>2, FS_Interval
  <2> QED
    BY <1>1, <1>2, <2>1
<1>4. Cardinality(Batch) = m - source + 1
  BY <1>2, <1>3
<1>5. Batch = {} => source = N + 1
  BY <1>1 DEF Batch, Files
<1> QED
  BY <1>1, <1>2, <1>4, <1>5
-----------------------------------------------------------------------------
(* An answer about a file behind the last one becomes the last answer.     *)
LEMMA NewAnswer ==
  ASSUME NEW S \in SUBSET Nat, NEW f \in Nat, \A x \in S : x < f
  PROVE  Max(S \cup {f}) = f
<1>1. S \cup {f} \in SUBSET Nat /\ f \in S \cup {f} /\ \A x \in S \cup {f} : x <= f
  OBVIOUS
<1> QED
  BY <1>1, MaxOf

(* add_file takes the batch from the source and leaves the front alone.    *)
LEMMA AddFileQueue ==
  ASSUME QueueInv, opened \in SUBSET (1..(source - 1)), NEW bad, AddFile(bad)
  PROVE  /\ QueueInv'
         /\ First' = First
         /\ source <= source' /\ Len(open) <= Len(open')
         /\ \A k \in 1..Len(open) : open'[k] = open[k]
         /\ opened' \in SUBSET (1..(source' - 1))
<1> DEFINE c == Cardinality(Batch)
           L == Len(open)
           A == [k \in 1..c |-> Fetch(source + k - 1, (source + k - 1) \notin bad)]
           T == ToSet(open) \cup {A[k] : k \in 1..c}
<1>1. /\ c \in Nat /\ source + c \in 1..(N + 1)
      /\ Batch = source..(source + c - 1)
  BY BatchIs
<1>2. N \in Nat /\ source \in Nat \ {0} /\ source <= N + 1
  BY ConstantsAssumption DEF QueueInv
<1>3. open' = open \o A /\ source' = source + c /\ opened' = opened \cup (Batch \ bad)
  BY DEF AddFile
<1> HIDE DEF c
<1>4. A \in Seq(T) /\ Len(A) = c
  <2>1. A \in [1..c -> T]
    OBVIOUS
  <2>2. A \in Seq(T)
    BY <1>1, <2>1, SeqDef
  <2>3. DOMAIN A = 1..c /\ Len(A) \in Nat /\ DOMAIN A = 1..Len(A)
    BY <2>2, LenProperties
  <2> QED
    BY <1>1, <2>2, <2>3
<1>5. open \in Seq(T) /\ L \in Nat /\ L < source
  <2>1. open \in Seq(ToSet(open)) /\ L < source
    BY DEF QueueInv
  <2> QED
    BY <2>1, SeqMonotonic, LenProperties
<1>a. \A j \in 1..c : A[j] = Fetch(source + j - 1, (source + j - 1) \notin bad)
  OBVIOUS
<1> HIDE DEF A, T
<1>6. /\ open' \in Seq(T)
      /\ Len(open') = L + c
      /\ \A k \in 1..(L + c) : open'[k] = IF k <= L THEN open[k] ELSE A[k - L]
  BY <1>3, <1>4, <1>5, ConcatProperties
<1>7. open' \in Seq(ToSet(open'))
  BY <1>6, OwnElements
<1>8. First = source - L /\ First' = First
  BY <1>1, <1>2, <1>3, <1>5, <1>6 DEF First
<1>9. ASSUME NEW k \in 1..Len(open')
      PROVE  /\ {"file", "ok"} \subseteq DOMAIN open'[k]
             /\ open'[k].file = First + k - 1
             /\ open'[k].ok <=> First + k - 1 \in opened'
  <2>0. k \in 1..(L + c)
    BY <1>6
  <2>1. CASE k <= L
    <3>1. k \in 1..L
      BY <1>5, <1>1, <2>0, <2>1
    <3>4. open'[k] = open[k]
      BY <1>6, <2>0, <2>1
    <3>2. /\ {"file", "ok"} \subseteq DOMAIN open[k]
          /\ open[k].file = First + k - 1
          /\ open[k].ok <=> First + k - 1 \in opened
      BY <3>1 DEF QueueInv
    <3>3. First + k - 1 \notin Batch
      BY <1>1, <1>2, <1>5, <1>8, <3>1
    <3> QED
      BY <1>3, <3>4, <3>2, <3>3
  <2>2. CASE k > L
    <3> DEFINE f == source + (k - L) - 1
    <3>1. k - L \in 1..c
      BY <1>1, <1>5, <2>0, <2>2
    <3>2. open'[k] = Fetch(f, f \notin bad)
      BY <1>5, <1>6, <1>a, <2>0, <2>2, <3>1
    <3>3. f = First + k - 1 /\ f \in Batch /\ f \notin opened
      BY <1>1, <1>2, <1>5, <1>8, <2>0, <3>1
    <3> HIDE DEF f
    <3>4. open'[k].file = f /\ open'[k].ok = (f \notin bad) /\ {"file", "ok"} \subseteq DOMAIN open'[k]
      BY <3>2 DEF Fetch
    <3> QED
      BY <1>3, <3>3, <3>4
  <2> QED
    BY <1>1, <1>5, <2>0, <2>1, <2>2
<1>10. QueueInv'
  <2>1. source' \in 1..(N + 1) /\ Len(open') < source'
    BY <1>1, <1>2, <1>3, <1>5, <1>6
  <2> QED
    BY <1>7, <1>8, <1>9, <2>1 DEF QueueInv
<1>11. \A k \in 1..L : open'[k] = open[k]
  BY <1>1, <1>5, <1>6
<1>12. opened' \in SUBSET (1..(source' - 1))
  <2>1. source' \in Nat /\ source <= source' /\ Batch \subseteq 1..(source' - 1)
    BY <1>1, <1>2, <1>3
  <2>2. 1..(source - 1) \subseteq 1..(source' - 1)
    BY <1>2, <2>1, Before
  <2> QED
    BY <1>3, <2>1, <2>2
<1> QED
  BY <1>1, <1>2, <1>3, <1>5, <1>6, <1>8, <1>10, <1>11, <1>12

(* The file at the front is closed.                                        *)
LEMMA TailQueue ==
  ASSUME QueueInv, open # <<>>, open' = Tail(open), UNCHANGED <<source, opened>>
  PROVE  QueueInv' /\ First' = First + 1
<1>1. /\ open \in Seq(ToSet(open)) /\ source \in Nat /\ source \in 1..(N + 1)
      /\ Len(open) \in Nat \ {0} /\ Len(open) < source
  BY EmptySeq, ConstantsAssumption DEF QueueInv
<1>2. /\ open' \in Seq(ToSet(open))
      /\ Len(open') = Len(open) - 1
      /\ \A k \in 1..Len(open') : open'[k] = open[k + 1]
  BY <1>1, HeadTailProperties
<1>3. open' \in Seq(ToSet(open'))
  BY <1>2, OwnElements
<1>4. First' = First + 1 /\ First = source - Len(open)
  BY <1>1, <1>2 DEF First
<1>5. ASSUME NEW k \in 1..Len(open')
      PROVE  /\ {"file", "ok"} \subseteq DOMAIN open'[k]
             /\ open'[k].file = First' + k - 1
             /\ open'[k].ok <=> First' + k - 1 \in opened
  <2>1. k \in Nat /\ k + 1 \in 1..Len(open) /\ First' + k - 1 = First + (k + 1) - 1
    BY <1>1, <1>2, <1>4
  <2> QED
    BY <1>2, <2>1 DEF QueueInv
<1> QED
  BY <1>1, <1>2, <1>3, <1>4, <1>5 DEF QueueInv

(* A position of one of the files moves.                                   *)
LEMMA MovedQueue ==
  ASSUME QueueInv, UNCHANGED <<source, opened>>, NEW n, NEW e, open' = [open EXCEPT ![n] = e],
         n \in 1..Len(open) =>
           {"file", "ok"} \subseteq DOMAIN e /\ e.file = open[n].file /\ e.ok = open[n].ok
  PROVE  /\ QueueInv' /\ First' = First /\ Len(open') = Len(open)
         /\ Len(open) > 0 => (open'[1].ok <=> open[1].ok)
<1> DEFINE T == ToSet(open) \cup {e}
<1>1. /\ open \in Seq(ToSet(open)) /\ source \in Nat /\ source \in 1..(N + 1)
      /\ Len(open) < source
  BY ConstantsAssumption DEF QueueInv
<1>2. /\ Len(open) \in Nat /\ DOMAIN open = 1..Len(open)
      /\ open \in [1..Len(open) -> T]
  BY <1>1, LenProperties
<1>3. open' \in [1..Len(open) -> T]
  BY <1>2
<1>4. open' \in Seq(T)
  BY <1>2, <1>3, SeqDef
<1>5. Len(open') \in Nat /\ DOMAIN open' = 1..Len(open') /\ DOMAIN open' = 1..Len(open)
  BY <1>3, <1>4, LenProperties
<1>6. Len(open') = Len(open)
  BY <1>2, <1>5
<1>7. open' \in Seq(ToSet(open'))
  BY <1>4, OwnElements
<1> HIDE DEF T
<1>8. First' = First
  BY <1>6 DEF First
<1>9. ASSUME NEW k \in 1..Len(open)
      PROVE  /\ {"file", "ok"} \subseteq DOMAIN open'[k]
             /\ open'[k].file = First + k - 1
             /\ open'[k].ok <=> First + k - 1 \in opened
             /\ open'[k].ok <=> open[k].ok
  <2>1. /\ {"file", "ok"} \subseteq DOMAIN open[k]
        /\ open[k].file = First + k - 1
        /\ open[k].ok <=> First + k - 1 \in opened
    BY DEF QueueInv
  <2>2. open'[k] = IF k = n THEN e ELSE open[k]
    BY <1>2
  <2> QED
    BY <2>1, <2>2
<1>10. QueueInv'
  BY <1>1, <1>6, <1>7, <1>8, <1>9 DEF QueueInv
<1> QED
  BY <1>2, <1>6, <1>8, <1>9, <1>10

(* Nothing is answered: the last answer stays the last one.                *)
LEMMA NoAnswer ==
  ASSUME AnswersInv, UNCHANGED <<given, reported>>, source \in Nat, source' \in Nat,
         source <= source', opened' \in SUBSET (1..(source' - 1))
  PROVE  /\ AnswersInv'
         /\ Queue!LastAnswer' = Queue!LastAnswer
         /\ Queue!Due' = Queue!Due
<1>1. Queue!LastAnswer' = Queue!LastAnswer
  BY DEF Queue!LastAnswer
<1>2. Queue!Due' = Queue!Due
  BY <1>1 DEF Queue!Due
<1>3. 1..(source - 1) \subseteq 1..(source' - 1)
  BY Before
<1>4. given \in Seq(1..(source' - 1))
  BY <1>3, SeqMonotonic DEF AnswersInv
<1>5. reported \in SUBSET (1..(source' - 1))
  BY <1>3 DEF AnswersInv
<1>6. /\ Queue!LastAnswer \in {0} \cup ToSet(given) \cup reported
      /\ \A f \in {0} \cup ToSet(given) \cup reported : f <= Queue!LastAnswer
  BY DEF AnswersInv
<1> QED
  BY <1>1, <1>2, <1>4, <1>5, <1>6 DEF AnswersInv

(* The last answer is about a file behind the front, or about the front.   *)
LEMMA AnswerType ==
  ASSUME QueueInv, AnswersInv
  PROVE  /\ Queue!LastAnswer \in Nat /\ Queue!LastAnswer < source
         /\ source \in Nat /\ Len(open) \in Nat /\ First \in Nat \ {0} /\ First <= source
         /\ ToSet(given) \subseteq 1..(source - 1)
         /\ First = source <=> Len(open) = 0
         /\ Len(open) = 0 <=> open = <<>>
<1>1. source \in Nat \ {0} /\ open \in Seq(ToSet(open)) /\ Len(open) < source
  BY ConstantsAssumption DEF QueueInv
<1>2. Len(open) \in Nat /\ (Len(open) = 0 <=> open = <<>>)
  BY <1>1, LenProperties, EmptySeq
<1>3. ToSet(given) \subseteq 1..(source - 1)
  BY OwnElements DEF AnswersInv
<1>4. Queue!LastAnswer \in Nat /\ Queue!LastAnswer < source
  BY <1>1, <1>3 DEF AnswersInv
<1> QED
  BY <1>1, <1>2, <1>3, <1>4 DEF First

(* The rounds of advance() change neither the front nor the answers.       *)
LEMMA Inside ==
  ASSUME IInv, UNCHANGED <<caller, result, given, reported>>,
         pc \in {"advance", "loop"}, pc' \in {"loop", AfterAdvance},
         QueueInv', First' = First, source <= source', Len(open) <= Len(open'),
         Len(open) > 0 => (open'[1].ok <=> open[1].ok),
         opened' \in SUBSET (1..(source' - 1))
  PROVE  IInv'
<1>1. /\ source \in Nat /\ Len(open) \in Nat
      /\ source' \in Nat /\ Len(open') \in Nat
  <2>1. source \in Nat /\ Len(open) \in Nat
    BY AnswerType DEF IInv
  <2>2. source' \in Nat /\ open' \in Seq(ToSet(open'))
    BY ConstantsAssumption DEF QueueInv
  <2> QED
    BY <2>1, <2>2, LenProperties
<1>2. /\ AnswersInv'
      /\ Queue!LastAnswer' = Queue!LastAnswer
      /\ Queue!Due' = Queue!Due
  BY <1>1, NoAnswer DEF IInv
<1>3. CallInv'
  BY DEF IInv, CallInv, AfterAdvance
<1>4. FrontInv'
  BY <1>1, <1>2 DEF IInv, CallInv, FrontInv, AfterAdvance
<1> QED
  BY <1>2, <1>3, <1>4 DEF IInv

-----------------------------------------------------------------------------
(* Init satisfies the inductive invariant.                                 *)
LEMMA InitIInv == Init => IInv
<1> SUFFICES ASSUME Init PROVE IInv
  OBVIOUS
<1>1. /\ open = <<>> /\ source = 1 /\ given = <<>> /\ reported = {} /\ opened = {}
      /\ pc = "idle" /\ caller = "next" /\ result = "start" /\ N \in Nat
  BY ConstantsAssumption DEF Init
<1>2. \A S : <<>> \in Seq(S) /\ Len(<<>>) = 0
  BY EmptySeq
<1>3. ToSet(given) = {}
  <2>1. given \in Seq({})
    BY <1>1, <1>2
  <2> QED
    BY <2>1, OwnElements
<1>4. QueueInv
  BY <1>1, <1>2 DEF QueueInv
<1>5. Queue!LastAnswer = 0
  <2>1. Max({0}) = 0
    BY MaxOf
  <2>2. {0} \cup ToSet(given) \cup reported = {0}
    BY <1>1, <1>3
  <2> QED
    BY <2>1, <2>2, LastAnswerIs
<1>6. AnswersInv
  BY <1>1, <1>2, <1>3, <1>5 DEF AnswersInv
<1>7. FrontInv /\ CallInv
  BY <1>1, <1>2, <1>5 DEF FrontInv, CallInv, First
<1> QED
  BY <1>4, <1>6, <1>7 DEF IInv

(* The next file is due when next() is called.                             *)
LEMMA CallNextIInv ==
  ASSUME IInv, NEW b, CallNext(b)
  PROVE  IInv'
<1>1. /\ pc = "idle" /\ result \in {"start", "ok", "err"}
      /\ pc' = "advance" /\ caller' = "next"
      /\ UNCHANGED <<source, result, given, reported, opened>>
  BY DEF CallNext, IInv, CallInv
<1>2. /\ Queue!LastAnswer \in Nat /\ source \in Nat /\ Len(open) \in Nat
      /\ First \in Nat \ {0} /\ (First = source <=> Len(open) = 0)
      /\ (Len(open) = 0 <=> open = <<>>)
  BY AnswerType DEF IInv
<1>3. QueueInv' /\ First' = IF open = <<>> THEN First ELSE First + 1
  <2>1. CASE open = <<>>
    <3>1. open' = open
      BY <2>1 DEF CallNext
    <3> QED
      BY <1>1, <2>1, <3>1 DEF IInv, QueueInv, First
  <2>2. CASE open # <<>>
    <3>1. open' = Tail(open)
      BY <2>2 DEF CallNext
    <3> QED
      BY <1>1, <2>2, <3>1, TailQueue DEF IInv
  <2> QED
    BY <2>1, <2>2
<1>4. /\ AnswersInv'
      /\ Queue!LastAnswer' = Queue!LastAnswer
      /\ Queue!Due' = Queue!Due
  <2>1. opened' \in SUBSET (1..(source' - 1))
    BY <1>1 DEF IInv, AnswersInv
  <2> QED
    BY <1>1, <1>2, <2>1, NoAnswer DEF IInv
<1>5. First' \in Queue!Due
  BY <1>1, <1>2, <1>3 DEF IInv, FrontInv, Queue!Due
<1>6. FrontInv' /\ CallInv'
  BY <1>1, <1>4, <1>5 DEF FrontInv, CallInv
<1> QED
  BY <1>3, <1>4, <1>6 DEF IInv

(* The file at the front is the one that is read.                          *)
LEMMA ReadIInv ==
  ASSUME IInv, NEW n, Read(n)
  PROVE  IInv'
<1>1. /\ pc = "idle" /\ result = "ok" /\ pc' = "advance" /\ caller' = "read"
      /\ UNCHANGED <<source, result, given, reported, opened>>
  BY DEF Read
<1>2. /\ Queue!LastAnswer \in Nat /\ source \in Nat /\ Len(open) \in Nat
  BY AnswerType DEF IInv
<1>3. /\ QueueInv' /\ First' = First /\ Len(open') = Len(open)
      /\ Len(open) > 0 => (open'[1].ok <=> open[1].ok)
  <2> DEFINE e == [open[1] EXCEPT !.read_pos = @ + n]
  <2>1. open' = [open EXCEPT ![1] = e]
    BY DEF Read
  <2>2. 1 \in 1..Len(open) =>
           {"file", "ok"} \subseteq DOMAIN e /\ e.file = open[1].file /\ e.ok = open[1].ok
    BY DEF IInv, QueueInv
  <2> HIDE DEF e
  <2> QED
    BY <1>1, <2>1, <2>2, MovedQueue DEF IInv
<1>4. /\ AnswersInv'
      /\ Queue!LastAnswer' = Queue!LastAnswer
  <2>1. opened' \in SUBSET (1..(source' - 1))
    BY <1>1 DEF IInv, AnswersInv
  <2> QED
    BY <1>1, <1>2, <2>1, NoAnswer DEF IInv
<1>5. FrontInv' /\ CallInv'
  BY <1>1, <1>2, <1>3, <1>4 DEF IInv, FrontInv, CallInv
<1> QED
  BY <1>3, <1>4, <1>5 DEF IInv

(* The rounds of advance().                                                *)
LEMMA AdvanceIInv ==
  ASSUME IInv,
         Advance \/ LoopSpent \/ LoopFull \/ LoopContinue \/ LoopPrefetch
           \/ \E bad \in SUBSET Files : LoopAdd(bad)
  PROVE  IInv'
<1>1. CASE Advance \/ LoopSpent \/ LoopFull \/ LoopContinue
  <2>1. /\ pc \in {"advance", "loop"} /\ pc' \in {"loop", AfterAdvance}
        /\ UNCHANGED <<caller, result, given, reported, source, open, opened>>
    BY <1>1 DEF Advance, LoopSpent, LoopFull, LoopContinue, AtFile
  <2>2. QueueInv' /\ First' = First /\ opened' \in SUBSET (1..(source' - 1))
    BY <2>1 DEF IInv, QueueInv, First, AnswersInv
  <2>3. source <= source' /\ Len(open) <= Len(open')
    BY <2>1, AnswerType DEF IInv
  <2> QED
    BY <2>1, <2>2, <2>3, Inside
<1>2. CASE LoopPrefetch
  <2> DEFINE e == [open[i] EXCEPT !.prefetch_pos = NewPos]
  <2>1. /\ pc \in {"advance", "loop"} /\ pc' \in {"loop", AfterAdvance}
        /\ UNCHANGED <<caller, result, given, reported, source, opened>>
        /\ open' = [open EXCEPT ![i] = e]
    BY <1>2 DEF LoopPrefetch, AtFile
  <2>2. i \in 1..Len(open) =>
           {"file", "ok"} \subseteq DOMAIN e /\ e.file = open[i].file /\ e.ok = open[i].ok
    BY DEF IInv, QueueInv
  <2> HIDE DEF e
  <2>3. /\ QueueInv' /\ First' = First /\ Len(open') = Len(open)
        /\ Len(open) > 0 => (open'[1].ok <=> open[1].ok)
    BY <2>1, <2>2, MovedQueue DEF IInv
  <2>4. opened' \in SUBSET (1..(source' - 1))
    BY <2>1 DEF IInv, AnswersInv
  <2>5. source <= source' /\ Len(open) <= Len(open')
    BY <2>1, <2>3, AnswerType DEF IInv
  <2> QED
    BY <2>1, <2>3, <2>4, <2>5, Inside
<1>3. ASSUME NEW bad \in SUBSET Files, LoopAdd(bad) PROVE IInv'
  <2>1. /\ pc \in {"advance", "loop"} /\ pc' \in {"loop", AfterAdvance}
        /\ UNCHANGED <<caller, result, given, reported>>
        /\ AddFile(bad)
    BY <1>3 DEF LoopAdd
  <2>2. /\ QueueInv' /\ First' = First
        /\ source <= source' /\ Len(open) <= Len(open')
        /\ \A k \in 1..Len(open) : open'[k] = open[k]
        /\ opened' \in SUBSET (1..(source' - 1))
    BY <2>1, AddFileQueue DEF IInv, AnswersInv
  <2>3. Len(open) > 0 => open'[1] = open[1]
    BY <2>2, AnswerType DEF IInv
  <2> QED
    BY <2>1, <2>2, <2>3, Inside
<1> QED
  BY <1>1, <1>2, <1>3

(* An error about the front, or the front itself, is the last answer.      *)
LEMMA Answered ==
  ASSUME IInv, pc = "front", open # <<>>, UNCHANGED <<source, opened>>,
         \/ given' = Append(given, First) /\ reported' = reported
         \/ given' = given /\ reported' = reported \cup {First}
  PROVE  AnswersInv' /\ Queue!LastAnswer' = First
<1> DEFINE S == {0} \cup ToSet(given) \cup reported
<1>1. /\ Queue!LastAnswer \in Nat /\ source \in Nat
      /\ First \in Nat \ {0} /\ First <= source /\ First # source
      /\ ToSet(given) \subseteq 1..(source - 1)
  BY AnswerType DEF IInv
<1>2. Queue!LastAnswer < First
  BY <1>1 DEF IInv, FrontInv, CallInv, Queue!Due
<1>3. S \in SUBSET Nat /\ \A f \in S : f < First
  <2>1. S \in SUBSET Nat
    <3>1. reported \subseteq 1..(source - 1)
      BY DEF IInv, AnswersInv
    <3>2. 1..(source - 1) \subseteq Nat
      BY <1>1
    <3>3. ToSet(given) \subseteq Nat /\ reported \subseteq Nat
      BY <1>1, <3>1, <3>2
    <3>4. \A f \in S : f \in Nat
      BY <3>3
    <3> HIDE DEF S
    <3> QED
      BY <3>4
  <2>2. \A f \in S : f <= Queue!LastAnswer
    BY DEF IInv, AnswersInv
  <2> HIDE DEF S
  <2> QED
    BY <1>1, <1>2, <2>1, <2>2
<1>4. /\ given' \in Seq(1..(source - 1))
      /\ {0} \cup ToSet(given') \cup reported' = S \cup {First}
  <2>1. given \in Seq(1..(source - 1)) /\ First \in 1..(source - 1)
    BY <1>1 DEF IInv, AnswersInv
  <2>2. CASE given' = given /\ reported' = reported \cup {First}
    BY <2>1, <2>2
  <2>3. CASE given' = Append(given, First) /\ reported' = reported
    <3>1. /\ given' \in Seq(1..(source - 1)) /\ Len(given') = Len(given) + 1
          /\ \A k \in 1..Len(given) : given'[k] = given[k]
          /\ given'[Len(given) + 1] = First
      BY <2>1, <2>3, AppendProperties
    <3>2. Len(given) \in Nat
      BY <2>1, LenProperties
    <3>3. /\ ToSet(given') = {given'[k] : k \in 1..Len(given')}
          /\ ToSet(given) = {given[k] : k \in 1..Len(given)}
      <4>1. ToSet(given') = {given'[k] : k \in 1..Len(given')}
        BY <3>1, OwnElements
      <4>2. ToSet(given) = {given[k] : k \in 1..Len(given)}
        BY <2>1, OwnElements
      <4> QED
        BY <4>1, <4>2
    <3>4. 1..Len(given') = 1..Len(given) \cup {Len(given) + 1}
      BY <3>1, <3>2
    <3>5. ToSet(given') = ToSet(given) \cup {First}
      BY <3>1, <3>3, <3>4
    <3> QED
      BY <2>3, <3>1, <3>5
  <2> QED
    BY <2>2, <2>3
<1> HIDE DEF S
<1>5. Queue!LastAnswer' = First
  BY <1>1, <1>3, <1>4, NewAnswer, LastAnswerIs
<1>6. reported' \in SUBSET (1..(source - 1))
  <2>1. reported \in SUBSET (1..(source - 1)) /\ First \in 1..(source - 1)
    BY <1>1 DEF IInv, AnswersInv
  <2> QED
    BY <2>1
<1>7. \A f \in S \cup {First} : f <= First
  BY <1>1, <1>3
<1>8. opened' \in SUBSET (1..(source' - 1))
  BY DEF IInv, AnswersInv
<1>9. AnswersInv'
  BY <1>4, <1>5, <1>6, <1>7, <1>8 DEF AnswersInv
<1> QED
  BY <1>5, <1>9

(* The rest of next().                                                     *)
LEMMA FrontIInv ==
  ASSUME IInv, FrontErr \/ FrontOk \/ \E bad \in SUBSET Files : FrontAdd(bad)
  PROVE  IInv'
<1>1. /\ Queue!LastAnswer \in Nat /\ source \in Nat /\ Len(open) \in Nat
      /\ First \in Nat \ {0} /\ (Len(open) = 0 <=> open = <<>>)
      /\ pc = "front" /\ caller = "next" /\ First \in Queue!Due
  BY AnswerType DEF IInv, FrontInv, CallInv, FrontErr, FrontOk, FrontAdd
<1>2. CASE FrontErr
  <2>1. open[1].file = First
    BY <1>1, <1>2 DEF FrontErr, IInv, QueueInv
  <2>2. /\ open # <<>> /\ open' = Tail(open) /\ pc' = "idle" /\ result' = "err"
        /\ reported' = reported \cup {First}
        /\ UNCHANGED <<source, caller, given, opened>>
    BY <1>2, <2>1 DEF FrontErr
  <2>3. QueueInv' /\ First' = First + 1
    BY <2>2, TailQueue DEF IInv
  <2>4. AnswersInv' /\ Queue!LastAnswer' = First
    BY <1>1, <2>2, Answered
  <2>5. FrontInv' /\ CallInv'
    BY <1>1, <2>2, <2>3, <2>4 DEF FrontInv, CallInv
  <2> QED
    BY <2>3, <2>4, <2>5 DEF IInv
<1>3. CASE FrontOk
  <2>1. open[1].file = First
    BY <1>1, <1>3 DEF FrontOk, IInv, QueueInv
  <2>2. /\ open # <<>> /\ open[1].ok /\ pc' = "idle" /\ result' = "ok"
        /\ given' = Append(given, First)
        /\ UNCHANGED <<source, open, caller, reported, opened>>
    BY <1>3, <2>1 DEF FrontOk
  <2>3. QueueInv' /\ First' = First
    BY <2>2 DEF IInv, QueueInv, First
  <2>4. AnswersInv' /\ Queue!LastAnswer' = First
    BY <1>1, <2>2, Answered
  <2>5. Len(given') > 0 /\ given'[Len(given')] = First
    <3>1. given \in Seq(Nat)
      <4>1. given \in Seq(1..(source - 1)) /\ 1..(source - 1) \subseteq Nat
        BY <1>1 DEF IInv, AnswersInv
      <4> QED
        BY <4>1, SeqMonotonic
    <3>2. Len(given) \in Nat
      BY <3>1, LenProperties
    <3> QED
      BY <1>1, <2>2, <3>1, <3>2, AppendProperties
  <2>6. FrontInv' /\ CallInv'
    BY <1>1, <2>2, <2>3, <2>4, <2>5 DEF FrontInv, CallInv
  <2> QED
    BY <2>3, <2>4, <2>6 DEF IInv
<1>4. ASSUME NEW bad \in SUBSET Files, FrontAdd(bad) PROVE IInv'
  <2>1. /\ AddFile(bad) /\ UNCHANGED <<caller, given, reported>>
        /\ \/ pc' = "front" /\ result' = result
           \/ pc' = "idle" /\ result' = "none"
    BY <1>4 DEF FrontAdd
  <2>2. /\ QueueInv' /\ First' = First
        /\ source <= source'
        /\ opened' \in SUBSET (1..(source' - 1))
    BY <2>1, AddFileQueue DEF IInv, AnswersInv
  <2>3. source' \in Nat
    BY <2>2, ConstantsAssumption DEF QueueInv
  <2>4. /\ AnswersInv'
        /\ Queue!LastAnswer' = Queue!LastAnswer
        /\ Queue!Due' = Queue!Due
    BY <1>1, <2>1, <2>2, <2>3, NoAnswer DEF IInv
  <2>5. FrontInv' /\ CallInv'
    BY <1>1, <2>1, <2>2, <2>4 DEF IInv, FrontInv, CallInv
  <2> QED
    BY <2>2, <2>4, <2>5 DEF IInv
<1> QED
  BY <1>2, <1>3, <1>4

(* Every step preserves the inductive invariant.                           *)
LEMMA NextIInv == IInv /\ [Next]_vars => IInv'
<1> SUFFICES ASSUME IInv, [Next]_vars PROVE IInv'
  OBVIOUS
<1>1. CASE UNCHANGED vars
  BY <1>1 DEF vars, IInv, QueueInv, AnswersInv, FrontInv, CallInv, First,
              Queue!LastAnswer, Queue!Due
<1>2. CASE Next
  BY <1>1, <1>2, CallNextIInv, ReadIInv, AdvanceIInv, FrontIInv DEF Next, Internal, Done
<1> QED
  BY <1>1, <1>2

(* Every reachable state satisfies the inductive invariant.                *)
THEOREM Invariance == Spec => []IInv
BY InitIInv, NextIInv, PTL DEF Spec

(* While a file is being read it stays at the front of the queue, whatever *)
(* advance() opens and prefetches behind it.                               *)
THEOREM ReaderValid == Spec => []ReaderStaysValid
<1>1. IInv => ReaderStaysValid
  <2> SUFFICES ASSUME IInv, result = "ok", pc = "idle" \/ caller = "read"
               PROVE  open # <<>> /\ open[1].ok /\ open[1].file = Last(given)
    BY DEF ReaderStaysValid
  <2>1. /\ Len(open) > 0 /\ open[1].ok
        /\ First = Queue!LastAnswer
        /\ given[Len(given)] = Queue!LastAnswer
    BY DEF IInv, FrontInv
  <2>2. Len(open) \in Nat /\ First \in Nat /\ open # <<>>
    BY <2>1, AnswerType DEF IInv
  <2>3. open[1].file = First
    BY <2>1, <2>2 DEF IInv, QueueInv
  <2> QED
    BY <2>1, <2>2, <2>3 DEF Last
<1> QED
  BY <1>1, Invariance, PTL

-----------------------------------------------------------------------------
(* add_file finds files to be broken before they are due.                  *)
LEMMA AddFileBreaks ==
  ASSUME IInv, NEW bad, AddFile(bad)
  PROVE  /\ Queue!Break
         /\ Batch \cap bad \subseteq (1..(source' - 1)) \ opened'
<1> DEFINE broken == (1..(source - 1)) \ opened
           later == (1..(source' - 1)) \ opened'
<1>1. /\ Cardinality(Batch) \in Nat /\ source + Cardinality(Batch) \in 1..(N + 1)
      /\ Batch = source..(source + Cardinality(Batch) - 1)
  BY BatchIs DEF IInv
<1>2. /\ N \in Nat /\ source \in Nat \ {0}
      /\ Queue!LastAnswer \in Nat /\ Queue!LastAnswer < source
  BY AnswerType, ConstantsAssumption DEF IInv, QueueInv
<1>3. source' = source + Cardinality(Batch) /\ opened' = opened \cup (Batch \ bad)
  BY DEF AddFile
<1>4. opened \in SUBSET (1..(source - 1))
  BY DEF IInv, AnswersInv
<1>5. 1..(source' - 1) = 1..(source - 1) \cup Batch /\ Batch \cap 1..(source - 1) = {}
  BY <1>1, <1>2, <1>3
<1>6. later = broken \cup (Batch \cap bad)
  BY <1>3, <1>4, <1>5
<1>7. Batch \subseteq (Queue!LastAnswer + 1)..N
  BY <1>1, <1>2
<1>8. broken \subseteq later /\ later \ broken \subseteq (Queue!LastAnswer + 1)..N
  BY <1>6, <1>7
<1> QED
  BY <1>6, <1>8 DEF Queue!Break

(* Every step is one of ReadQueue or changes nothing of it: the end is     *)
(* announced where no file can be added, a call of add_file finds broken   *)
(* files, the other steps of advance() cannot be seen.                     *)
LEMMA StepRefines == IInv /\ [Next]_vars => [Queue!Next]_Queue!vars
<1> SUFFICES ASSUME IInv, [Next]_vars PROVE [Queue!Next]_Queue!vars
  OBVIOUS
<1>1. ASSUME UNCHANGED <<given, reported, source, opened, result>>
      PROVE  UNCHANGED Queue!vars
  BY <1>1 DEF Queue!vars
<1>2. CASE \/ UNCHANGED vars
           \/ \E b \in Budgets : CallNext(b)
           \/ \E n \in 0..MaxRead : Read(n)
           \/ Advance \/ LoopSpent \/ LoopFull \/ LoopContinue \/ LoopPrefetch
  BY <1>1, <1>2 DEF vars, CallNext, Read, Advance, LoopSpent, LoopFull, LoopContinue,
                    LoopPrefetch
<1>3. ASSUME NEW bad \in SUBSET Files, LoopAdd(bad) PROVE Queue!Find
  <2>1. AddFile(bad) /\ pc = "loop" /\ UNCHANGED <<given, reported, result>>
    BY <1>3 DEF LoopAdd
  <2>2. result # "none"
    BY <2>1 DEF IInv, CallInv
  <2> QED
    BY <2>1, <2>2, AddFileBreaks DEF Queue!Find
<1>4. ASSUME NEW bad \in SUBSET Files, FrontAdd(bad) PROVE Queue!Find \/ Queue!End
  <2>1. /\ AddFile(bad) /\ pc = "front" /\ open = <<>> /\ UNCHANGED <<given, reported>>
        /\ IF Batch \ bad # {} THEN result' = result ELSE result' = "none"
    BY <1>4 DEF FrontAdd, Added
  <2>2. result # "none" /\ First \in Queue!Due /\ First = source
    BY <2>1, AnswerType DEF IInv, CallInv, FrontInv
  <2>3. Queue!Break /\ Batch \cap bad \subseteq (1..(source' - 1)) \ opened'
    BY <2>1, AddFileBreaks
  <2>4. CASE Batch \ bad # {}
    BY <2>1, <2>2, <2>3, <2>4 DEF Queue!Find
  <2>5. CASE Batch \ bad = {}
    <3>1. source = N + 1 \/ source \in Batch
      <4>1. source \in Nat \ {0} /\ Cardinality(Batch) \in Nat
        BY BatchIs, ConstantsAssumption DEF IInv, QueueInv
      <4>2. /\ Batch = {} => source = N + 1
            /\ Batch = source..(source + Cardinality(Batch) - 1)
        BY BatchIs DEF IInv
      <4> QED
        BY <4>1, <4>2
    <3>2. source = N + 1 \/ source \in (1..(source' - 1)) \ opened'
      BY <2>3, <2>5, <3>1
    <3> QED
      BY <2>1, <2>2, <2>3, <2>5, <3>2 DEF Queue!End
  <2> QED
    BY <2>4, <2>5
<1>5. CASE FrontErr
  <2>1. /\ pc = "front" /\ open # <<>> /\ ~open[1].ok /\ result' = "err"
        /\ reported' = reported \cup {open[1].file}
        /\ UNCHANGED <<source, given, opened>>
    BY <1>5 DEF FrontErr
  <2>2. First \in Queue!Due /\ result # "none"
    BY <2>1 DEF IInv, CallInv, FrontInv
  <2>3. open[1].file = First /\ First \in (1..(source - 1)) \ opened
    <3>1. Len(open) \in Nat \ {0} /\ First \in 1..(source - 1) /\ First + 1 - 1 = First
      BY <2>1, AnswerType DEF IInv
    <3> QED
      BY <2>1, <3>1 DEF IInv, QueueInv
  <2>4. Queue!Report
    BY <2>1, <2>2, <2>3 DEF Queue!Report
  <2> QED
    BY <2>4 DEF Queue!Next
<1>6. CASE FrontOk
  <2>1. /\ pc = "front" /\ open # <<>> /\ open[1].ok /\ result' = "ok"
        /\ given' = Append(given, open[1].file)
        /\ UNCHANGED <<source, reported, opened>>
    BY <1>6 DEF FrontOk
  <2>2. First \in Queue!Due /\ result # "none"
    BY <2>1 DEF IInv, CallInv, FrontInv
  <2>3. open[1].file = First /\ First \in 1..N /\ First \in opened
    <3>1. /\ Len(open) \in Nat \ {0} /\ First \in 1..(source - 1) /\ First + 1 - 1 = First
          /\ source \in Nat
      BY <2>1, AnswerType DEF IInv
    <3>2. First \in 1..N
      BY <3>1, ConstantsAssumption DEF IInv, QueueInv
    <3> QED
      BY <2>1, <3>1, <3>2 DEF IInv, QueueInv
  <2>4. Queue!Give
    BY <2>1, <2>2, <2>3 DEF Queue!Give
  <2> QED
    BY <2>4 DEF Queue!Next
<1> QED
  BY <1>2, <1>3, <1>4, <1>5, <1>6 DEF Next, Internal, Done, Queue!Next

(* The readahead implements the queue it promises: files are handed out in *)
(* the order of the source and never twice, and a file that could be       *)
(* opened is passed over only behind an error.                             *)
THEOREM Refinement == Spec => IsQueue
<1>1. Init => Queue!Init
  <2>1. \A S : 1..(1 - 1) \ S = {}
    OBVIOUS
  <2> QED
    BY <2>1 DEF Init, Queue!Init
<1> QED
  BY <1>1, StepRefines, Invariance, PTL DEF Spec, IsQueue, Queue!Spec

-----------------------------------------------------------------------------
(* Numbers are rounded to whole blocks.                                    *)
LEMMA Rounding ==
  ASSUME NEW x \in Nat
  PROVE  /\ RoundDown(x) \in Nat /\ RoundDown(x) <= x
         /\ RoundUp(x) \in Nat /\ x <= RoundUp(x) /\ RoundUp(x) < x + Block
<1>1. Block \in Nat /\ Block > 0
  BY ConstantsAssumption
<1>2. \A y \in Nat : /\ y \div Block \in Nat /\ y % Block \in 0..(Block - 1)
                     /\ y = Block * (y \div Block) + (y % Block)
  BY <1>1
<1>3. \A y \in Nat : (y \div Block) * Block \in Nat /\ (y \div Block) * Block = y - (y % Block)
  BY <1>1, <1>2
<1>4. RoundDown(x) = x - (x % Block) /\ RoundDown(x) \in Nat
  BY <1>3 DEF RoundDown
<1> DEFINE y == x + Block - 1
<1>5. y \in Nat /\ RoundUp(x) = (y \div Block) * Block
  BY <1>1 DEF RoundUp
<1> HIDE DEF y
<1>6. RoundUp(x) = y - (y % Block) /\ RoundUp(x) \in Nat
  BY <1>3, <1>5
<1>7. x % Block \in 0..(Block - 1) /\ y % Block \in 0..(Block - 1)
  BY <1>2, <1>5
<1> QED
  BY <1>1, <1>4, <1>5, <1>6, <1>7 DEF y

(* How far a file is prefetched: at least to where it was, and less than a *)
(* block further than the budget allows.                                   *)
LEMMA NewPosIs ==
  ASSUME open \in Seq(OpenFile), i \in 1..Len(open), left \in Nat, WantsPrefetch
  PROVE  /\ OldPos \in Nat /\ NewPos \in Nat /\ OldPos <= NewPos
         /\ NewPos < OldPos + left + Block
<1>1. open[i] \in OpenFile
  BY ElementOfSeq
<1>2. /\ OldPos \in Nat /\ Length[open[i].file] \in Nat /\ OldPos < Length[open[i].file]
      /\ Block \in Nat
  BY <1>1, ConstantsAssumption DEF OldPos, OpenFile, WantsPrefetch
<1> DEFINE length == Length[open[i].file]
           m == Minimum(length - OldPos, RoundDown(left))
<1>3. RoundDown(left) \in Nat /\ RoundDown(left) <= left
  BY Rounding
<1>4. m \in Nat /\ m <= left
  BY <1>2, <1>3 DEF Minimum
<1> HIDE DEF m
<1>5. /\ RoundUp(OldPos + m) \in Nat /\ OldPos + m <= RoundUp(OldPos + m)
      /\ RoundUp(OldPos + m) < OldPos + m + Block
  <2>1. OldPos + m \in Nat
    BY <1>2, <1>4
  <2> HIDE DEF OldPos
  <2> QED
    BY <2>1, Rounding
<1>6. NewPos = Minimum(length, RoundUp(OldPos + m))
  BY DEF NewPos, m
<1>7. NewPos \in {length, RoundUp(OldPos + m)} /\ NewPos <= RoundUp(OldPos + m)
  BY <1>2, <1>5, <1>6 DEF Minimum
<1> QED
  BY <1>2, <1>4, <1>5, <1>7

-----------------------------------------------------------------------------
(* What is prefetched and not read of an open file is finite.              *)
LEMMA AheadFinite ==
  ASSUME open \in Seq(OpenFile)
  PROVE  IsFiniteSet(AheadBytes) /\ Consumed \in Nat
<1>1. Len(open) \in Nat /\ DOMAIN open = 1..Len(open)
  BY LenProperties
<1> DEFINE g == [k \in DOMAIN open |-> {open[k].file} \X Ahead(open[k])]
           S == {{open[k].file} \X Ahead(open[k]) : k \in DOMAIN open}
<1>2. g \in Surjection(DOMAIN open, S)
  BY DEF Surjection
<1>3. IsFiniteSet(DOMAIN open)
  BY <1>1, FS_Interval
<1>4. IsFiniteSet(S)
  BY <1>2, <1>3, FS_Surjection
<1>5. ASSUME NEW k \in DOMAIN open PROVE IsFiniteSet({open[k].file} \X Ahead(open[k]))
  <2>1. open[k] \in OpenFile
    BY <1>1, ElementOfSeq
  <2>2. IsFiniteSet(Ahead(open[k]))
    <3>1. open[k].read_pos + 1 \in Int /\ open[k].prefetch_pos \in Int
      BY <2>1 DEF OpenFile
    <3> QED
      BY <3>1, FS_Interval, FS_EmptySet DEF Ahead
  <2>3. IsFiniteSet({open[k].file})
    BY FS_Singleton
  <2> QED
    BY <2>2, <2>3, FS_Product
<1>6. IsFiniteSet(UNION S)
  <2>1. \A T \in S : IsFiniteSet(T)
    BY <1>5
  <2> HIDE DEF S
  <2> QED
    BY <1>4, <2>1, FS_UNION
<1>7. IsFiniteSet(AheadBytes)
  BY <1>6 DEF AheadBytes
<1> QED
  BY <1>7, FS_CardinalityType DEF Consumed

(* A step that prefetches nothing.                                         *)
LEMMA FewerAhead ==
  ASSUME open \in Seq(OpenFile), AheadBytes' \subseteq AheadBytes
  PROVE  Consumed' <= Consumed /\ Consumed' \in Nat /\ Consumed \in Nat
<1>1. IsFiniteSet(AheadBytes) /\ Consumed \in Nat
  BY AheadFinite
<1>2. IsFiniteSet(AheadBytes') /\ Consumed' <= Consumed
  BY <1>1, FS_Subset DEF Consumed
<1>3. Consumed' \in Nat
  BY <1>2, FS_CardinalityType DEF Consumed
<1> QED
  BY <1>1, <1>2, <1>3

(* The file at the front is closed.                                        *)
LEMMA TailAhead ==
  ASSUME open \in Seq(OpenFile), open # <<>>, open' = Tail(open)
  PROVE  /\ open' \in Seq(OpenFile) /\ Len(open') <= Len(open)
         /\ AheadBytes' \subseteq AheadBytes
<1>1. /\ open' \in Seq(OpenFile) /\ Len(open') = Len(open) - 1
      /\ \A k \in 1..Len(open') : open'[k] = open[k + 1]
  BY HeadTailProperties
<1>2. /\ Len(open) \in Nat /\ DOMAIN open = 1..Len(open)
      /\ Len(open') \in Nat /\ DOMAIN open' = 1..Len(open')
  BY <1>1, LenProperties
<1>3. ASSUME NEW k \in DOMAIN open'
      PROVE  k + 1 \in DOMAIN open /\ open'[k] = open[k + 1]
  BY <1>1, <1>2
<1>4. AheadBytes' \subseteq AheadBytes
  BY <1>3 DEF AheadBytes
<1> QED
  BY <1>1, <1>2, <1>4

(* Nothing is prefetched of the files that add_file opens.                 *)
LEMMA AddFileAhead ==
  ASSUME IInv, open \in Seq(OpenFile), NEW bad, AddFile(bad)
  PROVE  /\ open' \in Seq(OpenFile)
         /\ Len(open') <= Len(open) + BatchFiles
         /\ AheadBytes' \subseteq AheadBytes
<1> DEFINE c == Cardinality(Batch)
           A == [k \in 1..c |-> Fetch(source + k - 1, (source + k - 1) \notin bad)]
<1>1. /\ c \in Nat /\ source + c \in 1..(N + 1)
      /\ Batch = source..(source + c - 1)
  BY BatchIs DEF IInv
<1>2. /\ N \in Nat /\ source \in Nat \ {0} /\ BatchFiles \in Nat
      /\ open' = open \o A /\ Len(open) \in Nat
  BY ConstantsAssumption, LenProperties DEF AddFile, IInv, QueueInv
<1> HIDE DEF c
<1>3. c <= BatchFiles
  <2>1. CASE c = 0
    BY <1>2, <2>1
  <2>2. CASE c # 0
    <3>1. source + c - 1 \in Batch
      BY <1>1, <1>2, <2>2
    <3>2. source + c - 1 < source + BatchFiles
      BY <3>1 DEF Batch
    <3> QED
      BY <1>1, <1>2, <3>2
  <2> QED
    BY <2>1, <2>2
<1>4. \A k \in 1..c : Fetch(source + k - 1, (source + k - 1) \notin bad) \in OpenFile
  BY <1>1, <1>2 DEF Fetch, OpenFile, Files
<1>5. /\ A \in Seq(OpenFile) /\ Len(A) = c
      /\ \A k \in 1..c : Ahead(A[k]) = {}
  <2>1. A \in [1..c -> OpenFile]
    BY <1>4
  <2>2. A \in Seq(OpenFile)
    BY <1>1, <2>1, SeqDef
  <2>3. DOMAIN A = 1..c /\ Len(A) \in Nat /\ DOMAIN A = 1..Len(A)
    BY <2>2, LenProperties
  <2>4. Len(A) = c
    BY <1>1, <2>3
  <2>5. ASSUME NEW k \in 1..c PROVE Ahead(A[k]) = {}
    <3>1. A[k].read_pos = 0 /\ A[k].prefetch_pos = 0
      BY DEF Fetch
    <3> QED
      BY <3>1 DEF Ahead
  <2> QED
    BY <2>2, <2>4, <2>5
<1> HIDE DEF A
<1>6. /\ open' \in Seq(OpenFile) /\ Len(open') = Len(open) + c
      /\ \A k \in 1..(Len(open) + c) :
           open'[k] = IF k <= Len(open) THEN open[k] ELSE A[k - Len(open)]
  BY <1>2, <1>5, ConcatProperties
<1>7. DOMAIN open = 1..Len(open) /\ DOMAIN open' = 1..(Len(open) + c)
  BY <1>6, LenProperties
<1>8. ASSUME NEW k \in DOMAIN open', Ahead(open'[k]) # {}
      PROVE  k \in DOMAIN open /\ open'[k] = open[k]
  <2>1. CASE k <= Len(open)
    BY <1>1, <1>2, <1>6, <1>7, <2>1
  <2>2. CASE ~(k <= Len(open))
    <3>1. k - Len(open) \in 1..c /\ open'[k] = A[k - Len(open)]
      BY <1>1, <1>2, <1>6, <1>7, <2>2
    <3> QED
      BY <1>5, <1>8, <3>1
  <2> QED
    BY <2>1, <2>2
<1>9. AheadBytes' \subseteq AheadBytes
  BY <1>8 DEF AheadBytes
<1> QED
  BY <1>1, <1>2, <1>3, <1>6, <1>9

(* A position of one of the open files moves.                              *)
LEMMA MovedAhead ==
  ASSUME open \in Seq(OpenFile), NEW n \in 1..Len(open), NEW e \in OpenFile,
         open' = [open EXCEPT ![n] = e]
  PROVE  /\ open' \in Seq(OpenFile) /\ Len(open') = Len(open)
         /\ DOMAIN open' = DOMAIN open /\ n \in DOMAIN open
         /\ \A k \in DOMAIN open : open'[k] = IF k = n THEN e ELSE open[k]
<1>1. /\ open' \in Seq(OpenFile) /\ Len(open') = Len(open)
      /\ \A k \in 1..Len(open) : open'[k] = IF k = n THEN e ELSE open[k]
  BY ExceptSeq
<1>2. DOMAIN open = 1..Len(open) /\ DOMAIN open' = 1..Len(open')
  BY <1>1, LenProperties
<1> QED
  BY <1>1, <1>2

(* A step of which the window and the queue do not grow.                   *)
LEMMA WindowFrame ==
  ASSUME WindowInv, open' \in Seq(OpenFile), AheadBytes' \subseteq AheadBytes,
         budget' \in Budgets, i' \in Nat \ {0}, left' \in Nat,
         Len(open') <= MaxOpen + 1 + BatchFiles,
         pc' = "loop" => pc = "loop" /\ left' = left /\ i' <= MaxOpen + 2
  PROVE  WindowInv'
<1>1. Consumed' <= Consumed /\ Consumed' \in Nat /\ Consumed \in Nat
  BY FewerAhead DEF WindowInv
<1>2. ASSUME NEW b \in Budgets, Largest(b)
      PROVE  Consumed' < b + Block /\ (pc' = "loop" => left' = 0 \/ Consumed' + left' <= b)
  <2>1. Consumed < b + Block /\ (pc = "loop" => left = 0 \/ Consumed + left <= b)
    BY <1>2 DEF WindowInv
  <2>2. b \in Nat /\ Block \in Nat /\ left \in Nat
    BY ConstantsAssumption DEF WindowInv
  <2>3. Consumed' < b + Block
    BY <1>1, <2>1, <2>2
  <2>4. ASSUME pc' = "loop" PROVE left' = 0 \/ Consumed' + left' <= b
    <3>1. left' = left /\ (left = 0 \/ Consumed + left <= b)
      BY <2>1, <2>4
    <3>2. CASE left = 0
      BY <3>1, <3>2
    <3>3. CASE Consumed + left <= b
      <4>1. \A x, y, l, m \in Nat : x <= y /\ y + l <= m => x + l <= m
        OBVIOUS
      <4>2. Consumed' + left <= b
        BY <1>1, <2>2, <3>3, <4>1, Zenon
      <4> QED
        BY <3>1, <4>2
    <3> QED
      BY <3>1, <3>2, <3>3
  <2> QED
    BY <2>3, <2>4
<1> QED
  BY <1>2 DEF WindowInv, Largest

(* next() closes a file, read() reads from one.                            *)
LEMMA CallWindow ==
  ASSUME IInv, WindowInv,
         (\E b \in Budgets : CallNext(b)) \/ (\E n \in 0..MaxRead : Read(n))
  PROVE  WindowInv'
<1>1. /\ open \in Seq(OpenFile) /\ Len(open) \in Nat
      /\ Len(open) <= MaxOpen + 1 + BatchFiles
  BY LenProperties DEF WindowInv
<1>2. MaxOpen \in Nat /\ BatchFiles \in Nat /\ MaxRead \in Nat
  BY ConstantsAssumption
<1>3. ASSUME NEW b \in Budgets, CallNext(b) PROVE WindowInv'
  <2>1. /\ budget' = b /\ pc' = "advance" /\ UNCHANGED <<i, left>>
        /\ open' = IF open = <<>> THEN open ELSE Tail(open)
    BY <1>3 DEF CallNext
  <2>2. /\ open' \in Seq(OpenFile) /\ Len(open') <= Len(open)
        /\ AheadBytes' \subseteq AheadBytes
    <3>1. CASE open = <<>>
      BY <1>1, <2>1, <3>1 DEF AheadBytes
    <3>2. CASE open # <<>>
      BY <1>1, <2>1, <3>2, TailAhead
    <3> QED
      BY <3>1, <3>2
  <2>3. Len(open') \in Nat
    BY <2>2, LenProperties
  <2> QED
    BY <1>1, <1>2, <2>1, <2>2, <2>3, WindowFrame DEF WindowInv
<1>4. ASSUME NEW n \in 0..MaxRead, Read(n) PROVE WindowInv'
  <2> DEFINE e == [open[1] EXCEPT !.read_pos = @ + n]
  <2>1. /\ pc = "idle" /\ result = "ok" /\ pc' = "advance"
        /\ open' = [open EXCEPT ![1] = e] /\ UNCHANGED <<budget, i, left>>
    BY <1>4 DEF Read
  <2>2. 1 \in 1..Len(open)
    BY <1>1, <2>1 DEF IInv, FrontInv
  <2>3. open[1] \in OpenFile /\ n \in Nat
    BY <1>1, <1>2, <2>2, ElementOfSeq
  <2>4. /\ e \in OpenFile /\ e.file = open[1].file
        /\ e.ok = open[1].ok /\ e.prefetch_pos = open[1].prefetch_pos
        /\ e.read_pos = open[1].read_pos + n
    BY <2>3 DEF OpenFile
  <2>5. Ahead(e) \subseteq Ahead(open[1])
    BY <2>3, <2>4 DEF Ahead, OpenFile
  <2> HIDE DEF e
  <2>6. /\ open' \in Seq(OpenFile) /\ Len(open') = Len(open)
        /\ DOMAIN open' = DOMAIN open
        /\ \A k \in DOMAIN open : open'[k] = IF k = 1 THEN e ELSE open[k]
    BY <1>1, <2>1, <2>2, <2>4, MovedAhead
  <2>7. \A k \in DOMAIN open :
          open'[k].file = open[k].file /\ Ahead(open'[k]) \subseteq Ahead(open[k])
    BY <2>4, <2>5, <2>6
  <2>8. AheadBytes' \subseteq AheadBytes
    BY <2>6, <2>7 DEF AheadBytes
  <2> QED
    BY <1>1, <2>1, <2>6, <2>8, WindowFrame DEF WindowInv
<1> QED
  BY <1>3, <1>4

(* The window grows by what one prefetch asks for.                         *)
LEMMA PrefetchWindow ==
  ASSUME WindowInv, LoopPrefetch PROVE WindowInv'
<1> DEFINE e == [open[i] EXCEPT !.prefetch_pos = NewPos]
           new == {open[i].file} \X ((OldPos + 1)..NewPos)
<1>1. /\ open \in Seq(OpenFile) /\ i \in 1..Len(open) /\ left \in Nat /\ i \in Nat
      /\ WantsPrefetch /\ pc = "loop" /\ left >= Block /\ i <= MaxOpen + 1
      /\ open' = [open EXCEPT ![i] = e] /\ left' = SatSub(left, NewPos - OldPos)
      /\ i' = i + 1 /\ UNCHANGED <<budget, pc>>
  <2>1. Len(open) \in Nat
    BY LenProperties DEF WindowInv
  <2> QED
    BY <2>1 DEF WindowInv, LoopPrefetch, AtFile
<1>2. /\ OldPos \in Nat /\ NewPos \in Nat /\ OldPos <= NewPos
      /\ NewPos < OldPos + left + Block
  BY <1>1, NewPosIs
<1>3. open[i] \in OpenFile
  BY <1>1, ElementOfSeq
<1>4. /\ e \in OpenFile /\ e.file = open[i].file
      /\ e.ok = open[i].ok /\ e.prefetch_pos = NewPos /\ e.read_pos = open[i].read_pos
  BY <1>2, <1>3 DEF OpenFile
<1>5. Ahead(e) \subseteq Ahead(open[i]) \cup ((OldPos + 1)..NewPos)
  BY <1>2, <1>3, <1>4 DEF Ahead, OldPos, OpenFile
<1> HIDE DEF e
<1>6. /\ open' \in Seq(OpenFile) /\ Len(open') = Len(open)
      /\ DOMAIN open' = DOMAIN open /\ i \in DOMAIN open
      /\ \A k \in DOMAIN open : open'[k] = IF k = i THEN e ELSE open[k]
  BY <1>1, <1>4, MovedAhead
<1>7. AheadBytes' \subseteq AheadBytes \cup new
  <2>1. ASSUME NEW k \in DOMAIN open', NEW p \in {open'[k].file} \X Ahead(open'[k])
        PROVE  p \in AheadBytes \cup new
    <3>1. CASE k # i
      BY <1>6, <2>1, <3>1 DEF AheadBytes
    <3>2. CASE k = i
      <4>1. p \in {open[i].file} \X (Ahead(open[i]) \cup ((OldPos + 1)..NewPos))
        BY <1>4, <1>5, <1>6, <2>1, <3>2
      <4>2. p \in ({open[i].file} \X Ahead(open[i])) \cup new
        BY <4>1
      <4> HIDE DEF new
      <4> QED
        BY <1>6, <4>2 DEF AheadBytes
    <3> QED
      BY <3>1, <3>2
  <2> QED
    BY <2>1 DEF AheadBytes
<1>8. IsFiniteSet(new) /\ Cardinality(new) = NewPos - OldPos
  <2>1. IsFiniteSet({open[i].file}) /\ Cardinality({open[i].file}) = 1
    BY FS_Singleton
  <2>2. /\ IsFiniteSet((OldPos + 1)..NewPos)
        /\ Cardinality((OldPos + 1)..NewPos) = NewPos - OldPos
    <3>1. OldPos + 1 \in Int /\ NewPos \in Int
      BY <1>2
    <3>2. /\ IsFiniteSet((OldPos + 1)..NewPos)
          /\ Cardinality((OldPos + 1)..NewPos)
               = IF OldPos + 1 > NewPos THEN 0 ELSE NewPos - (OldPos + 1) + 1
      BY <3>1, FS_Interval
    <3> QED
      BY <1>2, <3>2
  <2> DEFINE F == {open[i].file}
             B == (OldPos + 1)..NewPos
  <2> HIDE DEF F, B
  <2>3. IsFiniteSet(F \X B) /\ Cardinality(F \X B) = Cardinality(F) * Cardinality(B)
    BY <2>1, <2>2, FS_Product DEF F, B
  <2>4. Cardinality(F) = 1 /\ Cardinality(B) = NewPos - OldPos
    BY <2>1, <2>2 DEF F, B
  <2>5. Cardinality(F \X B) = NewPos - OldPos
    BY <1>2, <2>3, <2>4
  <2> QED
    BY <2>3, <2>5 DEF F, B
<1>9. Consumed \in Nat /\ Consumed' \in Nat /\ Consumed' <= Consumed + (NewPos - OldPos)
  <2> HIDE DEF new
  <2>1. IsFiniteSet(AheadBytes) /\ Consumed \in Nat
    BY <1>1, AheadFinite
  <2>2. /\ IsFiniteSet(AheadBytes \cup new)
        /\ Cardinality(AheadBytes \cup new)
             = Cardinality(AheadBytes) + Cardinality(new) - Cardinality(AheadBytes \cap new)
    BY <1>8, <2>1, FS_Union
  <2>3. Cardinality(AheadBytes \cap new) \in Nat
    BY <2>1, FS_Intersection, FS_CardinalityType
  <2>4. IsFiniteSet(AheadBytes') /\ Cardinality(AheadBytes') <= Cardinality(AheadBytes \cup new)
    BY <1>7, <2>2, FS_Subset
  <2>5. Consumed' = Cardinality(AheadBytes') /\ Consumed' \in Nat
    BY <2>4, FS_CardinalityType DEF Consumed
  <2> QED
    BY <1>2, <1>8, <2>1, <2>2, <2>3, <2>4, <2>5 DEF Consumed
<1> HIDE DEF new
<1>10. left' \in Nat /\ i' \in Nat \ {0} /\ i' <= MaxOpen + 2
  BY <1>1, <1>2, ConstantsAssumption DEF SatSub
<1>11. ASSUME NEW b \in Budgets, Largest(b)
       PROVE  Consumed' < b + Block /\ (left' = 0 \/ Consumed' + left' <= b)
  <2>1. b \in Nat /\ Block \in Nat \ {0}
    BY ConstantsAssumption
  <2>2. Consumed + left <= b
    BY <1>1, <1>11, <2>1 DEF WindowInv
  <2>3. left' = IF left > NewPos - OldPos THEN left - (NewPos - OldPos) ELSE 0
    BY <1>1 DEF SatSub
  <2> HIDE DEF NewPos, OldPos
  <2> QED
    BY <1>1, <1>2, <1>9, <2>1, <2>2, <2>3
<1> QED
  BY <1>1, <1>6, <1>10, <1>11 DEF WindowInv, Largest

(* The other rounds of advance().                                          *)
LEMMA AdvanceWindow ==
  ASSUME IInv, WindowInv,
         Advance \/ LoopSpent \/ LoopFull \/ LoopContinue \/ LoopPrefetch
           \/ \E bad \in SUBSET Files : LoopAdd(bad)
  PROVE  WindowInv'
<1>1. /\ open \in Seq(OpenFile) /\ Len(open) \in Nat /\ Consumed \in Nat
      /\ Len(open) <= MaxOpen + 1 + BatchFiles /\ budget \in Budgets
      /\ i \in Nat \ {0} /\ left \in Nat
  BY LenProperties, AheadFinite DEF WindowInv
<1>2. /\ MaxOpen \in Nat /\ BatchFiles \in Nat /\ Budgets \subseteq Nat /\ Block \in Nat
      /\ AfterAdvance # "loop"
  BY ConstantsAssumption DEF AfterAdvance
<1>3. CASE Advance
  <2>1. /\ UNCHANGED <<open, budget>> /\ i' = 1
        /\ left' = IF budget > Consumed THEN budget - Consumed ELSE 0
    BY <1>3 DEF Advance, SatSub
  <2>2. left' \in Nat /\ 1 <= MaxOpen + 2
    BY <1>1, <1>2, <2>1
  <2>3. Consumed' = Consumed
    BY <2>1 DEF Consumed, AheadBytes
  <2>4. ASSUME NEW b \in Budgets, Largest(b)
        PROVE  Consumed' < b + Block /\ (left' = 0 \/ Consumed' + left' <= b)
    <3>1. budget <= b /\ Consumed < b + Block
      BY <1>1, <2>4 DEF WindowInv, Largest
    <3> QED
      BY <1>1, <1>2, <2>1, <2>3, <3>1
  <2> QED
    BY <1>1, <2>1, <2>2, <2>4 DEF WindowInv, Largest
<1>4. CASE LoopSpent \/ LoopFull
  BY <1>1, <1>2, <1>4, WindowFrame DEF LoopSpent, LoopFull, AheadBytes
<1>5. CASE LoopContinue
  <2>1. /\ UNCHANGED <<open, budget, left, pc>> /\ i' = i + 1 /\ i <= MaxOpen + 1
        /\ pc = "loop"
    BY <1>5 DEF LoopContinue, AtFile
  <2>2. i' \in Nat \ {0} /\ i' <= MaxOpen + 2
    BY <1>1, <1>2, <2>1
  <2>3. AheadBytes' = AheadBytes
    BY <2>1 DEF AheadBytes
  <2> QED
    BY <1>1, <2>1, <2>2, <2>3, WindowFrame
<1>6. CASE LoopPrefetch
  BY <1>6, PrefetchWindow
<1>7. ASSUME NEW bad \in SUBSET Files, LoopAdd(bad) PROVE WindowInv'
  <2>1. /\ pc = "loop" /\ i = Len(open) + 1 /\ AddFile(bad)
        /\ UNCHANGED <<budget, i, left>>
    BY <1>7 DEF LoopAdd
  <2>2. i <= MaxOpen + 2
    BY <2>1 DEF WindowInv
  <2>3. /\ open' \in Seq(OpenFile) /\ Len(open') <= Len(open) + BatchFiles
        /\ AheadBytes' \subseteq AheadBytes
    BY <1>1, <2>1, AddFileAhead
  <2>4. Len(open') \in Nat
    BY <2>3, LenProperties
  <2>5. Len(open') <= MaxOpen + 1 + BatchFiles
    BY <1>1, <1>2, <2>1, <2>2, <2>3, <2>4
  <2> QED
    BY <1>1, <2>1, <2>2, <2>3, <2>5, WindowFrame
<1> QED
  BY <1>3, <1>4, <1>5, <1>6, <1>7

(* The rest of next().                                                     *)
LEMMA FrontWindow ==
  ASSUME IInv, WindowInv, FrontErr \/ FrontOk \/ \E bad \in SUBSET Files : FrontAdd(bad)
  PROVE  WindowInv'
<1>1. /\ open \in Seq(OpenFile) /\ Len(open) \in Nat
      /\ Len(open) <= MaxOpen + 1 + BatchFiles /\ budget \in Budgets
      /\ i \in Nat \ {0} /\ left \in Nat
      /\ MaxOpen \in Nat /\ BatchFiles \in Nat
  BY LenProperties, ConstantsAssumption DEF WindowInv
<1>2. CASE FrontErr
  <2>1. /\ open # <<>> /\ open' = Tail(open) /\ pc' = "idle" /\ UNCHANGED <<budget, i, left>>
    BY <1>2 DEF FrontErr
  <2>2. /\ open' \in Seq(OpenFile) /\ Len(open') <= Len(open)
        /\ AheadBytes' \subseteq AheadBytes
    BY <1>1, <2>1, TailAhead
  <2>3. Len(open') \in Nat
    BY <2>2, LenProperties
  <2> QED
    BY <1>1, <2>1, <2>2, <2>3, WindowFrame
<1>3. CASE FrontOk
  BY <1>1, <1>3, WindowFrame DEF FrontOk, AheadBytes
<1>4. ASSUME NEW bad \in SUBSET Files, FrontAdd(bad) PROVE WindowInv'
  <2>1. /\ open = <<>> /\ AddFile(bad) /\ pc' # "loop" /\ UNCHANGED <<budget, i, left>>
    BY <1>4 DEF FrontAdd
  <2>2. /\ open' \in Seq(OpenFile) /\ Len(open') <= Len(open) + BatchFiles
        /\ AheadBytes' \subseteq AheadBytes
    BY <1>1, <2>1, AddFileAhead
  <2>3. Len(open') \in Nat /\ Len(open) = 0
    BY <2>1, <2>2, LenProperties, EmptySeq
  <2>4. Len(open') <= MaxOpen + 1 + BatchFiles
    BY <1>1, <2>2, <2>3
  <2> QED
    BY <1>1, <2>1, <2>2, <2>4, WindowFrame
<1> QED
  BY <1>2, <1>3, <1>4

(* Every step keeps the window and the queue within their bounds.          *)
LEMMA NextWindow == IInv /\ WindowInv /\ [Next]_vars => WindowInv'
<1> SUFFICES ASSUME IInv, WindowInv, [Next]_vars PROVE WindowInv'
  OBVIOUS
<1>1. CASE UNCHANGED vars
  BY <1>1 DEF vars, WindowInv, Consumed, AheadBytes, Largest
<1>2. CASE Next
  BY <1>1, <1>2, CallWindow, AdvanceWindow, FrontWindow DEF Next, Internal, Done
<1> QED
  BY <1>1, <1>2

(* The prefetched bytes stay below the largest budget plus a block, the    *)
(* open files below MAX_OPEN plus a batch, and no counter of the loop of   *)
(* advance() wraps.                                                        *)
THEOREM WindowBounded == Spec => []Bounded
<1>1. Init => WindowInv
  <2> SUFFICES ASSUME Init PROVE WindowInv
    OBVIOUS
  <2>1. /\ open = <<>> /\ budget \in Budgets /\ i = 1 /\ left = 0 /\ pc = "idle"
        /\ MaxOpen \in Nat /\ BatchFiles \in Nat /\ Block \in Nat \ {0} /\ Budgets \subseteq Nat
    BY ConstantsAssumption DEF Init
  <2>2. open \in Seq(OpenFile) /\ Len(open) = 0 /\ DOMAIN open = {}
    BY <2>1, EmptySeq
  <2>3. AheadBytes = {}
    BY <2>2 DEF AheadBytes
  <2>4. Consumed = 0
    BY <2>3, FS_EmptySet DEF Consumed
  <2> QED
    BY <2>1, <2>2, <2>4 DEF WindowInv
<1>2. IInv /\ WindowInv => Bounded
  <2> SUFFICES ASSUME IInv, WindowInv PROVE Bounded
    OBVIOUS
  <2>1. source \in 1..(N + 1) /\ 1..(source - 1) \subseteq Files
    BY ConstantsAssumption DEF IInv, QueueInv, Files
  <2>2. given \in Seq(Files) /\ reported \in SUBSET Files /\ opened \in SUBSET Files
    BY <2>1, SeqMonotonic DEF IInv, AnswersInv
  <2>3. TypeOK
    BY <2>1, <2>2 DEF TypeOK, WindowInv, IInv, CallInv
  <2> QED
    BY <2>3 DEF Bounded, WindowInv
<1> QED
  BY <1>1, <1>2, Invariance, NextWindow, PTL DEF Spec
=============================================================================
