--------------------------- MODULE HashPoolProofs ---------------------------
(***************************************************************************)
(* Proofs about HashPool for every number of candidates, every mix of      *)
(* plain files, archives and huge archives, every pool size and every      *)
(* memory limit.                                                           *)
(***************************************************************************)
EXTENDS HashPool, FiniteSetTheorems, TLAPS

(* The bytes of no buffer.                                                 *)
LEMMA BytesOfNone ==
  IsFiniteSet(Bytes({})) /\ Cardinality(Bytes({})) = 0
<1>1. Bytes({}) = {}
  BY DEF Bytes
<1> QED
  BY <1>1, FS_EmptySet

(* A buffer has as many bytes as its size.                                 *)
LEMMA BytesOfOne ==
  ASSUME NEW i \in Files
  PROVE  /\ IsFiniteSet({i} \X (1..Size[i]))
         /\ Cardinality({i} \X (1..Size[i])) = Size[i]
<1>1. Size[i] \in Nat
  BY ConstantsAssumption
<1>2. IsFiniteSet(1..Size[i]) /\ Cardinality(1..Size[i]) = Size[i]
  <2>1. \A n \in Nat : IsFiniteSet(1..n) /\ Cardinality(1..n) = n
    <3>1. ASSUME NEW n \in Nat
          PROVE  IsFiniteSet(1..n) /\ Cardinality(1..n) = IF 1 > n THEN 0 ELSE n - 1 + 1
      BY FS_Interval
    <3> QED
      BY <3>1
  <2> QED
    BY <1>1, <2>1
<1>3. IsFiniteSet({i}) /\ Cardinality({i}) = 1
  BY FS_Singleton
<1> DEFINE S == {i}
           T == 1..Size[i]
<1>4. IsFiniteSet(S \X T) /\ Cardinality(S \X T) = Cardinality(S) * Cardinality(T)
  <2>1. IsFiniteSet(S) /\ IsFiniteSet(T)
    BY <1>2, <1>3
  <2> HIDE DEF S, T
  <2> QED
    BY <2>1, FS_Product
<1> QED
  BY <1>1, <1>2, <1>3, <1>4

(* A new buffer adds its size: what AllocMonBuf::new accounts for.         *)
LEMMA BytesAdd ==
  ASSUME NEW S \in SUBSET Files, IsFiniteSet(Bytes(S)), NEW i \in Files \ S
  PROVE  /\ IsFiniteSet(Bytes(S \cup {i}))
         /\ Cardinality(Bytes(S \cup {i})) = Cardinality(Bytes(S)) + Size[i]
<1> DEFINE U == {i} \X (1..Size[i])
<1>1. IsFiniteSet(U) /\ Cardinality(U) = Size[i]
  BY BytesOfOne
<1>2. Bytes(S \cup {i}) = Bytes(S) \cup U
  BY DEF Bytes
<1>3. Bytes(S) \cap U = {}
  <2>1. SUFFICES ASSUME NEW b \in Bytes(S), b \in U PROVE FALSE
    OBVIOUS
  <2>2. PICK j \in S : b \in {j} \X (1..Size[j])
    BY <2>1 DEF Bytes
  <2>3. b[1] = j /\ b[1] = i
    BY <2>1, <2>2
  <2> QED
    BY <2>3
<1>4. Cardinality(Bytes(S) \cap U) = 0
  BY <1>3, FS_EmptySet
<1>5. Cardinality(Bytes(S)) \in Nat /\ Size[i] \in Nat
  BY FS_CardinalityType, ConstantsAssumption
<1>6. /\ IsFiniteSet(Bytes(S) \cup U)
      /\ Cardinality(Bytes(S) \cup U)
           = Cardinality(Bytes(S)) + Cardinality(U) - Cardinality(Bytes(S) \cap U)
  BY <1>1, FS_Union
<1> HIDE DEF U
<1>7. Cardinality(Bytes(S) \cup U) = Cardinality(Bytes(S)) + Size[i]
  BY <1>1, <1>4, <1>5, <1>6
<1> QED
  BY <1>2, <1>6, <1>7

(* A dropped buffer gives its size back: what AllocMonBuf::drop subtracts. *)
LEMMA BytesRemove ==
  ASSUME NEW S \in SUBSET Files, IsFiniteSet(Bytes(S)), NEW i \in S
  PROVE  /\ IsFiniteSet(Bytes(S \ {i}))
         /\ Cardinality(Bytes(S \ {i})) \in Nat
         /\ Cardinality(Bytes(S)) = Cardinality(Bytes(S \ {i})) + Size[i]
<1>1. Bytes(S \ {i}) \in SUBSET Bytes(S)
  BY DEF Bytes
<1>2. IsFiniteSet(Bytes(S \ {i}))
  BY <1>1, FS_Subset
<1>3. (S \ {i}) \cup {i} = S /\ S \ {i} \in SUBSET Files /\ i \in Files \ (S \ {i})
  OBVIOUS
<1>4. Cardinality(Bytes((S \ {i}) \cup {i})) = Cardinality(Bytes(S \ {i})) + Size[i]
  BY <1>2, <1>3, BytesAdd
<1> QED
  BY <1>2, <1>3, <1>4, FS_CardinalityType

-----------------------------------------------------------------------------
(* The initial state satisfies the inductive invariant.                    *)
LEMMA InitIInv == Init => IInv
<1> SUFFICES ASSUME Init PROVE IInv
  OBVIOUS
<1> USE ConstantsAssumption DEF Init
<1>1. TypeOK
  BY DEF TypeOK, Files, Free
<1>2. LockInv
  BY DEF LockInv, Files, Free, Closure
<1>3. TaskInv
  BY DEF TaskInv
<1>4. ProgressInv
  BY DEF ProgressInv
<1>5. BuffersOwned
  BY DEF BuffersOwned
<1>6. MemoryInv
  BY BytesOfNone DEF MemoryInv, AllocMonExact, BufferedBytes
<1> QED
  BY <1>1, <1>2, <1>3, <1>4, <1>5, <1>6 DEF IInv
-----------------------------------------------------------------------------
(* huge_zip_thres is a number of bytes no larger than the cache.           *)
LEMMA ThresholdType == HugeZipThres \in Nat /\ HugeZipThres <= CacheMem
<1>1. CacheMem \in Nat /\ Threads \in Nat /\ Threads > 0
  BY ConstantsAssumption
<1> QED
  BY <1>1 DEF HugeZipThres

(* No archive is both too large for memory and read into memory.           *)
LEMMA HugeXorInMemory ==
  \A i \in Files : ~(Huge(i) /\ InMemory(i))
<1>1. \A i \in Files : Size[i] \in Nat
  BY ConstantsAssumption
<1> QED
  BY <1>1, ThresholdType DEF Huge, InMemory

(* The invariant holds after a step if each of its parts does.             *)
LEMMA Conjuncts ==
  TypeOK' /\ LockInv' /\ TaskInv' /\ ProgressInv' /\ BuffersOwned' /\ MemoryInv' => IInv'
  BY DEF IInv

(* Every step preserves the type invariant.  The ranges before the step    *)
(* and the fields that change are separate facts of each action.           *)
LEMMA NextTypeOK == IInv /\ [Next]_vars => TypeOK'
<1> SUFFICES ASSUME IInv, [Next]_vars PROVE TypeOK'
  OBVIOUS
<1> DEFINE States == {"none", "queued", "open", "wait", "read", "decode", "done"}
<1>a. TypeOK
  BY DEF IInv
<1>b. /\ N \in Nat /\ Free \in 0..(N + 1) /\ Closure \in 0..(N + 1)
      /\ \A i \in Files : i \in 0..(N + 1) /\ i + 1 \in 1..(N + 1)
      /\ \A i \in Files : Size[i] \in Nat /\ Chunks[i] \in Nat
  BY ConstantsAssumption DEF Files, Free, Closure
<1>c. /\ pc \in {"await", "alloc", "read", "commit"} => cur \in Files
      /\ bufs \in SUBSET Files /\ ALLOC_MON \in Nat
  BY <1>a DEF TypeOK, IInv, ProgressInv
<1>d. ASSUME NEW i \in Files, i \in bufs PROVE ALLOC_MON - Size[i] \in Nat
  <2>1. /\ IsFiniteSet(Bytes(bufs))
        /\ ALLOC_MON = Cardinality(Bytes(bufs))
    BY DEF IInv, MemoryInv, AllocMonExact, BufferedBytes
  <2>2. /\ Cardinality(Bytes(bufs \ {i})) \in Nat
        /\ Cardinality(Bytes(bufs)) = Cardinality(Bytes(bufs \ {i})) + Size[i]
    BY <1>c, <1>d, <2>1, BytesRemove
  <2> QED
    BY <1>b, <2>1, <2>2
<1>1. CASE Lock
  <2>1. /\ pc' = "next"
        /\ read_mutex' = Closure
        /\ UNCHANGED <<cur, ALLOC_MON, bufs, task, left, hashed, skipped>>
    BY <1>1 DEF Lock
  <2> QED
    BY <1>a, <1>b, <2>1 DEF TypeOK
<1>2. CASE Return
  <2>1. /\ pc' = "returned"
        /\ read_mutex' = Free
        /\ UNCHANGED <<cur, ALLOC_MON, bufs, task, left, hashed, skipped>>
    BY <1>2 DEF Return
  <2> QED
    BY <1>a, <1>b, <2>1 DEF TypeOK
<1>3. CASE SkipFile
  <2>1. UNCHANGED <<pc, read_mutex, ALLOC_MON, bufs, task, left, hashed>>
    BY <1>3 DEF SkipFile
  <2>2. cur' \in 1..(N + 1)
    BY <1>3, <1>b, <1>c DEF SkipFile
  <2>3. skipped' \in SUBSET Files
    BY <1>3, <1>a, <1>c DEF SkipFile, TypeOK
  <2> QED
    BY <1>a, <1>b, <2>1, <2>2, <2>3 DEF TypeOK
<1>4. CASE StartAlloc
  <2>1. /\ pc' = "await"
        /\ UNCHANGED <<cur, read_mutex, ALLOC_MON, bufs, task, left, hashed, skipped>>
    BY <1>4 DEF StartAlloc
  <2> QED
    BY <1>a, <1>b, <2>1 DEF TypeOK
<1>5. CASE AwaitMemory
  <2>1. /\ pc' = "alloc"
        /\ UNCHANGED <<cur, read_mutex, ALLOC_MON, bufs, task, left, hashed, skipped>>
    BY <1>5 DEF AwaitMemory
  <2> QED
    BY <1>a, <1>b, <2>1 DEF TypeOK
<1>6. CASE Alloc
  <2>1. /\ pc' = "read"
        /\ UNCHANGED <<cur, read_mutex, task, left, hashed, skipped>>
    BY <1>6 DEF Alloc
  <2>2. ALLOC_MON' \in Nat
    BY <1>6, <1>b, <1>c DEF Alloc
  <2>3. bufs' \in SUBSET Files
    BY <1>6, <1>c DEF Alloc
  <2> QED
    BY <1>a, <1>b, <2>1, <2>2, <2>3 DEF TypeOK
<1>7. CASE StartRead
  <2>1. /\ pc' = "read"
        /\ UNCHANGED <<cur, read_mutex, ALLOC_MON, bufs, left, hashed, skipped>>
    BY <1>7 DEF StartRead
  <2>2. task' \in [Files -> States]
    BY <1>7, <1>a DEF StartRead, TypeOK
  <2> QED
    BY <1>a, <1>b, <2>1, <2>2 DEF TypeOK
<1>8. CASE FinishRead
  <2>1. /\ pc' = "commit"
        /\ read_mutex' = Free
        /\ UNCHANGED <<cur, ALLOC_MON, bufs, left, hashed, skipped>>
    BY <1>8 DEF FinishRead
  <2>2. task' \in [Files -> States]
    BY <1>8, <1>a DEF FinishRead, TypeOK
  <2> QED
    BY <1>a, <1>b, <2>1, <2>2 DEF TypeOK
<1>9. CASE FailRead
  <2>1. /\ pc' = "next"
        /\ UNCHANGED <<read_mutex, task, left, hashed>>
    BY <1>9 DEF FailRead
  <2>2. cur' \in 1..(N + 1)
    BY <1>9, <1>b, <1>c DEF FailRead
  <2>3. ALLOC_MON' \in Nat
    BY <1>9, <1>b, <1>c, <1>d DEF FailRead
  <2>4. bufs' \in SUBSET Files
    BY <1>9, <1>c DEF FailRead
  <2>5. skipped' \in SUBSET Files
    BY <1>9, <1>a, <1>c DEF FailRead, TypeOK
  <2> QED
    BY <1>a, <1>b, <2>1, <2>2, <2>3, <2>4, <2>5 DEF TypeOK
<1>10. CASE ShortRead
  <2>1. /\ pc' = "panicked"
        /\ read_mutex' = Free
        /\ UNCHANGED <<cur, task, left, hashed, skipped>>
    BY <1>10 DEF ShortRead
  <2>2. ALLOC_MON' \in Nat
    BY <1>10, <1>b, <1>c, <1>d DEF ShortRead
  <2>3. bufs' \in SUBSET Files
    BY <1>10, <1>c DEF ShortRead
  <2> QED
    BY <1>a, <1>b, <2>1, <2>2, <2>3 DEF TypeOK
<1>11. CASE Commit
  <2>1. /\ pc' = "lock"
        /\ UNCHANGED <<read_mutex, ALLOC_MON, bufs, task, left, skipped>>
    BY <1>11 DEF Commit
  <2>2. cur' \in 1..(N + 1)
    BY <1>11, <1>b, <1>c DEF Commit
  <2>3. hashed' \in SUBSET Files
    BY <1>11, <1>a, <1>c DEF Commit, TypeOK
  <2> QED
    BY <1>a, <1>b, <2>1, <2>2, <2>3 DEF TypeOK
<1>12. ASSUME NEW k \in Files, TaskStart(k) PROVE TypeOK'
  <2>1. UNCHANGED <<pc, cur, read_mutex, ALLOC_MON, bufs, hashed, skipped>>
    BY <1>12 DEF TaskStart
  <2>2. task' \in [Files -> States]
    BY <1>12, <1>a DEF TaskStart, TypeOK
  <2>3. left' \in [Files -> Nat]
    BY <1>12, <1>a, <1>b DEF TaskStart, TypeOK
  <2> QED
    BY <1>a, <1>b, <2>1, <2>2, <2>3 DEF TypeOK
<1>13. ASSUME NEW k \in Files, TaskRequest(k) PROVE TypeOK'
  <2>1. UNCHANGED <<pc, cur, read_mutex, ALLOC_MON, bufs, left, hashed, skipped>>
    BY <1>13 DEF TaskRequest
  <2>2. task' \in [Files -> States]
    BY <1>13, <1>a DEF TaskRequest, TypeOK
  <2> QED
    BY <1>a, <1>b, <2>1, <2>2 DEF TypeOK
<1>14. ASSUME NEW k \in Files, TaskLock(k) PROVE TypeOK'
  <2>1. /\ read_mutex' = k
        /\ UNCHANGED <<pc, cur, ALLOC_MON, bufs, left, hashed, skipped>>
    BY <1>14 DEF TaskLock
  <2>2. task' \in [Files -> States]
    BY <1>14, <1>a DEF TaskLock, TypeOK
  <2> QED
    BY <1>a, <1>b, <2>1, <2>2 DEF TypeOK
<1>15. ASSUME NEW k \in Files, TaskRead(k) PROVE TypeOK'
  <2>0. left[k] \in Nat /\ left[k] > 0
    BY <1>a, <1>15 DEF IInv, TypeOK, TaskInv, TaskRead
  <2>1. /\ read_mutex' = Free
        /\ UNCHANGED <<pc, cur, ALLOC_MON, bufs, hashed, skipped>>
    BY <1>15 DEF TaskRead
  <2>2. task' \in [Files -> States]
    BY <1>15, <1>a DEF TaskRead, TypeOK
  <2>3. left' \in [Files -> Nat]
    BY <1>15, <1>a, <2>0 DEF TaskRead, TypeOK
  <2> QED
    BY <1>a, <1>b, <2>1, <2>2, <2>3 DEF TypeOK
<1>16. ASSUME NEW k \in Files, TaskReturn(k) PROVE TypeOK'
  <2>1. UNCHANGED <<pc, cur, read_mutex, ALLOC_MON, bufs, left, hashed, skipped>>
    BY <1>16 DEF TaskReturn
  <2>2. task' \in [Files -> States]
    BY <1>16, <1>a DEF TaskReturn, TypeOK
  <2> QED
    BY <1>a, <1>b, <2>1, <2>2 DEF TypeOK
<1>17. ASSUME NEW k \in Files, TaskDrop(k) PROVE TypeOK'
  <2>0. k \in bufs
    BY <1>17 DEF IInv, TaskInv, BuffersOwned, TaskDrop
  <2>1. UNCHANGED <<pc, cur, read_mutex, left, hashed, skipped>>
    BY <1>17 DEF TaskDrop
  <2>2. task' \in [Files -> States]
    BY <1>17, <1>a DEF TaskDrop, TypeOK
  <2>3. ALLOC_MON' \in Nat
    BY <1>17, <1>b, <1>c, <1>d, <2>0 DEF TaskDrop
  <2>4. bufs' \in SUBSET Files
    BY <1>17, <1>c DEF TaskDrop
  <2> QED
    BY <1>a, <1>b, <2>1, <2>2, <2>3, <2>4 DEF TypeOK
<1>18. CASE UNCHANGED vars
  BY <1>a, <1>18 DEF TypeOK, vars
<1> QED
  BY <1>1, <1>2, <1>3, <1>4, <1>5, <1>6, <1>7, <1>8, <1>9, <1>10, <1>11, <1>12, <1>13, <1>14, <1>15, <1>16, <1>17, <1>18 DEF Next, ScopeClosure, Task, Finished

(* Every step preserves the inductive invariant, action by action.         *)
LEMMA NextIInv == IInv /\ [Next]_vars => IInv'
<1> SUFFICES ASSUME IInv, [Next]_vars PROVE IInv'
  OBVIOUS
<1> USE ConstantsAssumption, HugeXorInMemory
<1>1. CASE Lock
  <2>1. TypeOK'
    BY NextTypeOK
  <2>2. LockInv'
    BY <1>1 DEF IInv, TypeOK, LockInv, Lock, Files, Free, Closure
  <2>3. TaskInv'
    BY <1>1 DEF IInv, TypeOK, TaskInv, ProgressInv, Lock, Files, Free, Closure
  <2>4. ProgressInv'
    BY <1>1 DEF IInv, TypeOK, ProgressInv, Lock, Files, Free, Closure
  <2>5. BuffersOwned'
    BY <1>1 DEF IInv, TypeOK, TaskInv, ProgressInv, BuffersOwned, Lock, Files, Free, Closure
  <2>6. MemoryInv'
    BY <1>1 DEF IInv, MemoryInv, AllocMonExact, BufferedBytes, Lock
  <2> QED
    BY <2>1, <2>2, <2>3, <2>4, <2>5, <2>6, Conjuncts
<1>2. CASE Return
  <2>1. TypeOK'
    BY NextTypeOK
  <2>2. LockInv'
    BY <1>2 DEF IInv, TypeOK, LockInv, Return, Files, Free, Closure
  <2>3. TaskInv'
    BY <1>2 DEF IInv, TypeOK, TaskInv, ProgressInv, Return, Files, Free, Closure
  <2>4. ProgressInv'
    BY <1>2 DEF IInv, TypeOK, ProgressInv, Return, Files, Free, Closure
  <2>5. BuffersOwned'
    BY <1>2 DEF IInv, TypeOK, TaskInv, ProgressInv, BuffersOwned, Return, Files, Free, Closure
  <2>6. MemoryInv'
    BY <1>2 DEF IInv, MemoryInv, AllocMonExact, BufferedBytes, Return
  <2> QED
    BY <2>1, <2>2, <2>3, <2>4, <2>5, <2>6, Conjuncts
<1>3. CASE SkipFile
  <2>1. TypeOK'
    BY NextTypeOK
  <2>2. LockInv'
    BY <1>3 DEF IInv, TypeOK, LockInv, SkipFile, Files, Free, Closure
  <2>3. TaskInv'
    BY <1>3 DEF IInv, TypeOK, TaskInv, ProgressInv, SkipFile, Files, Free, Closure
  <2>4. ProgressInv'
    BY <1>3 DEF IInv, TypeOK, ProgressInv, SkipFile, Files, Free, Closure
  <2>5. BuffersOwned'
    BY <1>3 DEF IInv, TypeOK, TaskInv, ProgressInv, BuffersOwned, SkipFile, Files, Free, Closure
  <2>6. MemoryInv'
    BY <1>3 DEF IInv, MemoryInv, AllocMonExact, BufferedBytes, SkipFile
  <2> QED
    BY <2>1, <2>2, <2>3, <2>4, <2>5, <2>6, Conjuncts
<1>4. CASE StartAlloc
  <2>1. TypeOK'
    BY NextTypeOK
  <2>2. LockInv'
    BY <1>4 DEF IInv, TypeOK, LockInv, StartAlloc, Files, Free, Closure
  <2>3. TaskInv'
    BY <1>4 DEF IInv, TypeOK, TaskInv, ProgressInv, StartAlloc, Files, Free, Closure
  <2>4. ProgressInv'
    BY <1>4 DEF IInv, TypeOK, ProgressInv, StartAlloc, Files, Free, Closure
  <2>5. BuffersOwned'
    BY <1>4 DEF IInv, TypeOK, TaskInv, ProgressInv, BuffersOwned, StartAlloc, Files, Free, Closure
  <2>6. MemoryInv'
    BY <1>4 DEF IInv, MemoryInv, AllocMonExact, BufferedBytes, StartAlloc
  <2> QED
    BY <2>1, <2>2, <2>3, <2>4, <2>5, <2>6, Conjuncts
<1>5. CASE AwaitMemory
  <2>1. TypeOK'
    BY NextTypeOK
  <2>2. LockInv'
    BY <1>5 DEF IInv, TypeOK, LockInv, AwaitMemory, Files, Free, Closure
  <2>3. TaskInv'
    BY <1>5 DEF IInv, TypeOK, TaskInv, ProgressInv, AwaitMemory, Files, Free, Closure
  <2>4. ProgressInv'
    BY <1>5 DEF IInv, TypeOK, ProgressInv, AwaitMemory, Files, Free, Closure
  <2>5. BuffersOwned'
    BY <1>5 DEF IInv, TypeOK, TaskInv, ProgressInv, BuffersOwned, AwaitMemory, Files, Free, Closure
  <2>6. MemoryInv'
    BY <1>5 DEF IInv, MemoryInv, AllocMonExact, BufferedBytes, AwaitMemory
  <2> QED
    BY <2>1, <2>2, <2>3, <2>4, <2>5, <2>6, Conjuncts
<1>6. CASE Alloc
  <2>1. TypeOK'
    BY NextTypeOK
  <2>2. LockInv'
    BY <1>6 DEF IInv, TypeOK, LockInv, Alloc, Files, Free, Closure
  <2>3. TaskInv'
    BY <1>6 DEF IInv, TypeOK, TaskInv, ProgressInv, Alloc, Files, Free, Closure
  <2>4. ProgressInv'
    BY <1>6 DEF IInv, TypeOK, ProgressInv, Alloc, Files, Free, Closure
  <2>5. BuffersOwned'
    BY <1>6 DEF IInv, TypeOK, TaskInv, ProgressInv, BuffersOwned, Alloc, Files, Free, Closure
  <2>6. MemoryInv'
    BY <1>6, BytesAdd DEF IInv, TypeOK, ProgressInv, TaskInv, BuffersOwned, MemoryInv, AllocMonExact, BufferedBytes, Alloc
  <2> QED
    BY <2>1, <2>2, <2>3, <2>4, <2>5, <2>6, Conjuncts
<1>7. CASE StartRead
  <2>1. TypeOK'
    BY NextTypeOK
  <2>2. LockInv'
    BY <1>7 DEF IInv, TypeOK, LockInv, StartRead, Files, Free, Closure
  <2>3. TaskInv'
    BY <1>7 DEF IInv, TypeOK, TaskInv, ProgressInv, StartRead, Files, Free, Closure
  <2>4. ProgressInv'
    BY <1>7 DEF IInv, TypeOK, ProgressInv, StartRead, Files, Free, Closure
  <2>5. BuffersOwned'
    BY <1>7 DEF IInv, TypeOK, TaskInv, ProgressInv, BuffersOwned, StartRead, Files, Free, Closure
  <2>6. MemoryInv'
    BY <1>7 DEF IInv, MemoryInv, AllocMonExact, BufferedBytes, StartRead
  <2> QED
    BY <2>1, <2>2, <2>3, <2>4, <2>5, <2>6, Conjuncts
<1>8. CASE FinishRead
  <2>1. TypeOK'
    BY NextTypeOK
  <2>2. LockInv'
    BY <1>8 DEF IInv, TypeOK, LockInv, FinishRead, Files, Free, Closure
  <2>3. TaskInv'
    BY <1>8 DEF IInv, TypeOK, TaskInv, ProgressInv, FinishRead, Files, Free, Closure
  <2>4. ProgressInv'
    BY <1>8 DEF IInv, TypeOK, ProgressInv, FinishRead, Files, Free, Closure
  <2>5. BuffersOwned'
    BY <1>8 DEF IInv, TypeOK, TaskInv, ProgressInv, BuffersOwned, FinishRead, Files, Free, Closure
  <2>6. MemoryInv'
    BY <1>8 DEF IInv, MemoryInv, AllocMonExact, BufferedBytes, FinishRead
  <2> QED
    BY <2>1, <2>2, <2>3, <2>4, <2>5, <2>6, Conjuncts
<1>9. CASE FailRead
  <2>0. cur \in bufs =>
           /\ ALLOC_MON - Size[cur] = Cardinality(Bytes(bufs \ {cur}))
           /\ ALLOC_MON - Size[cur] \in Nat
           /\ ALLOC_MON - Size[cur] <= CacheMem
           /\ IsFiniteSet(Bytes(bufs \ {cur}))
    <3>1. SUFFICES ASSUME cur \in bufs
          PROVE  /\ ALLOC_MON - Size[cur] = Cardinality(Bytes(bufs \ {cur}))
                 /\ ALLOC_MON - Size[cur] \in Nat
                 /\ ALLOC_MON - Size[cur] <= CacheMem
                 /\ IsFiniteSet(Bytes(bufs \ {cur}))
      OBVIOUS
    <3>2. bufs \in SUBSET Files /\ Size[cur] \in Nat /\ ALLOC_MON \in Nat
      BY <3>1 DEF IInv, TypeOK
    <3>3. /\ IsFiniteSet(Bytes(bufs))
          /\ ALLOC_MON = Cardinality(Bytes(bufs))
          /\ ALLOC_MON <= CacheMem
      BY DEF IInv, MemoryInv, AllocMonExact, BufferedBytes
    <3>4. /\ IsFiniteSet(Bytes(bufs \ {cur}))
          /\ Cardinality(Bytes(bufs \ {cur})) \in Nat
          /\ Cardinality(Bytes(bufs)) = Cardinality(Bytes(bufs \ {cur})) + Size[cur]
      BY <3>1, <3>2, <3>3, BytesRemove
    <3> QED
      BY <3>2, <3>3, <3>4
  <2>1. TypeOK'
    BY NextTypeOK
  <2>2. LockInv'
    BY <1>9 DEF IInv, TypeOK, LockInv, FailRead, Files, Free, Closure
  <2>3. TaskInv'
    BY <1>9 DEF IInv, TypeOK, TaskInv, ProgressInv, FailRead, Files, Free, Closure
  <2>4. ProgressInv'
    <3>1. /\ pc' = "next" /\ cur' = cur + 1
          /\ skipped' = skipped \cup {cur} /\ hashed' = hashed
      BY <1>9 DEF FailRead
    <3>2. cur \in Nat \ {0} /\ hashed \cup skipped = 1..(cur - 1) /\ hashed \cap skipped = {}
      BY <1>9 DEF FailRead, IInv, ProgressInv, Files
    <3>3. 1..(cur' - 1) = 1..(cur - 1) \cup {cur} /\ cur \notin 1..(cur - 1)
      BY <3>1, <3>2
    <3> QED
      BY <3>1, <3>2, <3>3 DEF ProgressInv
  <2>5. BuffersOwned'
    <3>1. SUFFICES ASSUME NEW i \in Files
          PROVE  i \in bufs' <=> /\ InMemory(i)
                                 /\ \/ pc' = "read" /\ cur' = i
                                    \/ task'[i] \in {"queued", "decode"}
      BY DEF BuffersOwned, InMemory, HugeZipThres
    <3>2. /\ pc = "read" /\ bufs' = bufs \ {cur}
          /\ pc' # "read" /\ task' = task
      BY <1>9 DEF FailRead
    <3>3. task[cur] \in {"queued", "decode"} => cur \notin Files \/ ~InMemory(cur)
      BY <3>2, HugeXorInMemory DEF IInv, TypeOK, TaskInv, ProgressInv
    <3>4. i \in bufs <=> InMemory(i) /\ (cur = i \/ task[i] \in {"queued", "decode"})
      BY <3>2 DEF IInv, BuffersOwned
    <3> QED
      BY <3>2, <3>3, <3>4
  <2>6. MemoryInv'
    BY <1>9, <2>0 DEF IInv, TypeOK, BuffersOwned, TaskInv, MemoryInv, AllocMonExact, BufferedBytes, FailRead
  <2> QED
    BY <2>1, <2>2, <2>3, <2>4, <2>5, <2>6, Conjuncts
<1>10. CASE ShortRead
  <2>0. cur \in bufs =>
           /\ ALLOC_MON - Size[cur] = Cardinality(Bytes(bufs \ {cur}))
           /\ ALLOC_MON - Size[cur] \in Nat
           /\ ALLOC_MON - Size[cur] <= CacheMem
           /\ IsFiniteSet(Bytes(bufs \ {cur}))
    <3>1. SUFFICES ASSUME cur \in bufs
          PROVE  /\ ALLOC_MON - Size[cur] = Cardinality(Bytes(bufs \ {cur}))
                 /\ ALLOC_MON - Size[cur] \in Nat
                 /\ ALLOC_MON - Size[cur] <= CacheMem
                 /\ IsFiniteSet(Bytes(bufs \ {cur}))
      OBVIOUS
    <3>2. bufs \in SUBSET Files /\ Size[cur] \in Nat /\ ALLOC_MON \in Nat
      BY <3>1 DEF IInv, TypeOK
    <3>3. /\ IsFiniteSet(Bytes(bufs))
          /\ ALLOC_MON = Cardinality(Bytes(bufs))
          /\ ALLOC_MON <= CacheMem
      BY DEF IInv, MemoryInv, AllocMonExact, BufferedBytes
    <3>4. /\ IsFiniteSet(Bytes(bufs \ {cur}))
          /\ Cardinality(Bytes(bufs \ {cur})) \in Nat
          /\ Cardinality(Bytes(bufs)) = Cardinality(Bytes(bufs \ {cur})) + Size[cur]
      BY <3>1, <3>2, <3>3, BytesRemove
    <3> QED
      BY <3>2, <3>3, <3>4
  <2>1. TypeOK'
    BY NextTypeOK
  <2>2. LockInv'
    BY <1>10 DEF IInv, TypeOK, LockInv, ShortRead, Files, Free, Closure
  <2>3. TaskInv'
    <3>1. SUFFICES ASSUME NEW i \in Files
          PROVE  /\ task[i] # "none" => i < cur
                 /\ task[i] # "none" => Huge(i) \/ InMemory(i)
                 /\ task[i] \in {"open", "wait", "read"} => Huge(i)
                 /\ task[i] = "decode" => InMemory(i)
                 /\ task[i] \in {"wait", "read"} => left[i] > 0
      BY <1>10 DEF ShortRead, TaskInv, InMemory, Huge, HugeZipThres
    <3>2. pc = "read" /\ cur \in bufs
      BY <1>10 DEF ShortRead
    <3>3. ~Huge(cur)
      BY <3>2, HugeXorInMemory DEF IInv, BuffersOwned, TypeOK
    <3> QED
      BY <3>2, <3>3 DEF IInv, TaskInv
  <2>4. ProgressInv'
    BY <1>10 DEF IInv, TypeOK, ProgressInv, ShortRead, Files, Free, Closure
  <2>5. BuffersOwned'
    <3>1. SUFFICES ASSUME NEW i \in Files
          PROVE  i \in bufs' <=> /\ InMemory(i)
                                 /\ \/ pc' = "read" /\ cur' = i
                                    \/ task'[i] \in {"queued", "decode"}
      BY DEF BuffersOwned, InMemory, HugeZipThres
    <3>2. /\ pc = "read" /\ bufs' = bufs \ {cur}
          /\ pc' # "read" /\ task' = task
      BY <1>10 DEF ShortRead
    <3>3. task[cur] \in {"queued", "decode"} => cur \notin Files \/ ~InMemory(cur)
      BY <3>2, HugeXorInMemory DEF IInv, TypeOK, TaskInv, ProgressInv
    <3>4. i \in bufs <=> InMemory(i) /\ (cur = i \/ task[i] \in {"queued", "decode"})
      BY <3>2 DEF IInv, BuffersOwned
    <3> QED
      BY <3>2, <3>3, <3>4
  <2>6. MemoryInv'
    BY <1>10, <2>0 DEF IInv, TypeOK, BuffersOwned, TaskInv, MemoryInv, AllocMonExact, BufferedBytes, ShortRead
  <2> QED
    BY <2>1, <2>2, <2>3, <2>4, <2>5, <2>6, Conjuncts
<1>11. CASE Commit
  <2>1. TypeOK'
    BY NextTypeOK
  <2>2. LockInv'
    BY <1>11 DEF IInv, TypeOK, LockInv, Commit, Files, Free, Closure
  <2>3. TaskInv'
    BY <1>11 DEF IInv, TypeOK, TaskInv, ProgressInv, Commit, Files, Free, Closure
  <2>4. ProgressInv'
    BY <1>11 DEF IInv, TypeOK, ProgressInv, Commit, Files, Free, Closure
  <2>5. BuffersOwned'
    BY <1>11 DEF IInv, TypeOK, TaskInv, ProgressInv, BuffersOwned, Commit, Files, Free, Closure
  <2>6. MemoryInv'
    BY <1>11 DEF IInv, MemoryInv, AllocMonExact, BufferedBytes, Commit
  <2> QED
    BY <2>1, <2>2, <2>3, <2>4, <2>5, <2>6, Conjuncts
<1>12. ASSUME NEW k \in Files, TaskStart(k) PROVE IInv'
  <2>1. TypeOK'
    BY NextTypeOK
  <2>2. LockInv'
    BY <1>12 DEF IInv, TypeOK, LockInv, TaskStart, Files, Free, Closure
  <2>3. TaskInv'
    BY <1>12 DEF IInv, TypeOK, TaskInv, ProgressInv, TaskStart, Files, Free, Closure
  <2>4. ProgressInv'
    BY <1>12 DEF IInv, TypeOK, ProgressInv, TaskStart, Files, Free, Closure
  <2>5. BuffersOwned'
    BY <1>12 DEF IInv, TypeOK, TaskInv, ProgressInv, BuffersOwned, TaskStart, Files, Free, Closure
  <2>6. MemoryInv'
    BY <1>12 DEF IInv, MemoryInv, AllocMonExact, BufferedBytes, TaskStart
  <2> QED
    BY <2>1, <2>2, <2>3, <2>4, <2>5, <2>6, Conjuncts
<1>13. ASSUME NEW k \in Files, TaskRequest(k) PROVE IInv'
  <2>1. TypeOK'
    BY NextTypeOK
  <2>2. LockInv'
    BY <1>13 DEF IInv, TypeOK, LockInv, TaskRequest, Files, Free, Closure
  <2>3. TaskInv'
    BY <1>13 DEF IInv, TypeOK, TaskInv, ProgressInv, TaskRequest, Files, Free, Closure
  <2>4. ProgressInv'
    BY <1>13 DEF IInv, TypeOK, ProgressInv, TaskRequest, Files, Free, Closure
  <2>5. BuffersOwned'
    BY <1>13 DEF IInv, TypeOK, TaskInv, ProgressInv, BuffersOwned, TaskRequest, Files, Free, Closure
  <2>6. MemoryInv'
    BY <1>13 DEF IInv, MemoryInv, AllocMonExact, BufferedBytes, TaskRequest
  <2> QED
    BY <2>1, <2>2, <2>3, <2>4, <2>5, <2>6, Conjuncts
<1>14. ASSUME NEW k \in Files, TaskLock(k) PROVE IInv'
  <2>1. TypeOK'
    BY NextTypeOK
  <2>2. LockInv'
    BY <1>14 DEF IInv, TypeOK, LockInv, TaskLock, Files, Free, Closure
  <2>3. TaskInv'
    BY <1>14 DEF IInv, TypeOK, TaskInv, ProgressInv, TaskLock, Files, Free, Closure
  <2>4. ProgressInv'
    BY <1>14 DEF IInv, TypeOK, ProgressInv, TaskLock, Files, Free, Closure
  <2>5. BuffersOwned'
    BY <1>14 DEF IInv, TypeOK, TaskInv, ProgressInv, BuffersOwned, TaskLock, Files, Free, Closure
  <2>6. MemoryInv'
    BY <1>14 DEF IInv, MemoryInv, AllocMonExact, BufferedBytes, TaskLock
  <2> QED
    BY <2>1, <2>2, <2>3, <2>4, <2>5, <2>6, Conjuncts
<1>15. ASSUME NEW k \in Files, TaskRead(k) PROVE IInv'
  <2>1. TypeOK'
    BY NextTypeOK
  <2>2. LockInv'
    BY <1>15 DEF IInv, TypeOK, LockInv, TaskRead, Files, Free, Closure
  <2>3. TaskInv'
    BY <1>15 DEF IInv, TypeOK, TaskInv, ProgressInv, TaskRead, Files, Free, Closure
  <2>4. ProgressInv'
    BY <1>15 DEF IInv, TypeOK, ProgressInv, TaskRead, Files, Free, Closure
  <2>5. BuffersOwned'
    BY <1>15 DEF IInv, TypeOK, TaskInv, ProgressInv, BuffersOwned, TaskRead, Files, Free, Closure
  <2>6. MemoryInv'
    BY <1>15 DEF IInv, MemoryInv, AllocMonExact, BufferedBytes, TaskRead
  <2> QED
    BY <2>1, <2>2, <2>3, <2>4, <2>5, <2>6, Conjuncts
<1>16. ASSUME NEW k \in Files, TaskReturn(k) PROVE IInv'
  <2>1. TypeOK'
    BY NextTypeOK
  <2>2. LockInv'
    BY <1>16 DEF IInv, TypeOK, LockInv, TaskReturn, Files, Free, Closure
  <2>3. TaskInv'
    BY <1>16 DEF IInv, TypeOK, TaskInv, ProgressInv, TaskReturn, Files, Free, Closure
  <2>4. ProgressInv'
    BY <1>16 DEF IInv, TypeOK, ProgressInv, TaskReturn, Files, Free, Closure
  <2>5. BuffersOwned'
    BY <1>16 DEF IInv, TypeOK, TaskInv, ProgressInv, BuffersOwned, TaskReturn, Files, Free, Closure
  <2>6. MemoryInv'
    BY <1>16 DEF IInv, MemoryInv, AllocMonExact, BufferedBytes, TaskReturn
  <2> QED
    BY <2>1, <2>2, <2>3, <2>4, <2>5, <2>6, Conjuncts
<1>17. ASSUME NEW k \in Files, TaskDrop(k) PROVE IInv'
  <2>0. k \in bufs =>
           /\ ALLOC_MON - Size[k] = Cardinality(Bytes(bufs \ {k}))
           /\ ALLOC_MON - Size[k] \in Nat
           /\ ALLOC_MON - Size[k] <= CacheMem
           /\ IsFiniteSet(Bytes(bufs \ {k}))
    <3>1. SUFFICES ASSUME k \in bufs
          PROVE  /\ ALLOC_MON - Size[k] = Cardinality(Bytes(bufs \ {k}))
                 /\ ALLOC_MON - Size[k] \in Nat
                 /\ ALLOC_MON - Size[k] <= CacheMem
                 /\ IsFiniteSet(Bytes(bufs \ {k}))
      OBVIOUS
    <3>2. bufs \in SUBSET Files /\ Size[k] \in Nat /\ ALLOC_MON \in Nat
      BY <3>1 DEF IInv, TypeOK
    <3>3. /\ IsFiniteSet(Bytes(bufs))
          /\ ALLOC_MON = Cardinality(Bytes(bufs))
          /\ ALLOC_MON <= CacheMem
      BY DEF IInv, MemoryInv, AllocMonExact, BufferedBytes
    <3>4. /\ IsFiniteSet(Bytes(bufs \ {k}))
          /\ Cardinality(Bytes(bufs \ {k})) \in Nat
          /\ Cardinality(Bytes(bufs)) = Cardinality(Bytes(bufs \ {k})) + Size[k]
      BY <3>1, <3>2, <3>3, BytesRemove
    <3> QED
      BY <3>2, <3>3, <3>4
  <2>1. TypeOK'
    BY NextTypeOK
  <2>2. LockInv'
    BY <1>17 DEF IInv, TypeOK, LockInv, TaskDrop, Files, Free, Closure
  <2>3. TaskInv'
    BY <1>17 DEF IInv, TypeOK, TaskInv, ProgressInv, TaskDrop, Files, Free, Closure
  <2>4. ProgressInv'
    BY <1>17 DEF IInv, TypeOK, ProgressInv, TaskDrop, Files, Free, Closure
  <2>5. BuffersOwned'
    <3>1. SUFFICES ASSUME NEW i \in Files
          PROVE  i \in bufs' <=> /\ InMemory(i)
                                 /\ \/ pc' = "read" /\ cur' = i
                                    \/ task'[i] \in {"queued", "decode"}
      BY DEF BuffersOwned, InMemory, HugeZipThres
    <3>2. /\ bufs' = bufs \ {k} /\ pc' = pc /\ cur' = cur
          /\ task[k] = "decode" /\ task'[k] = "done"
          /\ i # k => task'[i] = task[i]
      BY <1>17 DEF TaskDrop, IInv, TypeOK
    <3>3. pc = "read" => cur # k
      BY <3>2, HugeXorInMemory DEF IInv, TypeOK, TaskInv
    <3>4. i \in bufs <=> /\ InMemory(i)
                         /\ \/ pc = "read" /\ cur = i
                            \/ task[i] \in {"queued", "decode"}
      BY DEF IInv, BuffersOwned
    <3> QED
      BY <3>2, <3>3, <3>4
  <2>6. MemoryInv'
    <3>1. k \in bufs
      BY <1>17 DEF IInv, BuffersOwned, TaskInv, TaskDrop
    <3>2. Size[k] \in Nat /\ ALLOC_MON \in Nat
      BY DEF IInv, TypeOK
    <3>3. pc = "alloc" => Size[cur] \in Nat
      BY DEF IInv, ProgressInv
    <3> QED
      BY <1>17, <2>0, <3>1, <3>2, <3>3 DEF IInv, MemoryInv, AllocMonExact, BufferedBytes, TaskDrop
  <2> QED
    BY <2>1, <2>2, <2>3, <2>4, <2>5, <2>6, Conjuncts
<1>18. CASE UNCHANGED vars
  BY <1>18 DEF vars, IInv, TypeOK, LockInv, TaskInv, ProgressInv, BuffersOwned, MemoryInv, AllocMonExact, BufferedBytes, Files, Free, Closure
<1> QED
  BY <1>1, <1>2, <1>3, <1>4, <1>5, <1>6, <1>7, <1>8, <1>9, <1>10, <1>11, <1>12, <1>13, <1>14, <1>15, <1>16, <1>17, <1>18 DEF Next, ScopeClosure, Task, Finished

-----------------------------------------------------------------------------
(* The reachable states of hash_files satisfy the inductive invariant.     *)
THEOREM Invariance == Spec => []IInv
<1>1. Init => IInv
  BY InitIInv
<1>2. IInv /\ [Next]_vars => IInv'
  BY NextIInv
<1> QED
  BY <1>1, <1>2, PTL DEF Spec

(* Type correctness: in particular ALLOC_MON never wraps below zero and a  *)
(* task never reads on after its last read.                                *)
THEOREM TypeCorrect == Spec => []TypeOK
<1>1. IInv => TypeOK
  BY DEF IInv
<1> QED
  BY <1>1, Invariance, PTL

(* Whatever the mix of files and the number of workers, two threads never  *)
(* read the disk at the same time.                                         *)
THEOREM DiskReadExclusive == Spec => []OneDiskReader
<1>1. IInv => OneDiskReader
  <2> DEFINE R == {i \in Files : task[i] = "read"} \cup (IF pc = "read" THEN {Closure} ELSE {})
  <2> SUFFICES ASSUME IInv PROVE Cardinality(R) <= 1
    BY DEF OneDiskReader
  <2>1. R \in SUBSET {read_mutex}
    BY DEF IInv, LockInv
  <2>2. IsFiniteSet({read_mutex}) /\ Cardinality({read_mutex}) = 1
    BY FS_Singleton
  <2> QED
    BY <2>1, <2>2, FS_Subset
<1> QED
  BY <1>1, Invariance, PTL

(* The archives kept in memory never need more than --archive-cache-mem,   *)
(* and ALLOC_MON is exactly what they need.                                *)
THEOREM MemoryLimit == Spec => [](MemoryBounded /\ AllocMonExact)
<1>1. IInv => MemoryBounded /\ AllocMonExact
  BY DEF IInv, MemoryInv, MemoryBounded, AllocMonExact
<1> QED
  BY <1>1, Invariance, PTL

(* Every buffer that is accounted belongs to the closure that fills it or  *)
(* to one task that will drop it.                                          *)
THEOREM BuffersAccounted == Spec => []BuffersOwned
<1>1. IInv => BuffersOwned
  BY DEF IInv
<1> QED
  BY <1>1, Invariance, PTL

(* When pool.scope returns, nothing is left behind and every candidate is  *)
(* hashed or reported.                                                     *)
THEOREM CleanReturn == Spec => []NothingLeftBehind
<1>1. IInv => NothingLeftBehind
  <2> SUFFICES ASSUME IInv, ScopeDone
               PROVE  /\ read_mutex = Free
                      /\ ALLOC_MON = 0
                      /\ pc = "returned" => hashed \cup skipped = Files /\ hashed \cap skipped = {}
    BY DEF NothingLeftBehind
  <2>1. read_mutex = Free
    <3>1. read_mutex # Closure /\ \A i \in Files : read_mutex # i
      BY DEF IInv, LockInv, ScopeDone, ClosureReturned
    <3>2. read_mutex \in 0..(N + 1)
      BY DEF IInv, TypeOK
    <3> QED
      BY <3>1, <3>2, ConstantsAssumption DEF Files, Free, Closure
  <2>2. bufs = {}
    BY DEF IInv, TypeOK, BuffersOwned, ScopeDone, ClosureReturned
  <2>3. ALLOC_MON = 0
    BY <2>2, BytesOfNone DEF IInv, MemoryInv, AllocMonExact, BufferedBytes
  <2>4. pc = "returned" => hashed \cup skipped = Files /\ hashed \cap skipped = {}
    BY ConstantsAssumption DEF IInv, ProgressInv, Files
  <2> QED
    BY <2>1, <2>3, <2>4
<1> QED
  BY <1>1, Invariance, PTL

(* The deadlock of a pool filled with huge archives needs at least         *)
(* Threads - 1 of them: below that, a closure that sleeps in               *)
(* AllocMonBuf::new always has an archive in memory that is being decoded  *)
(* or that a worker can take.                                              *)
THEOREM SleeperProgress == Spec => []SleeperIsWoken
<1>1. IInv => SleeperIsWoken
  <2> SUFFICES ASSUME IInv, HugeFit, pc = "await", ALLOC_MON + Size[cur] > CacheMem,
                      \A i \in bufs : task[i] # "decode"
               PROVE  \E i \in bufs : task[i] = "queued" /\ BusyWorkers < Threads
    BY DEF SleeperIsWoken
  <2> DEFINE H == {i \in Files : Huge(i)}
  <2>1. cur \in Files /\ InMemory(cur) /\ Size[cur] \in Nat /\ ALLOC_MON \in Nat
    BY ConstantsAssumption DEF IInv, TypeOK, ProgressInv
  <2>2. Size[cur] <= CacheMem
    BY <2>1, ThresholdType, ConstantsAssumption DEF InMemory
  <2>3. ALLOC_MON # 0
    BY <2>1, <2>2, ConstantsAssumption
  <2>4. bufs # {}
    BY <2>3, BytesOfNone DEF IInv, MemoryInv, AllocMonExact, BufferedBytes
  <2>5. PICK i \in bufs : task[i] = "queued"
    BY <2>4 DEF IInv, TypeOK, BuffersOwned
  <2>6. \A j \in Files : task[j] # "decode"
    BY DEF IInv, BuffersOwned, TaskInv
  <2>7. Running \in SUBSET H
    BY <2>6 DEF IInv, TaskInv, Running
  <2>8. IsFiniteSet(H)
    <3>1. IsFiniteSet(Files)
      BY FS_Interval, ConstantsAssumption DEF Files
    <3> QED
      BY <3>1, FS_Subset
  <2>9. /\ Cardinality(Running) <= Cardinality(H)
        /\ Cardinality(Running) \in Nat
        /\ Cardinality(H) \in Nat
    BY <2>7, <2>8, FS_Subset, FS_CardinalityType
  <2>10. BusyWorkers = Cardinality(Running) + 1
    BY DEF BusyWorkers, ClosureReturned
  <2>11. Cardinality(H) + 1 < Threads
    BY DEF HugeFit
  <2>12. BusyWorkers < Threads
    <3> HIDE DEF H
    <3> QED
      BY <2>9, <2>10, <2>11, ConstantsAssumption
  <2> QED
    BY <2>5, <2>12
<1> QED
  BY <1>1, Invariance, PTL
=============================================================================
