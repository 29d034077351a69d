----------------------------- MODULE STMProofs ------------------------------
(***************************************************************************)
(* Proofs about STM for every set of threads, words and locks, and every   *)
(* function from words to locks; and, when no two words in use share a     *)
(* lock, that STM implements AtomicMemory.                                 *)
(***************************************************************************)
EXTENDS STMAtomic, TLAPS

-----------------------------------------------------------------------------
(* Types *)

LEMMA InitTypeOK == Init => TypeOK
  BY LockOfAssumption, HeapAssumption, BoundAssumption, NullAssumption
  DEF Init, TypeOK, EmptyLog, Word

\* Giving memory back keeps mem and live in their domains.
LEMMA ReleaseType ==
  ASSUME TypeOK, NEW B \in SUBSET Heap, Release(B)
  PROVE  mem' \in [Addrs -> Vals] /\ live' \subseteq Heap
  BY HeapAssumption DEF TypeOK, Release

\* Logging one address keeps a log in its domain.
LEMMA LogType ==
  ASSUME NEW S, NEW log \in [Threads -> [Addrs -> S]],
         NEW t \in Threads, NEW a \in Addrs, NEW e \in S
  PROVE  [log EXCEPT ![t][a] = e] \in [Threads -> [Addrs -> S]]
  OBVIOUS

\* SetWriteBit and ClearWriteBit leave a lock word.
LEMMA BitType ==
  ASSUME TypeOK, NEW l \in Locks, NEW b \in BOOLEAN
  PROVE  [meta EXCEPT ![l].bit = b] \in [Locks -> Word]
  BY DEF TypeOK, Word

LEMMA StepTypeOK ==
  ASSUME TypeOK, NEW t \in Threads, Step(t)
  PROVE  TypeOK'
<1> USE DEF shared, logs, Goto
<1>1. CASE Begin(t)
  <2>1. begun' \in 0..MaxTx
    BY <1>1, BoundAssumption DEF Begin, TypeOK
  <2>2. depth[t] = 0
    BY <1>1 DEF Begin, TypeOK
  <2>3. depth' \in [Threads -> Nat] /\ depth'[t] = 1
    BY <1>1, <2>2 DEF Begin, TypeOK
  <2> QED
    BY <1>1, <2>1, <2>3 DEF Begin, TypeOK
<1>2. CASE BeginNested(t)
  <2>1. depth[t] \in Nat /\ depth[t] # 0
    BY <1>2 DEF BeginNested, TypeOK
  <2>2. depth[t] + 1 \in Nat /\ depth[t] + 1 # 0
    BY <2>1, BoundAssumption
  <2> QED
    BY <1>2, <2>2 DEF BeginNested, TypeOK
<1>3. CASE CommitNested(t)
  <2>1. depth[t] \in Nat /\ depth[t] > 1
    BY <1>3 DEF CommitNested, TypeOK
  <2>2. depth[t] - 1 \in Nat /\ depth[t] - 1 # 0
    BY <2>1, BoundAssumption
  <2> QED
    BY <1>3, <2>2 DEF CommitNested, TypeOK
<1>4. CASE Abort(t)
  BY <1>4 DEF Abort, Throw, TypeOK
<1>5. ASSUME NEW a \in Addrs, OpenRead(t, a)
      PROVE  TypeOK'
  <2>1. readSet \in [Threads -> [Addrs -> Word \cup {NoEntry}]]
        /\ meta[LockOf[a]] \in Word
    BY LockOfAssumption DEF TypeOK
  <2>2. \/ readSet' = readSet
        \/ readSet' = [readSet EXCEPT ![t][a] = meta[LockOf[a]]]
    BY <1>5 DEF OpenRead, OpenReadHit, OpenReadLog
  <2>3. readSet' \in [Threads -> [Addrs -> Word \cup {NoEntry}]]
    BY <2>1, <2>2
  <2> QED
    BY <1>5, <2>3 DEF OpenRead, TypeOK
<1>6. ASSUME NEW a \in Addrs, LoadRefused(t, a)
      PROVE  TypeOK'
  BY <1>6 DEF LoadRefused, Throw, TypeOK
<1>7. CASE ReadValue(t)
  BY <1>7 DEF ReadValue, TypeOK
<1>8. ASSUME NEW a \in Addrs, NEW v \in Vals, OpenWrite(t, a, v)
      PROVE  TypeOK'
  <2>1. writeSet \in [Threads -> [Addrs -> Vals \cup {NoVal, NoEntry}]]
        /\ mem[a] \in Vals /\ LockOf[a] \in Locks
        /\ meta \in [Locks -> Word]
    BY LockOfAssumption DEF TypeOK
  <2>2. \/ writeSet' = writeSet /\ meta' = meta
        \/ /\ writeSet' = [writeSet EXCEPT ![t][a] = mem[a]]
           /\ meta' = [meta EXCEPT ![LockOf[a]].bit = TRUE]
    BY <1>8 DEF OpenWrite, OpenWriteHit, OpenWriteLog
  <2>3. writeSet' \in [Threads -> [Addrs -> Vals \cup {NoVal, NoEntry}]]
    BY <2>1, <2>2, SMTT(30)
  <2>4. meta' \in [Locks -> Word]
    BY <2>1, <2>2, ZenonT(60) DEF Word
  <2> QED
    BY <1>8, <2>3, <2>4, ZenonT(60) DEF OpenWrite, TypeOK
<1>9. ASSUME NEW a \in Addrs, StoreRefused(t, a)
      PROVE  TypeOK'
  BY <1>9 DEF StoreRefused, Throw, TypeOK
<1>10. CASE WriteValue(t)
  BY <1>10 DEF WriteValue, TypeOK
<1>11. ASSUME NEW a \in Addrs, NEW v \in Vals, Alloc(t, a, v)
       PROVE  TypeOK'
  BY <1>11 DEF Alloc, TypeOK
<1>12. CASE AllocFails(t)
  BY <1>12 DEF AllocFails, Throw, TypeOK
<1>13. ASSUME NEW a \in Addrs, Free(t, a)
       PROVE  TypeOK'
  <2>1. writeSet \in [Threads -> [Addrs -> Vals \cup {NoVal, NoEntry}]]
        /\ LockOf[a] \in Locks
        /\ meta \in [Locks -> Word]
    BY LockOfAssumption DEF TypeOK
  <2>2. \/ writeSet' = writeSet /\ meta' = meta
        \/ /\ writeSet' = [writeSet EXCEPT ![t][a] = NoVal]
           /\ meta' = [meta EXCEPT ![LockOf[a]].bit = TRUE]
    BY <1>13 DEF Free, OpenWriteHit, OpenWriteLog
  <2>3. writeSet' \in [Threads -> [Addrs -> Vals \cup {NoVal, NoEntry}]]
    BY <2>1, <2>2
  <2>4. meta' \in [Locks -> Word]
    BY <2>1, <2>2, ZenonT(60) DEF Word
  <2> QED
    BY <1>13, <2>3, <2>4 DEF Free, TypeOK
<1>14. ASSUME NEW a \in Addrs, FreeRefused(t, a)
       PROVE  TypeOK'
  BY <1>14 DEF FreeRefused, Throw, TypeOK
<1>15. CASE ValidateOk(t)
  BY <1>15 DEF ValidateOk, TypeOK
<1>16. CASE ValidateFails(t)
  BY <1>16 DEF ValidateFails, Throw, TypeOK
<1>17. CASE ResetCommit(t)
  <2>1. mem' \in [Addrs -> Vals] /\ live' \subseteq Heap
    BY <1>17, ReleaseType DEF ResetCommit, TypeOK
  <2>2. meta' \in [Locks -> Word]
    BY <1>17 DEF ResetCommit, Word, TypeOK
  <2>3. /\ EmptyLog \in [Addrs -> Word \cup {NoEntry}]
        /\ EmptyLog \in [Addrs -> Vals \cup {NoVal, NoEntry}]
    BY DEF EmptyLog
  <2>4. /\ readSet' \in [Threads -> [Addrs -> Word \cup {NoEntry}]]
        /\ writeSet' \in [Threads -> [Addrs -> Vals \cup {NoVal, NoEntry}]]
        /\ allocations' \in [Threads -> SUBSET Heap]
        /\ frees' \in [Threads -> SUBSET Heap]
    BY <1>17, <2>3 DEF ResetCommit, ClearLogs, TypeOK
  <2>5. depth[t] = 1
    BY <1>17 DEF ResetCommit, TypeOK
  <2>6. depth' \in [Threads -> Nat] /\ depth'[t] = 0
    BY <1>17, <2>5 DEF ResetCommit, TypeOK
  <2> QED
    BY <1>17, <2>1, <2>2, <2>4, <2>6 DEF ResetCommit, TypeOK
<1>18. CASE ResetAbort(t)
  BY <1>18 DEF ResetAbort, TypeOK
<1>19. ASSUME NEW a \in Addrs, Undo(t, a)
       PROVE  TypeOK'
  <2>1. /\ LockOf[a] \in Locks
        /\ writeSet[t][a] \in Vals \cup {NoVal}
        /\ writeSet \in [Threads -> [Addrs -> Vals \cup {NoVal, NoEntry}]]
        /\ mem \in [Addrs -> Vals]
    BY <1>19, LockOfAssumption DEF Undo, WrittenBy, TypeOK
  <2>2. writeSet' = [writeSet EXCEPT ![t][a] = NoEntry]
    BY <1>19 DEF Undo
  <2>3. writeSet' \in [Threads -> [Addrs -> Vals \cup {NoVal, NoEntry}]]
    BY <2>1, <2>2
  <2>4. meta' \in [Locks -> Word]
    BY <1>19, <2>1, BitType DEF Undo
  <2>5. mem' \in [Addrs -> Vals]
    BY <1>19, <2>1 DEF Undo
  <2> QED
    BY <1>19, <2>3, <2>4, <2>5 DEF Undo, TypeOK
<1>20. CASE Retry(t)
  BY <1>20, ReleaseType DEF Retry, ClearLogs, EmptyLog, TypeOK
<1> QED
  BY <1>1, <1>2, <1>3, <1>4, <1>5, <1>6, <1>7, <1>8, <1>9, <1>10, <1>11,
     <1>12, <1>13, <1>14, <1>15, <1>16, <1>17, <1>18, <1>19, <1>20 DEF Step

\* Every variable keeps its type, for every choice of the constants.
THEOREM TypeCorrect == Spec => []TypeOK
<1>1. TypeOK /\ [Next]_vars => TypeOK'
  <2> SUFFICES ASSUME TypeOK, [Next]_vars
               PROVE  TypeOK'
    OBVIOUS
  <2>1. CASE \E t \in Threads : Step(t)
    BY <2>1, StepTypeOK
  <2>2. CASE UNCHANGED vars
    BY <2>2 DEF TypeOK, vars, shared, logs
  <2> QED
    BY <2>1, <2>2 DEF Next, Finished
<1> QED
  BY InitTypeOK, <1>1, PTL DEF Spec

-----------------------------------------------------------------------------
(* Locks and logs *)

LEMMA InitLocks == Init => LocksMatchLogs
  BY DEF Init, LocksMatchLogs, BitsMatchLogs, LogsDisjoint, StoresOwned, Owns,
         WrittenBy, EmptyLog

\* A step that leaves the lock table and the write logs alone and opens no
\* word for writing.
LEMMA LocksFrame ==
  ASSUME LocksMatchLogs, UNCHANGED <<meta, writeSet>>,
         \A u \in Threads : pc'[u] = "write" =>
             pc[u] = "write" /\ target'[u] = target[u]
  PROVE  LocksMatchLogs'
  BY DEF LocksMatchLogs, BitsMatchLogs, LogsDisjoint, StoresOwned, Owns,
         WrittenBy

\* A new entry behind a free lock: the log owns the lock now, and nothing
\* else changes hands.
LEMMA LogLocks ==
  ASSUME TypeOK, BitsMatchLogs, LogsDisjoint,
         NEW t \in Threads, NEW a \in Addrs, NEW saved \in Vals \cup {NoVal},
         OpenWriteLog(t, a, saved)
  PROVE  /\ BitsMatchLogs' /\ LogsDisjoint'
         /\ Owns(t, LockOf[a])'
         /\ \A u \in Threads, l \in Locks : Owns(u, l) => Owns(u, l)'
<1>1. saved # NoEntry /\ LockOf[a] \in Locks
  BY NullAssumption, LockOfAssumption
<1>2. \A u \in Threads : WrittenBy(u)' =
          IF u = t THEN WrittenBy(t) \cup {a} ELSE WrittenBy(u)
  BY <1>1 DEF OpenWriteLog, WrittenBy, TypeOK
<1>3. \A u \in Threads : ~Owns(u, LockOf[a])
  BY <1>1 DEF OpenWriteLog, BitsMatchLogs
<1>4. \A l \in Locks : meta'[l].bit <=> (l = LockOf[a] \/ meta[l].bit)
  BY <1>1 DEF OpenWriteLog, TypeOK, Word
<1>5. \A u \in Threads, l \in Locks :
          Owns(u, l)' <=> Owns(u, l) \/ (u = t /\ l = LockOf[a])
  BY <1>2 DEF Owns
<1>6. BitsMatchLogs'
  BY <1>4, <1>5 DEF BitsMatchLogs
<1>7. LogsDisjoint'
  BY <1>2, <1>3 DEF LogsDisjoint, Owns
<1> QED
  BY <1>1, <1>5, <1>6, <1>7

\* reset(true) empties t's log and clears exactly the bits it owned.
LEMMA CommitLocks ==
  ASSUME TypeOK, LocksMatchLogs, NEW t \in Threads, ResetCommit(t)
  PROVE  LocksMatchLogs'
<1>1. \A u \in Threads : WrittenBy(u)' = IF u = t THEN {} ELSE WrittenBy(u)
  BY DEF ResetCommit, ClearLogs, WrittenBy, TypeOK, EmptyLog
<1>2. \A l \in Locks : meta'[l].bit <=> meta[l].bit /\ ~Owns(t, l)
  BY DEF ResetCommit, TypeOK, Word
<1>3. \A u \in Threads, l \in Locks : Owns(u, l)' <=> Owns(u, l) /\ u # t
  BY <1>1 DEF Owns
<1>4. \A u \in Threads, l \in Locks : Owns(u, l) /\ Owns(t, l) => u = t
  BY DEF LocksMatchLogs, LogsDisjoint, Owns
<1>5. BitsMatchLogs'
  BY <1>2, <1>3, <1>4 DEF LocksMatchLogs, BitsMatchLogs
<1>6. LogsDisjoint'
  BY <1>1 DEF LocksMatchLogs, LogsDisjoint
<1>7. StoresOwned'
  <2> SUFFICES ASSUME NEW u \in Threads, pc'[u] = "write"
               PROVE  Owns(u, LockOf[target[u]])'
    BY DEF StoresOwned
  <2>1. u # t /\ pc[u] = "write" /\ target' = target
    BY DEF ResetCommit, Goto, TypeOK
  <2>2. Owns(u, LockOf[target[u]])
    BY <2>1 DEF LocksMatchLogs, StoresOwned
  <2> QED
    BY <2>1, <2>2, <1>1 DEF Owns
<1> QED
  BY <1>5, <1>6, <1>7 DEF LocksMatchLogs

\* One iteration of reset(false) drops an entry and clears its bit; no other
\* entry was behind it.
LEMMA UndoLocks ==
  ASSUME TypeOK, LocksMatchLogs, NEW t \in Threads, NEW a \in Addrs, Undo(t, a)
  PROVE  LocksMatchLogs'
<1>1. \A u \in Threads : WrittenBy(u)' =
          IF u = t THEN WrittenBy(t) \ {a} ELSE WrittenBy(u)
  BY DEF Undo, WrittenBy, TypeOK
<1>2. \A l \in Locks : meta'[l].bit <=> meta[l].bit /\ l # LockOf[a]
  BY LockOfAssumption DEF Undo, TypeOK, Word
<1>3. a \in WrittenBy(t)
  BY DEF Undo
<1>4. \A u \in Threads, l \in Locks : Owns(u, l)' <=> Owns(u, l) /\ l # LockOf[a]
  BY <1>1, <1>3 DEF Owns, LocksMatchLogs, LogsDisjoint
<1>5. BitsMatchLogs'
  BY <1>2, <1>4 DEF LocksMatchLogs, BitsMatchLogs
<1>6. LogsDisjoint'
  BY <1>1 DEF LocksMatchLogs, LogsDisjoint
<1>7. StoresOwned'
  <2> SUFFICES ASSUME NEW u \in Threads, pc'[u] = "write"
               PROVE  Owns(u, LockOf[target[u]])'
    BY DEF StoresOwned
  <2>1. pc[t] = "undo" /\ pc' = pc /\ target' = target
    BY DEF Undo
  <2>2. u # t /\ Owns(u, LockOf[target[u]])
    BY <2>1 DEF LocksMatchLogs, StoresOwned
  <2> QED
    BY <2>1, <2>2, <1>1 DEF Owns
<1> QED
  BY <1>5, <1>6, <1>7 DEF LocksMatchLogs

\* The second half of reset(false): t's log is already empty.
LEMMA RetryLocks ==
  ASSUME TypeOK, LocksMatchLogs, NEW t \in Threads, Retry(t)
  PROVE  LocksMatchLogs'
<1>1. \A u \in Threads : WrittenBy(u)' = WrittenBy(u)
  BY DEF Retry, ClearLogs, WrittenBy, TypeOK, EmptyLog
<1>2. \A u \in Threads : pc'[u] = "write" => pc[u] = "write"
  BY DEF Retry, Goto, TypeOK
<1>3. meta' = meta /\ target' = target
  BY DEF Retry
<1> QED
  BY <1>1, <1>2, <1>3
  DEF LocksMatchLogs, BitsMatchLogs, LogsDisjoint, StoresOwned, Owns

LEMMA StoreLocks ==
  ASSUME TypeOK, LocksMatchLogs, NEW t \in Threads,
         NEW a \in Addrs, NEW v \in Vals, OpenWrite(t, a, v)
  PROVE  LocksMatchLogs'
<1>1. mem[a] \in Vals \cup {NoVal}
  BY DEF TypeOK
<1>2. \A u \in Threads \ {t} : pc'[u] = pc[u] /\ target'[u] = target[u]
  BY DEF OpenWrite, Goto, TypeOK
<1>3. target'[t] = a
  BY DEF OpenWrite, TypeOK
<1>4. CASE OpenWriteHit(t, a)
  <2>1. Owns(t, LockOf[a])
    BY <1>4 DEF OpenWriteHit, Owns
  <2>2. meta' = meta /\ writeSet' = writeSet
    BY <1>4 DEF OpenWriteHit
  <2> QED
    BY <2>1, <2>2, <1>2, <1>3
    DEF LocksMatchLogs, BitsMatchLogs, LogsDisjoint, StoresOwned, Owns,
        WrittenBy
<1>5. CASE OpenWriteLog(t, a, mem[a])
  <2>1. /\ BitsMatchLogs' /\ LogsDisjoint' /\ Owns(t, LockOf[a])'
        /\ \A u \in Threads, l \in Locks : Owns(u, l) => Owns(u, l)'
    BY <1>1, <1>5, LogLocks DEF LocksMatchLogs
  <2>2. ASSUME NEW u \in Threads, (pc[u] = "write")'
        PROVE  Owns(u, LockOf[target[u]])'
    <3>1. CASE u = t
      BY <3>1, <2>1, <1>3 DEF Owns
    <3>2. CASE u # t
      <4>1. Owns(u, LockOf[target[u]]) /\ LockOf[target[u]] \in Locks
        BY <3>2, <2>2, <1>2, LockOfAssumption
        DEF LocksMatchLogs, StoresOwned, TypeOK
      <4> QED
        BY <4>1, <2>1, <3>2, <1>2 DEF Owns
    <3> QED
      BY <3>1, <3>2
  <2> QED
    BY <2>1, <2>2 DEF LocksMatchLogs, StoresOwned
<1> QED
  BY <1>4, <1>5 DEF OpenWrite

LEMMA FreeLocks ==
  ASSUME TypeOK, LocksMatchLogs, NEW t \in Threads, NEW a \in Addrs, Free(t, a)
  PROVE  LocksMatchLogs'
<1>1. pc' = pc /\ target' = target
  BY DEF Free
<1>2. CASE OpenWriteHit(t, a)
  BY <1>1, <1>2, LocksFrame DEF OpenWriteHit
<1>3. CASE OpenWriteLog(t, a, NoVal)
  <2>1. /\ BitsMatchLogs' /\ LogsDisjoint'
        /\ \A u \in Threads, l \in Locks : Owns(u, l) => Owns(u, l)'
    BY <1>3, LogLocks DEF LocksMatchLogs
  <2>2. ASSUME NEW u \in Threads, (pc[u] = "write")'
        PROVE  Owns(u, LockOf[target[u]])'
    <3>1. Owns(u, LockOf[target[u]]) /\ LockOf[target[u]] \in Locks
      BY <2>2, <1>1, LockOfAssumption DEF LocksMatchLogs, StoresOwned, TypeOK
    <3> QED
      BY <3>1, <2>1, <1>1 DEF Owns
  <2> QED
    BY <2>1, <2>2 DEF LocksMatchLogs, StoresOwned
<1> QED
  BY <1>2, <1>3 DEF Free

LEMMA StepLocks ==
  ASSUME TypeOK, LocksMatchLogs, NEW t \in Threads, Step(t)
  PROVE  LocksMatchLogs'
<1> USE DEF shared, logs, Goto, Throw
<1>1. CASE Begin(t)
  BY <1>1, LocksFrame DEF Begin, TypeOK
<1>2. CASE BeginNested(t) \/ CommitNested(t)
  BY <1>2, LocksFrame DEF BeginNested, CommitNested
<1>3. CASE Abort(t) \/ AllocFails(t) \/ ValidateFails(t)
  BY <1>3, LocksFrame DEF Abort, AllocFails, ValidateFails, TypeOK
<1>4. ASSUME NEW a \in Addrs, OpenRead(t, a)
      PROVE  LocksMatchLogs'
  BY <1>4, LocksFrame DEF OpenRead, TypeOK
<1>5. ASSUME NEW a \in Addrs,
             LoadRefused(t, a) \/ StoreRefused(t, a) \/ FreeRefused(t, a)
      PROVE  LocksMatchLogs'
  BY <1>5, LocksFrame DEF LoadRefused, StoreRefused, FreeRefused, TypeOK
<1>6. CASE ReadValue(t) \/ WriteValue(t)
  BY <1>6, LocksFrame DEF ReadValue, WriteValue, TypeOK
<1>7. ASSUME NEW a \in Addrs, NEW v \in Vals, Alloc(t, a, v)
      PROVE  LocksMatchLogs'
  BY <1>7, LocksFrame DEF Alloc
<1>8. CASE ValidateOk(t) \/ ResetAbort(t)
  BY <1>8, LocksFrame DEF ValidateOk, ResetAbort, TypeOK
<1> QED
  BY <1>1, <1>2, <1>3, <1>4, <1>5, <1>6, <1>7, <1>8, StoreLocks, FreeLocks,
     CommitLocks, UndoLocks, RetryLocks DEF Step

\* At every instant a set write bit stands for exactly one entry of exactly
\* one undo log, whatever the function from words to locks.
THEOREM LocksCorrect == Spec => []LocksMatchLogs
<1>1. TypeOK /\ LocksMatchLogs /\ [Next]_vars => LocksMatchLogs'
  <2> SUFFICES ASSUME TypeOK, LocksMatchLogs, [Next]_vars
               PROVE  LocksMatchLogs'
    OBVIOUS
  <2>1. CASE \E t \in Threads : Step(t)
    BY <2>1, StepLocks
  <2>2. CASE UNCHANGED vars
    BY <2>2, LocksFrame DEF vars, shared, logs
  <2> QED
    BY <2>1, <2>2 DEF Next, Finished
<1> QED
  BY InitLocks, TypeCorrect, <1>1, PTL DEF Spec

-----------------------------------------------------------------------------
(* Steps *)

\* A word of static data behind a free lock keeps its value in every step.
LEMMA StepUnlockedStable ==
  ASSUME TypeOK, LocksMatchLogs, NEW t \in Threads, Step(t),
         NEW a \in Addrs \ Heap, ~meta[LockOf[a]].bit
  PROVE  mem'[a] = mem[a]
<1> USE DEF shared
<1>1. \A u \in Threads : ~Owns(u, LockOf[a])
  BY LockOfAssumption DEF LocksMatchLogs, BitsMatchLogs
<1>2. CASE WriteValue(t)
  <2>1. Owns(t, LockOf[target[t]])
    BY <1>2 DEF WriteValue, LocksMatchLogs, StoresOwned
  <2>2. target[t] # a
    BY <2>1, <1>1
  <2> QED
    BY <1>2, <2>2 DEF WriteValue, TypeOK
<1>3. ASSUME NEW b \in Addrs, NEW v \in Vals, Alloc(t, b, v)
      PROVE  mem'[a] = mem[a]
  BY <1>3 DEF Alloc, TypeOK
<1>4. CASE ResetCommit(t)
  BY <1>4 DEF ResetCommit, Release, TypeOK
<1>5. CASE Retry(t)
  BY <1>5 DEF Retry, Release, TypeOK
<1>6. ASSUME NEW b \in Addrs, Undo(t, b)
      PROVE  mem'[a] = mem[a]
  <2>1. b # a
    BY <1>6, <1>1 DEF Undo, Owns
  <2> QED
    BY <1>6, <2>1 DEF Undo, TypeOK
<1> QED
  BY <1>2, <1>3, <1>4, <1>5, <1>6
  DEF Step, Begin, BeginNested, CommitNested, Abort, Throw, OpenRead,
      LoadRefused, ReadValue, OpenWrite, StoreRefused, AllocFails, Free,
      FreeRefused, ValidateOk, ValidateFails, ResetAbort

\* Static data changes behind a write lock only.
THEOREM UnlockedStable == Spec => UnlockedWordsStable
<1>1. TypeOK /\ LocksMatchLogs /\ [Next]_vars
      => [\A a \in Addrs \ Heap : ~meta[LockOf[a]].bit => mem'[a] = mem[a]]_vars
  BY StepUnlockedStable DEF Next, Finished
<1> QED
  BY TypeCorrect, LocksCorrect, <1>1, PTL DEF Spec, UnlockedWordsStable

LEMMA StepTimestamps ==
  ASSUME TypeOK, LocksMatchLogs, NEW t \in Threads, Step(t),
         NEW l \in Locks, meta[l].ver # meta'[l].ver
  PROVE  /\ meta'[l].ver = meta[l].ver + 1
         /\ meta[l].bit /\ ~meta'[l].bit
<1> USE DEF shared
<1>1. CASE ResetCommit(t)
  <2>1. Owns(t, l)
    BY <1>1 DEF ResetCommit
  <2> QED
    BY <1>1, <2>1 DEF ResetCommit, LocksMatchLogs, BitsMatchLogs
<1>2. ASSUME NEW a \in Addrs, NEW b \in BOOLEAN,
             meta' = [meta EXCEPT ![LockOf[a]].bit = b]
      PROVE  meta'[l].ver = meta[l].ver
  BY <1>2 DEF TypeOK, Word
<1>3. ASSUME NEW a \in Addrs, NEW v \in Vals, OpenWrite(t, a, v)
      PROVE  FALSE
  BY <1>2, <1>3 DEF OpenWrite, OpenWriteHit, OpenWriteLog
<1>4. ASSUME NEW a \in Addrs, Free(t, a) \/ Undo(t, a)
      PROVE  FALSE
  BY <1>2, <1>4 DEF Free, OpenWriteHit, OpenWriteLog, Undo
<1> QED
  BY <1>1, <1>3, <1>4
  DEF Step, Begin, BeginNested, CommitNested, Abort, Throw, OpenRead, Alloc,
      LoadRefused, ReadValue, WriteValue, StoreRefused, AllocFails,
      FreeRefused, ValidateOk, ValidateFails, ResetAbort, Retry

\* Timestamps grow by one, with the release of the lock at a commit.
THEOREM TimestampsGrow == Spec => TimestampsMonotone
<1>1. TypeOK /\ LocksMatchLogs /\ [Next]_vars
      => [\A l \in Locks : meta[l].ver # meta'[l].ver =>
              /\ meta'[l].ver = meta[l].ver + 1
              /\ meta[l].bit /\ ~meta'[l].bit]_vars
  BY StepTimestamps DEF Next, Finished
<1> QED
  BY TypeCorrect, LocksCorrect, <1>1, PTL DEF Spec, TimestampsMonotone

-----------------------------------------------------------------------------
(* STM as an atomic memory *)

\* AddrToLockVar gives every word in use an entry of its own.
LockPerWord == \A a, b \in Addrs : LockOf[a] = LockOf[b] => a = b

-----------------------------------------------------------------------------
(* The shape of the logs *)

\* With a lock per word, owning a lock is having logged the word.
LEMMA OwnsIsLogged ==
  ASSUME LockPerWord, NEW t \in Threads, NEW a \in Addrs
  PROVE  Owns(t, LockOf[a]) <=> a \in WrittenBy(t)
  BY DEF LockPerWord, Owns, WrittenBy

HInv == BlocksOwned /\ LogShape

LEMMA InitHInv == Init => HInv
  BY NullAssumption
  DEF Init, HInv, BlocksOwned, LogShape, WrittenBy, EmptyLog, InBody, Validated

\* What a step of t may not touch of the other threads.
OthersUntouched(t) ==
    \A u \in Threads \ {t} :
        /\ pc'[u] = pc[u] /\ target'[u] = target[u]
        /\ readSet'[u] = readSet[u] /\ writeSet'[u] = writeSet[u]
        /\ allocations'[u] = allocations[u] /\ frees'[u] = frees[u]

LEMMA StepOthers ==
  ASSUME TypeOK, NEW t \in Threads, Step(t)
  PROVE  OthersUntouched(t)
<1>1. CASE Begin(t) \/ BeginNested(t) \/ CommitNested(t)
  BY <1>1 DEF OthersUntouched, TypeOK, Begin, BeginNested, CommitNested, Goto,
              shared, logs
<1>2. CASE Abort(t) \/ AllocFails(t) \/ ValidateFails(t) \/ ResetAbort(t)
  BY <1>2 DEF OthersUntouched, TypeOK, Abort, AllocFails, ValidateFails,
              ResetAbort, Throw, Goto, shared, logs
<1>3. CASE \E a \in Addrs :
               LoadRefused(t, a) \/ StoreRefused(t, a) \/ FreeRefused(t, a)
  BY <1>3 DEF OthersUntouched, TypeOK, LoadRefused, StoreRefused, FreeRefused,
              Throw, Goto, shared, logs
<1>4. ASSUME NEW a \in Addrs, OpenRead(t, a)
      PROVE  OthersUntouched(t)
  BY <1>4 DEF OthersUntouched, TypeOK, OpenRead, OpenReadHit, OpenReadLog,
              Goto, shared, logs
<1>5. CASE ReadValue(t) \/ WriteValue(t)
  BY <1>5 DEF OthersUntouched, TypeOK, ReadValue, WriteValue, Goto, shared,
              logs
<1>6. ASSUME NEW a \in Addrs, NEW v \in Vals, OpenWrite(t, a, v)
      PROVE  OthersUntouched(t)
  BY <1>6 DEF OthersUntouched, TypeOK, OpenWrite, OpenWriteHit, OpenWriteLog,
              Goto, shared, logs
<1>7. ASSUME NEW a \in Addrs, NEW v \in Vals, Alloc(t, a, v)
      PROVE  OthersUntouched(t)
  BY <1>7 DEF OthersUntouched, TypeOK, Alloc, Goto, shared, logs
<1>8. ASSUME NEW a \in Addrs, Free(t, a)
      PROVE  OthersUntouched(t)
  BY <1>8 DEF OthersUntouched, TypeOK, Free, OpenWriteHit, OpenWriteLog, Goto,
              shared, logs
<1>9. CASE ValidateOk(t)
  BY <1>9 DEF OthersUntouched, TypeOK, ValidateOk, Goto, shared, logs
<1>10. CASE ResetCommit(t)
  BY <1>10 DEF OthersUntouched, TypeOK, ResetCommit, ClearLogs, Goto, shared,
               logs
<1>11. ASSUME NEW a \in Addrs, Undo(t, a)
       PROVE  OthersUntouched(t)
  BY <1>11 DEF OthersUntouched, TypeOK, Undo, Goto, shared, logs
<1>12. CASE Retry(t)
  BY <1>12 DEF OthersUntouched, TypeOK, Retry, ClearLogs, Goto, shared, logs
<1> QED
  BY <1>1, <1>2, <1>3, <1>4, <1>5, <1>6, <1>7, <1>8, <1>9, <1>10, <1>11,
     <1>12 DEF Step

\* A step that leaves the logs and the heap alone, and enters neither the
\* body of a transaction nor the copying of a stored value.
LEMMA HInvFrame ==
  ASSUME HInv, UNCHANGED <<live, writeSet, allocations, frees>>,
         \A u \in Threads :
             /\ pc'[u] = "idle" => pc[u] = "idle"
             /\ pc'[u] \in {"body", "read", "write", "commit"} =>
                    pc[u] \in {"body", "read", "write", "commit"}
             /\ pc'[u] = "write" => pc[u] = "write" /\ target'[u] = target[u]
  PROVE  HInv'
  BY DEF HInv, BlocksOwned, LogShape, InBody, Validated, WrittenBy

\* A word t may touch is in nobody else's allocations, and t has not freed it.
LEMMA OpenWriteHInv ==
  ASSUME LockPerWord, TypeOK, LocksMatchLogs, HInv, NEW t \in Threads,
         NEW a \in Addrs, Usable(t, a), pc[t] = "body",
         NEW saved \in Vals \cup {NoVal},
         OpenWriteHit(t, a) \/ OpenWriteLog(t, a, saved)
  PROVE  /\ WrittenBy(t)' = WrittenBy(t) \cup {a}
         /\ \A b \in Addrs : b # a => writeSet'[t][b] = writeSet[t][b]
         /\ writeSet'[t][a] \in {writeSet[t][a], saved}
         /\ \A u \in Threads \ {t} : writeSet'[u] = writeSet[u]
         /\ a \notin WrittenBy(t) => writeSet'[t][a] = saved
<1>1. saved # NoEntry
  BY NullAssumption
<1>2. CASE OpenWriteHit(t, a)
  BY <1>2, OwnsIsLogged DEF OpenWriteHit, WrittenBy
<1>3. CASE OpenWriteLog(t, a, saved)
  BY <1>1, <1>3 DEF OpenWriteLog, WrittenBy, TypeOK
<1> QED
  BY <1>2, <1>3

LEMMA StoreHInv ==
  ASSUME LockPerWord, TypeOK, LocksMatchLogs, HInv, NEW t \in Threads,
         NEW a \in Addrs, NEW v \in Vals, OpenWrite(t, a, v)
  PROVE  HInv'
<1>1. mem[a] \in Vals \cup {NoVal} /\ mem[a] # NoVal
  BY NullAssumption DEF TypeOK
<1>2. /\ WrittenBy(t)' = WrittenBy(t) \cup {a}
      /\ \A b \in Addrs : writeSet'[t][b] = NoVal => writeSet[t][b] = NoVal
      /\ \A u \in Threads \ {t} : writeSet'[u] = writeSet[u]
  BY <1>1, OpenWriteHInv DEF OpenWrite
<1>3. /\ \A u \in Threads \ {t} : pc'[u] = pc[u] /\ target'[u] = target[u]
      /\ pc'[t] = "write" /\ target'[t] = a
      /\ UNCHANGED <<live, allocations, frees>>
  BY DEF OpenWrite, Goto, TypeOK
<1>4. pc[t] = "body" /\ Usable(t, a)
  BY DEF OpenWrite
<1>5. BlocksOwned'
  BY <1>2, <1>3, <1>4
  DEF HInv, BlocksOwned, InBody, Validated, Usable, WrittenBy
<1>6. LogShape'
  BY <1>2, <1>3, <1>4 DEF HInv, LogShape, Usable, WrittenBy
<1> QED
  BY <1>5, <1>6 DEF HInv

LEMMA FreeHInv ==
  ASSUME LockPerWord, TypeOK, LocksMatchLogs, HInv, NEW t \in Threads,
         NEW a \in Addrs, Free(t, a)
  PROVE  HInv'
<1>1. /\ WrittenBy(t)' = WrittenBy(t) \cup {a}
      /\ \A b \in Addrs : b # a => writeSet'[t][b] = writeSet[t][b]
      /\ \A u \in Threads \ {t} : writeSet'[u] = writeSet[u]
  BY OpenWriteHInv DEF Free
<1>2. /\ \A u \in Threads \ {t} : frees'[u] = frees[u]
      /\ frees'[t] = frees[t] \cup {a}
      /\ UNCHANGED <<live, allocations, pc, target>>
  BY DEF Free, TypeOK
<1>3. pc[t] = "body" /\ Usable(t, a)
  BY DEF Free
<1>4. BlocksOwned'
  BY <1>1, <1>2, <1>3
  DEF HInv, BlocksOwned, InBody, Validated, Usable, WrittenBy
<1>5. LogShape'
  BY <1>1, <1>2, <1>3 DEF HInv, LogShape, WrittenBy
<1> QED
  BY <1>4, <1>5 DEF HInv

LEMMA AllocHInv ==
  ASSUME TypeOK, HInv, NEW t \in Threads,
         NEW a \in Addrs, NEW v \in Vals, Alloc(t, a, v)
  PROVE  HInv'
<1>1. /\ \A u \in Threads \ {t} : allocations'[u] = allocations[u]
      /\ allocations'[t] = allocations[t] \cup {a}
      /\ live' = live \cup {a} /\ a \notin live
      /\ UNCHANGED <<writeSet, frees, pc, target>> /\ pc[t] = "body"
  BY DEF Alloc, TypeOK
<1>2. \A u \in Threads : a \notin allocations[u] /\ a \notin WrittenBy(u) \cap Heap
  BY <1>1 DEF HInv, BlocksOwned
<1>3. BlocksOwned'
  BY <1>1, <1>2 DEF HInv, BlocksOwned, InBody, Validated, WrittenBy
<1>4. LogShape'
  BY <1>1 DEF HInv, LogShape, WrittenBy
<1> QED
  BY <1>3, <1>4 DEF HInv

\* What t frees at its commit is in no other thread's hands.
LEMMA FreesExclusive ==
  ASSUME LockPerWord, TypeOK, LocksMatchLogs, HInv,
         NEW t \in Threads, InBody(t) \/ Validated(t),
         NEW u \in Threads \ {t}, NEW a \in frees[t]
  PROVE  /\ a \in Heap /\ a \in WrittenBy(t) /\ a \in live
         /\ a \notin WrittenBy(u) /\ a \notin allocations[u]
  BY DEF TypeOK, HInv, BlocksOwned, LocksMatchLogs, LogsDisjoint, WrittenBy

LEMMA CommitHInv ==
  ASSUME LockPerWord, TypeOK, LocksMatchLogs, HInv, NEW t \in Threads,
         ResetCommit(t)
  PROVE  HInv'
<1>1. /\ \A u \in Threads \ {t} :
             /\ pc'[u] = pc[u] /\ writeSet'[u] = writeSet[u]
             /\ allocations'[u] = allocations[u] /\ frees'[u] = frees[u]
      /\ pc'[t] = "idle" /\ writeSet'[t] = EmptyLog
      /\ allocations'[t] = {} /\ frees'[t] = {}
      /\ live' = live \ frees[t] /\ target' = target
  BY DEF ResetCommit, Release, ClearLogs, Goto, TypeOK
<1>2. Validated(t)
  BY DEF ResetCommit, Validated
<1>3. WrittenBy(t)' = {}
  BY <1>1 DEF WrittenBy, EmptyLog
<1>4. BlocksOwned'
  BY <1>1, <1>2, <1>3, FreesExclusive
  DEF HInv, BlocksOwned, InBody, Validated, WrittenBy
<1>5. LogShape'
  BY <1>1, <1>3, NullAssumption DEF HInv, LogShape, WrittenBy, EmptyLog
<1> QED
  BY <1>4, <1>5 DEF HInv

LEMMA UndoHInv ==
  ASSUME TypeOK, HInv, NEW t \in Threads, NEW a \in Addrs, Undo(t, a)
  PROVE  HInv'
<1>1. /\ \A u \in Threads \ {t} : writeSet'[u] = writeSet[u]
      /\ \A b \in Addrs : b # a => writeSet'[t][b] = writeSet[t][b]
      /\ writeSet'[t][a] = NoEntry /\ pc[t] = "undo"
      /\ UNCHANGED <<live, pc, target, allocations, frees>>
  BY DEF Undo, TypeOK
<1>2. BlocksOwned'
  BY <1>1 DEF HInv, BlocksOwned, InBody, Validated, WrittenBy
<1>3. LogShape'
  BY <1>1, NullAssumption DEF HInv, LogShape, WrittenBy
<1> QED
  BY <1>2, <1>3 DEF HInv

LEMMA RetryHInv ==
  ASSUME TypeOK, HInv, NEW t \in Threads, Retry(t)
  PROVE  HInv'
<1>1. /\ \A u \in Threads \ {t} :
             /\ pc'[u] = pc[u] /\ writeSet'[u] = writeSet[u]
             /\ allocations'[u] = allocations[u] /\ frees'[u] = frees[u]
      /\ pc'[t] = "body" /\ writeSet'[t] = EmptyLog
      /\ allocations'[t] = {} /\ frees'[t] = {}
      /\ live' = live \ allocations[t] /\ target' = target
  BY DEF Retry, Release, ClearLogs, Goto, TypeOK
<1>2. WrittenBy(t)' = {}
  BY <1>1 DEF WrittenBy, EmptyLog
<1>3. BlocksOwned'
  BY <1>1, <1>2 DEF HInv, BlocksOwned, InBody, Validated, WrittenBy
<1>4. LogShape'
  BY <1>1, <1>2, NullAssumption DEF HInv, LogShape, WrittenBy, EmptyLog
<1> QED
  BY <1>3, <1>4 DEF HInv

LEMMA StepHInv ==
  ASSUME LockPerWord, TypeOK, LocksMatchLogs, HInv, NEW t \in Threads, Step(t)
  PROVE  HInv'
<1> USE DEF shared, logs, Goto, Throw
<1>1. CASE Begin(t)
  <2>1. /\ \A u \in Threads \ {t} : pc'[u] = pc[u]
        /\ pc[t] = "idle" /\ pc'[t] = "body"
        /\ UNCHANGED <<live, target, writeSet, allocations, frees>>
    BY <1>1 DEF Begin, TypeOK
  <2> QED
    BY <2>1 DEF HInv, BlocksOwned, LogShape, InBody, Validated, WrittenBy
<1>2. CASE BeginNested(t) \/ CommitNested(t)
  BY <1>2, HInvFrame DEF BeginNested, CommitNested
<1>3. CASE Abort(t) \/ AllocFails(t) \/ ValidateFails(t) \/ ResetAbort(t)
  BY <1>3, HInvFrame DEF Abort, AllocFails, ValidateFails, ResetAbort, TypeOK
<1>4. ASSUME NEW a \in Addrs, OpenRead(t, a)
      PROVE  HInv'
  BY <1>4, HInvFrame DEF OpenRead, TypeOK
<1>5. ASSUME NEW a \in Addrs, LoadRefused(t, a) \/ StoreRefused(t, a)
      PROVE  HInv'
  BY <1>5, HInvFrame DEF LoadRefused, StoreRefused, TypeOK
<1>6. CASE ReadValue(t) \/ WriteValue(t) \/ ValidateOk(t)
  BY <1>6, HInvFrame DEF ReadValue, WriteValue, ValidateOk, TypeOK
<1>7. ASSUME NEW a \in Addrs, FreeRefused(t, a)
      PROVE  HInv'
  <2>1. /\ \A u \in Threads \ {t} : pc'[u] = pc[u] /\ frees'[u] = frees[u]
        /\ pc'[t] = "catch" /\ frees'[t] = frees[t] \cup {a}
        /\ UNCHANGED <<live, target, writeSet, allocations>>
    BY <1>7 DEF FreeRefused, TypeOK
  <2> QED
    BY <2>1 DEF HInv, BlocksOwned, LogShape, InBody, Validated, WrittenBy
<1> QED
  BY <1>1, <1>2, <1>3, <1>4, <1>5, <1>6, <1>7, StoreHInv, FreeHInv, AllocHInv,
     CommitHInv, UndoHInv, RetryHInv DEF Step

-----------------------------------------------------------------------------
(* The committed value of a word *)

\* t's undo log holds the committed value of a.
Saves(t, a) == ~Validated(t) /\ writeSet[t][a] \in Vals

LEMMA StoreCases ==
  ASSUME LogsDisjoint, NEW a \in Addrs
  PROVE  /\ ~Allocated(a) => StoreOf(a) = NoVal
         /\ \A t \in Threads : Allocated(a) /\ Saves(t, a) =>
                StoreOf(a) = writeSet[t][a]
         /\ Allocated(a) /\ (\A t \in Threads : ~Saves(t, a)) =>
                StoreOf(a) = mem[a]
<1>1. ASSUME NEW t \in Threads, Saves(t, a)
      PROVE  Saved(a) = {writeSet[t][a]}
  <2>1. \A u \in Threads : writeSet[u][a] \in Vals => u = t
    BY <1>1, NullAssumption DEF LogsDisjoint, WrittenBy, Saves
  <2> QED
    BY <1>1, <2>1 DEF Saved, Saves
<1>2. \A w : (CHOOSE v \in {w} : TRUE) = w
  OBVIOUS
<1>3. (\A t \in Threads : ~Saves(t, a)) => Saved(a) = {}
  BY DEF Saved, Saves
<1>4. ASSUME NEW t \in Threads, Allocated(a), Saves(t, a)
      PROVE  StoreOf(a) = writeSet[t][a]
  <2>1. Saved(a) = {writeSet[t][a]}
    BY <1>1, <1>4
  <2>2. Saved(a) # {}
    BY <2>1
  <2>3. StoreOf(a) = CHOOSE v \in Saved(a) : TRUE
    BY <1>4, <2>2 DEF StoreOf
  <2> QED
    BY <2>1, <2>3, <1>2
<1> QED
  BY <1>3, <1>4 DEF StoreOf

LEMMA StoreCasesNext ==
  ASSUME LogsDisjoint', NEW a \in Addrs
  PROVE  /\ ~Allocated(a)' => StoreOf(a)' = NoVal
         /\ \A t \in Threads : Allocated(a)' /\ Saves(t, a)' =>
                StoreOf(a)' = writeSet'[t][a]
         /\ Allocated(a)' /\ (\A t \in Threads : ~Saves(t, a)') =>
                StoreOf(a)' = mem'[a]
<1>1. ASSUME NEW t \in Threads, Saves(t, a)'
      PROVE  Saved(a)' = {writeSet'[t][a]}
  <2>1. \A u \in Threads : writeSet'[u][a] \in Vals => u = t
    BY <1>1, NullAssumption DEF LogsDisjoint, WrittenBy, Saves
  <2> QED
    BY <1>1, <2>1 DEF Saved, Saves
<1>2. \A w : (CHOOSE v \in {w} : TRUE) = w
  OBVIOUS
<1>3. (\A t \in Threads : ~Saves(t, a)') => Saved(a)' = {}
  BY DEF Saved, Saves
<1>4. ASSUME NEW t \in Threads, Allocated(a)', Saves(t, a)'
      PROVE  StoreOf(a)' = writeSet'[t][a]
  <2>1. Saved(a)' = {writeSet'[t][a]}
    BY <1>1, <1>4
  <2>2. Saved(a)' # {}
    BY <2>1
  <2>3. StoreOf(a)' = CHOOSE v \in Saved(a)' : TRUE
    BY <1>4, <2>2 DEF StoreOf
  <2> QED
    BY <2>1, <2>3, <1>2
<1> QED
  BY <1>3, <1>4 DEF StoreOf

\* Nothing that bears on a changes.
LEMMA StoreFrame ==
  ASSUME NEW a \in Addrs, mem'[a] = mem[a], a \in live' <=> a \in live,
         \A u \in Threads :
             /\ Validated(u)' <=> Validated(u)
             /\ writeSet'[u][a] = writeSet[u][a]
             /\ a \in allocations'[u] <=> a \in allocations[u]
             /\ Validated(u) => (a \in frees'[u] <=> a \in frees[u])
  PROVE  StoreOf(a)' = StoreOf(a)
<1>1. Allocated(a)' <=> Allocated(a)
  BY DEF Allocated
<1>2. Saved(a)' = Saved(a)
  BY DEF Saved
<1> QED
  BY <1>1, <1>2 DEF StoreOf

-----------------------------------------------------------------------------
(* The pending updates of the other threads *)

\* A step of t leaves the words u has logged or allocated alone.
LEMMA OthersWordsKept ==
  ASSUME LockPerWord, TypeOK, LocksMatchLogs, HInv, NEW t \in Threads, Step(t),
         NEW u \in Threads \ {t}, NEW a \in WrittenBy(u) \cup allocations[u]
  PROVE  mem'[a] = mem[a]
<1> USE DEF shared
<1>1. /\ a \in Addrs /\ a \notin WrittenBy(t) /\ a \notin allocations[t]
      /\ a \in Heap => a \in live
      /\ a \in allocations[u] => a \in Heap
  BY HeapAssumption
  DEF HInv, BlocksOwned, LocksMatchLogs, LogsDisjoint, WrittenBy, TypeOK
<1>2. CASE WriteValue(t)
  <2>1. target[t] \in WrittenBy(t)
    BY <1>2, OwnsIsLogged DEF WriteValue, LocksMatchLogs, StoresOwned, TypeOK
  <2> QED
    BY <1>1, <1>2, <2>1 DEF WriteValue, TypeOK
<1>3. ASSUME NEW b \in Addrs, NEW v \in Vals, Alloc(t, b, v)
      PROVE  mem'[a] = mem[a]
  BY <1>1, <1>3 DEF Alloc, TypeOK
<1>4. CASE ResetCommit(t)
  <2>1. a \notin frees[t]
    BY <1>4, FreesExclusive DEF ResetCommit, Validated
  <2> QED
    BY <1>1, <1>4, <2>1 DEF ResetCommit, Release, TypeOK
<1>5. CASE Retry(t)
  BY <1>1, <1>5 DEF Retry, Release, TypeOK
<1>6. ASSUME NEW b \in Addrs, Undo(t, b)
      PROVE  mem'[a] = mem[a]
  BY <1>1, <1>6 DEF Undo, TypeOK
<1> QED
  BY <1>2, <1>3, <1>4, <1>5, <1>6
  DEF Step, Begin, BeginNested, CommitNested, Abort, Throw, OpenRead,
      LoadRefused, ReadValue, OpenWrite, StoreRefused, AllocFails, Free,
      FreeRefused, ValidateOk, ValidateFails, ResetAbort

LEMMA PendingOthers ==
  ASSUME LockPerWord, TypeOK, LocksMatchLogs, HInv, NEW t \in Threads, Step(t),
         NEW u \in Threads \ {t}, NEW a \in Addrs
  PROVE  PendingOf(u, a)' = PendingOf(u, a)
<1>1. /\ pc'[u] = pc[u] /\ writeSet'[u] = writeSet[u]
      /\ allocations'[u] = allocations[u] /\ frees'[u] = frees[u]
  BY StepOthers DEF OthersUntouched
<1>2. InBody(u)' <=> InBody(u)
  BY <1>1 DEF InBody
<1>3. a \in WrittenBy(u)' <=> a \in WrittenBy(u)
  BY <1>1 DEF WrittenBy
<1>4. a \in WrittenBy(u) \cup allocations[u] => mem'[a] = mem[a]
  BY OthersWordsKept
<1> QED
  BY <1>1, <1>2, <1>3, <1>4 DEF PendingOf

\* A word no other thread has logged or allocated is in no other thread's
\* pending updates.
LEMMA PendingExclusive ==
  ASSUME HInv, NEW a \in Addrs, NEW u \in Threads,
         a \notin WrittenBy(u), a \notin allocations[u]
  PROVE  PendingOf(u, a) = NoEntry
<1>1. InBody(u) => a \notin frees[u]
  BY DEF HInv, BlocksOwned
<1> QED
  BY <1>1 DEF PendingOf

-----------------------------------------------------------------------------
(* Steps of AtomicMemory, word by word *)

SameStore == \A a \in Addrs : StoreOf(a)' = StoreOf(a)

SamePending(u) == \A a \in Addrs : PendingOf(u, a)' = PendingOf(u, a)

LEMMA AbstractStutter ==
  ASSUME SameStore, \A u \in Threads : SamePending(u)
  PROVE  UNCHANGED AM!vars
  BY DEF SameStore, SamePending, AM!vars

LEMMA AbstractAbort ==
  ASSUME NEW t \in Threads, SameStore,
         \A u \in Threads \ {t} : SamePending(u),
         \A a \in Addrs : PendingOf(t, a)' = NoEntry
  PROVE  AM!Abort(t)
  BY DEF SameStore, SamePending, AM!Abort, AM!Nothing

LEMMA AbstractPut ==
  ASSUME NEW t \in Threads, NEW a \in Addrs, NEW v \in Vals \cup {NoVal},
         SameStore,
         \A u \in Threads \ {t} : SamePending(u) /\ PendingOf(u, a) = NoEntry,
         \A b \in Addrs \ {a} : PendingOf(t, b)' = PendingOf(t, b),
         PendingOf(t, a)' = v
  PROVE  AM!Put(t, a, v)
  BY DEF SameStore, SamePending, AM!Put

LEMMA AbstractCommit ==
  ASSUME NEW t \in Threads,
         \A u \in Threads \ {t} : SamePending(u),
         \A a \in Addrs : PendingOf(t, a)' = NoEntry,
         \A a \in Addrs : StoreOf(a)' = IF PendingOf(t, a) # NoEntry
                                        THEN PendingOf(t, a) ELSE StoreOf(a)
  PROVE  AM!Commit(t)
  BY DEF SamePending, AM!Commit, AM!Nothing

-----------------------------------------------------------------------------
(* Every step of STM is a step of AtomicMemory or none *)

Inv == TypeOK /\ LocksMatchLogs /\ HInv

LEMMA QuietStore ==
  ASSUME UNCHANGED <<mem, live, writeSet, allocations>>,
         \A u \in Threads : /\ Validated(u)' <=> Validated(u)
                            /\ Validated(u) => frees'[u] = frees[u]
  PROVE  SameStore
  BY StoreFrame DEF SameStore

\* Steps that only move t, or log a read.
LEMMA SimQuiet ==
  ASSUME LockPerWord, Inv, NEW t \in Threads, Step(t),
         \/ Begin(t) \/ BeginNested(t) \/ CommitNested(t) \/ ReadValue(t)
         \/ ResetAbort(t)
         \/ \E a \in Addrs : OpenRead(t, a)
  PROVE  UNCHANGED AM!vars
<1>1. /\ UNCHANGED <<mem, live, writeSet, allocations, frees>>
      /\ \A u \in Threads : Validated(u)' <=> Validated(u)
      /\ pc[t] # "idle" => (InBody(t)' <=> InBody(t))
  BY DEF Inv, TypeOK, Begin, BeginNested, CommitNested, ReadValue, ResetAbort,
         OpenRead, Goto, shared, logs, Validated, InBody
<1>2. SameStore
  BY <1>1, QuietStore
<1>3. pc[t] = "idle" => /\ WrittenBy(t) = {} /\ allocations[t] = {}
                        /\ frees[t] = {}
  BY DEF Inv, HInv, LogShape
<1>4. WrittenBy(t)' = WrittenBy(t)
  BY <1>1 DEF WrittenBy
<1>5. SamePending(t)
  BY <1>1, <1>3, <1>4 DEF SamePending, PendingOf, InBody
<1> QED
  BY <1>2, <1>5, PendingOthers, AbstractStutter DEF Inv, SamePending

\* Steps that end in the handler of inter_tx_exception.
LEMMA SimThrow ==
  ASSUME LockPerWord, Inv, NEW t \in Threads, Step(t),
         \/ Abort(t) \/ AllocFails(t) \/ ValidateFails(t)
         \/ \E a \in Addrs :
                LoadRefused(t, a) \/ StoreRefused(t, a) \/ FreeRefused(t, a)
  PROVE  AM!Abort(t)
<1>1. /\ UNCHANGED <<mem, live, writeSet, allocations>>
      /\ \A u \in Threads : Validated(u)' <=> Validated(u)
      /\ \A u \in Threads \ {t} : frees'[u] = frees[u]
      /\ pc[t] = "body" /\ pc'[t] = "catch"
  BY DEF Inv, TypeOK, Abort, AllocFails, ValidateFails, LoadRefused,
         StoreRefused, FreeRefused, Throw, Goto, shared, Validated
<1>2. SameStore
  BY <1>1, QuietStore DEF Validated
<1>3. \A a \in Addrs : PendingOf(t, a)' = NoEntry
  BY <1>1 DEF PendingOf, InBody
<1> QED
  BY <1>2, <1>3, PendingOthers, AbstractAbort DEF Inv, SamePending

\* open_for_write of a Store: the word's present value becomes pending.
LEMMA SimOpenWrite ==
  ASSUME LockPerWord, Inv, Inv', NEW t \in Threads, Step(t),
         NEW a \in Addrs, NEW v \in Vals, OpenWrite(t, a, v)
  PROVE  AM!Put(t, a, mem[a]) \/ UNCHANGED AM!vars
<1>1. /\ UNCHANGED <<mem, live, allocations, frees>>
      /\ pc[t] = "body" /\ pc'[t] = "write" /\ Usable(t, a)
      /\ \A u \in Threads \ {t} : pc'[u] = pc[u]
      /\ OpenWriteHit(t, a) \/ OpenWriteLog(t, a, mem[a])
  BY DEF OpenWrite, Goto, Inv, TypeOK
<1>2. \A u \in Threads : Validated(u)' <=> Validated(u)
  BY <1>1 DEF Validated
<1>3. mem[a] \in Vals
  BY DEF Inv, TypeOK
<1>4. CASE a \in WrittenBy(t)
  <2>1. writeSet' = writeSet
    BY <1>1, <1>4 DEF OpenWriteHit, OpenWriteLog
  <2>2. SameStore
    BY <1>1, <1>2, <2>1, QuietStore
  <2>3. SamePending(t)
    BY <1>1, <2>1 DEF SamePending, PendingOf, InBody, WrittenBy
  <2> QED
    BY <2>2, <2>3, PendingOthers, AbstractStutter DEF Inv, SamePending
<1>5. CASE a \notin WrittenBy(t)
  <2>1. OpenWriteLog(t, a, mem[a])
    BY <1>1, <1>5, OwnsIsLogged DEF OpenWriteHit
  <2>2. /\ writeSet'[t][a] = mem[a]
        /\ \A b \in Addrs \ {a} : writeSet'[t][b] = writeSet[t][b]
        /\ \A u \in Threads \ {t} : writeSet'[u] = writeSet[u]
    BY <2>1 DEF OpenWriteLog, Inv, TypeOK
  <2>3. \A u \in Threads : a \notin WrittenBy(u)
    BY <2>1, OwnsIsLogged, LockOfAssumption
    DEF OpenWriteLog, Inv, LocksMatchLogs, BitsMatchLogs
  <2>4. \A u \in Threads \ {t} : a \notin allocations[u]
    BY <1>1 DEF Usable, Inv, TypeOK
  <2>5. \A u \in Threads \ {t} : PendingOf(u, a) = NoEntry
    BY <2>3, <2>4, PendingExclusive DEF Inv
  <2>6. StoreOf(a)' = StoreOf(a)
    <3>1. Allocated(a)' <=> Allocated(a)
      BY <1>1, <1>2 DEF Allocated
    <3>2. \A u \in Threads : ~Saves(u, a)
      BY <2>3, NullAssumption DEF Saves, WrittenBy
    <3>3. Saves(t, a)'
      BY <1>1, <1>3, <2>2 DEF Saves, Validated
    <3> QED
      BY <1>1, <2>2, <3>1, <3>2, <3>3, StoreCases, StoreCasesNext
      DEF Inv, LocksMatchLogs
  <2>7. \A b \in Addrs \ {a} : StoreOf(b)' = StoreOf(b)
    BY <1>1, <1>2, <2>2, StoreFrame
  <2>8. SameStore
    BY <2>6, <2>7 DEF SameStore
  <2>9. PendingOf(t, a)' = mem[a]
    BY <1>1, <1>3, <2>2, NullAssumption DEF PendingOf, InBody, WrittenBy, Usable
  <2>10. \A b \in Addrs \ {a} : PendingOf(t, b)' = PendingOf(t, b)
    BY <1>1, <2>2 DEF PendingOf, InBody, WrittenBy
  <2> QED
    BY <1>3, <2>5, <2>8, <2>9, <2>10, PendingOthers, AbstractPut
    DEF Inv, SamePending
<1> QED
  BY <1>4, <1>5

LEMMA SimWriteValue ==
  ASSUME LockPerWord, Inv, NEW t \in Threads, Step(t), WriteValue(t),
         NEW a \in Addrs, NEW v \in Vals, target[t] = a, value[t] = v
  PROVE  AM!Put(t, a, v)
<1>1. /\ UNCHANGED <<live, writeSet, allocations, frees>>
      /\ pc[t] = "write" /\ pc'[t] = "body"
      /\ \A u \in Threads \ {t} : pc'[u] = pc[u]
      /\ mem'[a] = v
      /\ \A b \in Addrs \ {a} : mem'[b] = mem[b]
  BY DEF WriteValue, Goto, logs, Inv, TypeOK
<1>2. a \in WrittenBy(t) /\ a \notin frees[t]
  BY <1>1, OwnsIsLogged DEF Inv, LocksMatchLogs, StoresOwned, HInv, LogShape
<1>3. writeSet[t][a] \in Vals
  BY <1>1, <1>2 DEF WrittenBy, Inv, TypeOK, HInv, LogShape
<1>4. \A u \in Threads : Validated(u)' <=> Validated(u)
  BY <1>1 DEF Validated
<1>5. StoreOf(a)' = StoreOf(a)
  <2>1. Allocated(a)' <=> Allocated(a)
    BY <1>1, <1>4 DEF Allocated
  <2>2. Saved(a)' = Saved(a) /\ Saved(a) # {}
    BY <1>1, <1>3, <1>4 DEF Saved, Validated
  <2> QED
    BY <2>1, <2>2 DEF StoreOf
<1>6. \A b \in Addrs \ {a} : StoreOf(b)' = StoreOf(b)
  BY <1>1, <1>4, StoreFrame
<1>7. SameStore
  BY <1>5, <1>6 DEF SameStore
<1>8. \A u \in Threads \ {t} : PendingOf(u, a) = NoEntry
  <2>1. ASSUME NEW u \in Threads \ {t}
        PROVE  a \notin WrittenBy(u) /\ a \notin allocations[u]
    BY <1>1, <1>2
    DEF Inv, LocksMatchLogs, LogsDisjoint, HInv, BlocksOwned, TypeOK
  <2> QED
    BY <1>1, <2>1, PendingExclusive DEF Inv
<1>9. PendingOf(t, a)' = v
  BY <1>1, <1>2 DEF PendingOf, InBody, WrittenBy
<1>10. \A b \in Addrs \ {a} : PendingOf(t, b)' = PendingOf(t, b)
  BY <1>1 DEF PendingOf, InBody, WrittenBy
<1> QED
  BY <1>7, <1>8, <1>9, <1>10, PendingOthers, AbstractPut DEF Inv, SamePending

\* A new block is its transaction's own until it commits.
LEMMA SimAlloc ==
  ASSUME LockPerWord, Inv, Inv', NEW t \in Threads, Step(t),
         NEW a \in Addrs, NEW v \in Vals, Alloc(t, a, v)
  PROVE  AM!Put(t, a, v)
<1>1. /\ UNCHANGED <<pc, writeSet, frees>> /\ pc[t] = "body"
      /\ a \in Heap /\ a \notin live /\ live' = live \cup {a}
      /\ allocations'[t] = allocations[t] \cup {a}
      /\ \A u \in Threads \ {t} : allocations'[u] = allocations[u]
      /\ mem'[a] = v /\ \A b \in Addrs \ {a} : mem'[b] = mem[b]
  BY DEF Alloc, Inv, TypeOK
<1>2. \A u \in Threads : Validated(u)' <=> Validated(u)
  BY <1>1 DEF Validated
<1>3. \A u \in Threads : a \notin WrittenBy(u) /\ a \notin allocations[u]
  BY <1>1 DEF Inv, HInv, BlocksOwned
<1>4. StoreOf(a)' = StoreOf(a)
  <2>1. ~Allocated(a) /\ ~Allocated(a)'
    BY <1>1 DEF Allocated, Validated
  <2> QED
    BY <2>1 DEF StoreOf
<1>5. SameStore
  BY <1>1, <1>2, <1>4, StoreFrame DEF SameStore
<1>6. a \notin frees[t]
  BY <1>1, <1>3 DEF Inv, HInv, BlocksOwned, InBody
<1>7. PendingOf(t, a)' = v
  BY <1>1, <1>6 DEF PendingOf, InBody
<1>8. \A b \in Addrs \ {a} : PendingOf(t, b)' = PendingOf(t, b)
  BY <1>1 DEF PendingOf, InBody, WrittenBy
<1> QED
  BY <1>3, <1>5, <1>7, <1>8, PendingExclusive, PendingOthers, AbstractPut
  DEF Inv, SamePending

LEMMA SimFree ==
  ASSUME LockPerWord, Inv, Inv', NEW t \in Threads, Step(t),
         NEW a \in Addrs, Free(t, a)
  PROVE  AM!Put(t, a, NoVal)
<1>1. /\ UNCHANGED <<mem, live, pc, allocations>> /\ pc[t] = "body"
      /\ Usable(t, a)
      /\ frees'[t] = frees[t] \cup {a}
      /\ \A u \in Threads \ {t} : frees'[u] = frees[u]
      /\ OpenWriteHit(t, a) \/ OpenWriteLog(t, a, NoVal)
  BY DEF Free, Inv, TypeOK
<1>2. \A u \in Threads : Validated(u)' <=> Validated(u)
  BY <1>1 DEF Validated
<1>3. /\ \A b \in Addrs \ {a} : writeSet'[t][b] = writeSet[t][b]
      /\ \A u \in Threads \ {t} : writeSet'[u] = writeSet[u]
      /\ \/ writeSet' = writeSet /\ a \in WrittenBy(t)
         \/ /\ OpenWriteLog(t, a, NoVal) /\ writeSet'[t][a] = NoVal
  BY <1>1, OwnsIsLogged DEF OpenWriteHit, OpenWriteLog, Inv, TypeOK
<1>4. \A u \in Threads \ {t} : a \notin WrittenBy(u)
  BY <1>3, OwnsIsLogged, LockOfAssumption
  DEF OpenWriteLog, Inv, LocksMatchLogs, BitsMatchLogs, LogsDisjoint
<1>5. \A u \in Threads \ {t} : a \notin allocations[u]
  BY <1>1 DEF Usable, Inv, TypeOK
<1>6. \A u \in Threads \ {t} : PendingOf(u, a) = NoEntry
  BY <1>4, <1>5, PendingExclusive DEF Inv
<1>7. StoreOf(a)' = StoreOf(a)
  <2>1. Allocated(a)' <=> Allocated(a)
    BY <1>1, <1>2 DEF Allocated, Validated
  <2>2. Saved(a)' = Saved(a)
    <3>1. CASE writeSet' = writeSet
      BY <1>2, <3>1 DEF Saved
    <3>2. CASE OpenWriteLog(t, a, NoVal) /\ writeSet'[t][a] = NoVal
      <4>1. writeSet[t][a] = NoEntry
        BY <3>2 DEF OpenWriteLog, WrittenBy
      <4> QED
        BY <1>2, <1>3, <3>2, <4>1, NullAssumption DEF Saved
    <3> QED
      BY <1>3, <3>1, <3>2
  <2> QED
    BY <1>1, <2>1, <2>2 DEF StoreOf
<1>8. \A b \in Addrs \ {a} : StoreOf(b)' = StoreOf(b)
  <2> SUFFICES ASSUME NEW b \in Addrs \ {a}
               PROVE  StoreOf(b)' = StoreOf(b)
    OBVIOUS
  <2>1. \A u \in Threads : writeSet'[u][b] = writeSet[u][b]
    BY <1>3
  <2>2. \A u \in Threads : b \in frees'[u] <=> b \in frees[u]
    BY <1>1
  <2> QED
    BY <1>1, <1>2, <2>1, <2>2, StoreFrame
<1>9. SameStore
  BY <1>7, <1>8 DEF SameStore
<1>10. PendingOf(t, a)' = NoVal
  BY <1>1 DEF PendingOf, InBody
<1>11. \A b \in Addrs \ {a} : PendingOf(t, b)' = PendingOf(t, b)
  BY <1>1, <1>3 DEF PendingOf, InBody, WrittenBy
<1> QED
  BY <1>6, <1>9, <1>10, <1>11, PendingOthers, AbstractPut DEF Inv, SamePending

\* validate() succeeds: everything pending becomes the store's.
LEMMA SimValidateOk ==
  ASSUME LockPerWord, Inv, Inv', NEW t \in Threads, Step(t), ValidateOk(t)
  PROVE  AM!Commit(t)
<1>1. /\ UNCHANGED <<mem, live, writeSet, allocations, frees>>
      /\ pc[t] = "body" /\ pc'[t] = "commit"
      /\ \A u \in Threads \ {t} : pc'[u] = pc[u]
  BY DEF ValidateOk, Goto, shared, logs, Inv, TypeOK
<1>2. /\ \A u \in Threads \ {t} : Validated(u)' <=> Validated(u)
      /\ ~Validated(t) /\ Validated(t)' /\ InBody(t)
  BY <1>1 DEF Validated, InBody
<1>3. \A a \in Addrs : PendingOf(t, a)' = NoEntry
  BY <1>1 DEF PendingOf, InBody
<1>4. ASSUME NEW a \in Addrs
      PROVE  StoreOf(a)' = IF PendingOf(t, a) # NoEntry
                           THEN PendingOf(t, a) ELSE StoreOf(a)
  <2>1. mem[a] # NoEntry /\ NoVal # NoEntry
    BY NullAssumption DEF Inv, TypeOK
  <2>2. CASE a \in frees[t]
    <3>1. PendingOf(t, a) = NoVal
      BY <1>2, <2>2 DEF PendingOf
    <3>2. ~Allocated(a)'
      BY <1>1, <1>2, <2>2, FreesExclusive DEF Allocated, Inv, TypeOK
    <3> QED
      BY <2>1, <3>1, <3>2 DEF StoreOf
  <2>3. CASE a \notin frees[t] /\ a \in WrittenBy(t) \cup allocations[t]
    <3>1. PendingOf(t, a) = mem[a]
      BY <1>2, <2>3 DEF PendingOf
    <3>2. \A u \in Threads \ {t} : a \notin WrittenBy(u) /\ a \notin allocations[u]
      BY <2>3, HeapAssumption
      DEF Inv, HInv, BlocksOwned, LocksMatchLogs, LogsDisjoint, WrittenBy, TypeOK
    <3>3. \A u \in Threads : Validated(u)' => a \notin frees'[u]
      BY <1>1, <1>2, <2>3, <3>2 DEF Inv, HInv, BlocksOwned
    <3>4. a \in Heap => a \in live
      BY <2>3 DEF Inv, HInv, BlocksOwned
    <3>5. Allocated(a)'
      BY <1>1, <1>2, <3>2, <3>3, <3>4 DEF Allocated
    <3>6. \A u \in Threads : ~Saves(u, a)'
      BY <1>1, <1>2, <3>2, NullAssumption DEF Saves, WrittenBy
    <3> QED
      BY <1>1, <2>1, <3>1, <3>5, <3>6, StoreCasesNext DEF Inv, LocksMatchLogs
  <2>4. CASE a \notin frees[t] /\ a \notin WrittenBy(t) \cup allocations[t]
    <3>1. PendingOf(t, a) = NoEntry
      BY <2>4 DEF PendingOf
    <3>2. Allocated(a)' <=> Allocated(a)
      BY <1>1, <1>2, <2>4 DEF Allocated
    <3>3. writeSet[t][a] \notin Vals
      BY <2>4, NullAssumption DEF WrittenBy
    <3>4. Saved(a)' = Saved(a)
      BY <1>1, <1>2, <3>3 DEF Saved
    <3> QED
      BY <1>1, <3>1, <3>2, <3>4 DEF StoreOf
  <2> QED
    BY <2>2, <2>3, <2>4
<1> QED
  BY <1>3, <1>4, PendingOthers, AbstractCommit DEF Inv, SamePending

\* reset(true) gives back locks and blocks that were decided at validation.
LEMMA SimResetCommit ==
  ASSUME LockPerWord, Inv, Inv', NEW t \in Threads, Step(t), ResetCommit(t)
  PROVE  UNCHANGED AM!vars
<1>1. /\ Validated(t) /\ pc'[t] = "idle" /\ ~Validated(t)' /\ ~InBody(t)
      /\ writeSet'[t] = EmptyLog /\ allocations'[t] = {} /\ frees'[t] = {}
      /\ live' = live \ frees[t]
      /\ \A a \in Addrs \ frees[t] : mem'[a] = mem[a]
  BY DEF ResetCommit, Release, ClearLogs, Goto, Inv, TypeOK, Validated, InBody
<1>2. \A u \in Threads \ {t} :
          /\ pc'[u] = pc[u] /\ writeSet'[u] = writeSet[u]
          /\ allocations'[u] = allocations[u] /\ frees'[u] = frees[u]
          /\ Validated(u)' <=> Validated(u)
  BY StepOthers DEF Inv, OthersUntouched, Validated
<1>3. ASSUME NEW a \in frees[t]
      PROVE  StoreOf(a)' = StoreOf(a)
  <2>1. a \in Heap
    BY DEF Inv, TypeOK
  <2>2. ~Allocated(a) /\ ~Allocated(a)'
    BY <1>1, <2>1 DEF Allocated
  <2> QED
    BY <2>2 DEF StoreOf
<1>4. ASSUME NEW a \in Addrs \ frees[t]
      PROVE  StoreOf(a)' = StoreOf(a)
  <2>1. Allocated(a)' <=> Allocated(a)
    BY <1>1, <1>2 DEF Allocated
  <2>2. EmptyLog[a] \notin Vals
    BY NullAssumption DEF EmptyLog
  <2>3. Saved(a)' = Saved(a)
    BY <1>1, <1>2, <2>2 DEF Saved
  <2> QED
    BY <1>1, <2>1, <2>3 DEF StoreOf
<1>5. SameStore
  BY <1>3, <1>4 DEF SameStore
<1>6. SamePending(t)
  BY <1>1 DEF SamePending, PendingOf, InBody
<1> QED
  BY <1>5, <1>6, PendingOthers, AbstractStutter DEF Inv, SamePending

\* An iteration of the rollback puts back the value the word already stands
\* for.
LEMMA SimUndo ==
  ASSUME LockPerWord, Inv, Inv', NEW t \in Threads, Step(t),
         NEW a \in Addrs, Undo(t, a)
  PROVE  UNCHANGED AM!vars
<1>1. /\ UNCHANGED <<pc, live, allocations, frees>> /\ pc[t] = "undo"
      /\ a \in WrittenBy(t) /\ writeSet'[t][a] = NoEntry
      /\ \A b \in Addrs \ {a} : /\ writeSet'[t][b] = writeSet[t][b]
                                /\ mem'[b] = mem[b]
      /\ \A u \in Threads \ {t} : writeSet'[u] = writeSet[u]
      /\ mem'[a] = IF writeSet[t][a] = NoVal THEN mem[a] ELSE writeSet[t][a]
  BY DEF Undo, Inv, TypeOK
<1>2. \A u \in Threads : Validated(u)' <=> Validated(u)
  BY <1>1 DEF Validated
<1>3. \A b \in Addrs : Allocated(b)' <=> Allocated(b)
  BY <1>1, <1>2 DEF Allocated
<1>4. \A u \in Threads \ {t} : a \notin WrittenBy(u)
  BY <1>1 DEF Inv, LocksMatchLogs, LogsDisjoint
<1>5. StoreOf(a)' = StoreOf(a)
  <2>1. \A u \in Threads : ~Saves(u, a)'
    BY <1>1, <1>4, NullAssumption DEF Saves, WrittenBy
  <2>2. CASE writeSet[t][a] = NoVal
    <3>1. \A u \in Threads : ~Saves(u, a)
      BY <1>4, <2>2, NullAssumption DEF Saves, WrittenBy
    <3> QED
      BY <1>1, <1>3, <2>1, <2>2, <3>1, StoreCases, StoreCasesNext
      DEF Inv, LocksMatchLogs
  <2>3. CASE writeSet[t][a] # NoVal
    <3>1. Saves(t, a)
      BY <1>1, <2>3 DEF Saves, Validated, WrittenBy, Inv, TypeOK
    <3> QED
      BY <1>1, <1>3, <2>1, <2>3, <3>1, StoreCases, StoreCasesNext
      DEF Inv, LocksMatchLogs
  <2> QED
    BY <2>2, <2>3
<1>6. \A b \in Addrs \ {a} : StoreOf(b)' = StoreOf(b)
  BY <1>1, <1>2, StoreFrame
<1>7. SameStore
  BY <1>5, <1>6 DEF SameStore
<1>8. SamePending(t)
  BY <1>1 DEF SamePending, PendingOf, InBody
<1> QED
  BY <1>7, <1>8, PendingOthers, AbstractStutter DEF Inv, SamePending

\* The blocks an abort gives back never existed for the others.
LEMMA SimRetry ==
  ASSUME LockPerWord, Inv, Inv', NEW t \in Threads, Step(t), Retry(t)
  PROVE  UNCHANGED AM!vars
<1>1. /\ pc[t] = "undo" /\ pc'[t] = "body" /\ WrittenBy(t) = {}
      /\ writeSet'[t] = EmptyLog /\ allocations'[t] = {} /\ frees'[t] = {}
      /\ live' = live \ allocations[t]
      /\ \A a \in Addrs \ allocations[t] : mem'[a] = mem[a]
  BY DEF Retry, Release, ClearLogs, Goto, Inv, TypeOK
<1>2. \A u \in Threads \ {t} :
          /\ pc'[u] = pc[u] /\ writeSet'[u] = writeSet[u]
          /\ allocations'[u] = allocations[u] /\ frees'[u] = frees[u]
  BY StepOthers DEF Inv, OthersUntouched
<1>3. \A u \in Threads : Validated(u)' <=> Validated(u)
  BY <1>1, <1>2 DEF Validated
<1>4. ~Validated(t)
  BY <1>1 DEF Validated
<1>5. ASSUME NEW a \in allocations[t]
      PROVE  StoreOf(a)' = StoreOf(a)
  <2>1. a \in Heap
    BY DEF Inv, TypeOK
  <2>2. ~Allocated(a) /\ ~Allocated(a)'
    BY <1>1, <1>4, <2>1 DEF Allocated
  <2> QED
    BY <2>2 DEF StoreOf
<1>6. ASSUME NEW a \in Addrs \ allocations[t]
      PROVE  StoreOf(a)' = StoreOf(a)
  <2>1. \A u \in Threads : a \in frees'[u] /\ Validated(u)
                           <=> a \in frees[u] /\ Validated(u)
    BY <1>1, <1>2, <1>4
  <2>2. Allocated(a)' <=> Allocated(a)
    BY <1>1, <1>2, <1>3, <2>1 DEF Allocated
  <2>3. writeSet'[t][a] = writeSet[t][a]
    BY <1>1 DEF EmptyLog, WrittenBy
  <2>4. Saved(a)' = Saved(a)
    BY <1>2, <1>3, <2>3 DEF Saved
  <2> QED
    BY <1>1, <2>2, <2>4 DEF StoreOf
<1>7. SameStore
  BY <1>5, <1>6 DEF SameStore
<1>8. WrittenBy(t)' = {}
  BY <1>1 DEF WrittenBy, EmptyLog
<1>9. SamePending(t)
  BY <1>1, <1>8 DEF SamePending, PendingOf, InBody
<1> QED
  BY <1>7, <1>9, PendingOthers, AbstractStutter DEF Inv, SamePending

LEMMA StepSim ==
  ASSUME LockPerWord, Inv, Inv', NEW t \in Threads, Step(t)
  PROVE  AM!Next \/ UNCHANGED AM!vars
<1>1. ASSUME NEW a \in Addrs, NEW v \in Vals, OpenWrite(t, a, v)
      PROVE  AM!Next \/ UNCHANGED AM!vars
  <2>1. mem[a] \in Vals
    BY DEF Inv, TypeOK
  <2> QED
    BY <1>1, <2>1, SimOpenWrite DEF AM!Next
<1>2. CASE WriteValue(t)
  <2>1. target[t] \in Addrs /\ value[t] \in Vals
    BY <1>2 DEF WriteValue, Inv, TypeOK
  <2> QED
    BY <1>2, <2>1, SimWriteValue DEF AM!Next
<1>3. ASSUME NEW a \in Addrs, NEW v \in Vals, Alloc(t, a, v)
      PROVE  AM!Next
  BY <1>3, SimAlloc DEF AM!Next
<1>4. ASSUME NEW a \in Addrs, Free(t, a)
      PROVE  AM!Next
  BY <1>4, SimFree DEF AM!Next
<1>5. CASE ValidateOk(t)
  BY <1>5, SimValidateOk DEF AM!Next
<1>6. CASE \/ Abort(t) \/ AllocFails(t) \/ ValidateFails(t)
           \/ \E a \in Addrs :
                  LoadRefused(t, a) \/ StoreRefused(t, a) \/ FreeRefused(t, a)
  BY <1>6, SimThrow DEF AM!Next
<1>7. CASE \/ Begin(t) \/ BeginNested(t) \/ CommitNested(t) \/ ReadValue(t)
           \/ ResetAbort(t)
           \/ \E a \in Addrs : OpenRead(t, a)
  BY <1>7, SimQuiet
<1>8. CASE ResetCommit(t) \/ Retry(t) \/ \E a \in Addrs : Undo(t, a)
  BY <1>8, SimResetCommit, SimUndo, SimRetry
<1> QED
  BY <1>1, <1>2, <1>3, <1>4, <1>5, <1>6, <1>7, <1>8 DEF Step

LEMMA InitSim == Init => AM!Init
<1> SUFFICES ASSUME Init PROVE AM!Init
  OBVIOUS
<1>1. \A a \in Addrs : StoreOf(a) \in Vals \cup {NoVal}
  <2>1. \A a \in Addrs : Saved(a) = {}
    BY NullAssumption DEF Init, Saved, EmptyLog
  <2> QED
    BY <2>1 DEF StoreOf, Init
<1>2. \A t \in Threads, a \in Addrs : PendingOf(t, a) = NoEntry
  BY DEF Init, PendingOf, InBody
<1> QED
  BY <1>1, <1>2 DEF AM!Init, AM!Nothing

LEMMA UnchangedSim ==
  ASSUME UNCHANGED vars
  PROVE  UNCHANGED AM!vars
  BY DEF vars, shared, logs, AM!vars, StoreOf, Allocated, Saved, Validated,
         PendingOf, InBody, WrittenBy

LEMMA StepInv ==
  ASSUME LockPerWord, Inv, [Next]_vars
  PROVE  Inv'
<1>1. CASE UNCHANGED vars
  BY <1>1 DEF Inv, TypeOK, LocksMatchLogs, BitsMatchLogs, LogsDisjoint,
              StoresOwned, Owns, HInv, BlocksOwned, LogShape, WrittenBy,
              InBody, Validated, vars, shared, logs
<1>2. ASSUME NEW t \in Threads, Step(t)
      PROVE  Inv'
  BY <1>2, StepTypeOK, StepLocks, StepHInv DEF Inv
<1> QED
  BY <1>1, <1>2 DEF Next, Finished

-----------------------------------------------------------------------------
(* The theorems *)

\* Undo logs and allocation logs refer to live blocks of their own
\* transaction only.
THEOREM BlocksCorrect ==
  ASSUME LockPerWord
  PROVE  Spec => [](BlocksOwned /\ LogShape)
<1>1. Init => Inv
  BY InitTypeOK, InitLocks, InitHInv DEF Inv
<1>2. Inv /\ [Next]_vars => Inv'
  BY StepInv
<1>3. Inv => BlocksOwned /\ LogShape
  BY DEF Inv, HInv
<1> QED
  BY <1>1, <1>2, <1>3, PTL DEF Spec

\* The writes of the STM are atomic: it implements AtomicMemory.
THEOREM WritesAreAtomic ==
  ASSUME LockPerWord
  PROVE  Spec => WritesAtomic
<1>1. Init => Inv
  BY InitTypeOK, InitLocks, InitHInv DEF Inv
<1>2. Inv /\ [Next]_vars => Inv'
  BY StepInv
<1>3. Inv /\ Inv' /\ [Next]_vars => [AM!Next]_(AM!vars)
  BY StepSim, UnchangedSim DEF Next, Finished
<1> QED
  BY <1>1, <1>2, <1>3, InitSim, PTL DEF Spec, WritesAtomic, AM!Spec
=============================================================================
