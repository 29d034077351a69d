-------------------------- MODULE TL2AtomicProofs ---------------------------
(***************************************************************************)
(* The data of TL2, for any number of threads, words, locks and commits:   *)
(* memory below the clock is what was committed (FreeWordsCommitted,       *)
(* FreeLoadsSnapshot), and only whole transactions show in it (TL2Atomic). *)
(*                                                                         *)
(* All of it rests on the locks being their holders' (KInv of TL2Proofs),  *)
(* so on SoleStorer.  What has to be added is a lower bound for the        *)
(* version a lock will have when it is free the next time (AtLeast), which *)
(* no step of any thread takes back.                                       *)
(***************************************************************************)
EXTENDS TL2Proofs

\* t has stored to a, or may have, and has not reached its end: rolled back
\* or committed.
Active(t)   == pc[t] \notin {"drop", "restore"}
Holds(t, a) == Active(t) /\ a \in Written(t)

-----------------------------------------------------------------------------
(* Versions *)

DataTypes ==
    /\ room \in [Threads -> Nat]
    /\ rdSet \in [Threads -> Seq(Locks)]
    /\ seen \in [Threads -> SUBSET Addrs]
    /\ committed \in [Addrs -> [valu : Vals, ver : Nat]]
    /\ \A t \in Threads : /\ Len(rdSet[t]) <= room[t]
                          /\ pc[t] = "grow" => op[t].addr \in Addrs

\* No version is ahead of the clock, the one being drawn excepted, and a
\* write version is newer than every version its transaction found.
Versions(t) ==
    /\ rv[t] <= GClock
    /\ wv[t] <= (IF pc[t] = "clock" THEN GClock + 1 ELSE GClock)
    /\ pc[t] = "clock" => wv[t] <= MaxClock
    /\ pc[t] = "store" => op[t].cv.n <= GClock
    /\ \A i \in 1 .. Len(wrSet[t]) :
           /\ wrSet[t][i].rdv <= GClock
           /\ pc[t] \in {"clock", "validate", "drop"} => wrSet[t][i].rdv < wv[t]

FreeVersions ==
    /\ GClock <= MaxClock
    /\ \A l \in Locks : LockTab[l].by = NoThread => LockTab[l].n <= GClock
    /\ \A a \in Addrs : committed[a].ver <= GClock

\* The version the i-th entry of t is going to give its lock.
GivesBack(t, i) == IF pc[t] = "drop" THEN wv[t] ELSE wrSet[t][i].rdv

\* t will not give l a version below m ...
Above(t, l, m) ==
    /\ pc[t] = "store" /\ LockOf[op[t].addr] = l => op[t].cv.n >= m
    /\ \A i \in Unreleased(t) :
           LockOf[wrSet[t][i].addr] = l => GivesBack(t, i) >= m

\* ... and nobody did: when l is free, now or later on, it has version m or
\* a newer one.
AtLeast(l, m) ==
    /\ LockTab[l].by = NoThread => LockTab[l].n >= m
    /\ \A t \in Threads : Above(t, l, m)

\* What t has found behind one lock is one version; and once t has given
\* the lock back, that is what the rest of its entries will give it, too.
OneVersion(t) ==
    /\ \A i, j \in 1 .. Len(wrSet[t]) :
           LockOf[wrSet[t][i].addr] = LockOf[wrSet[t][j].addr] =>
               wrSet[t][i].rdv = wrSet[t][j].rdv
    /\ pc[t] = "store" => \A i \in 1 .. Len(wrSet[t]) :
           LockOf[wrSet[t][i].addr] = LockOf[op[t].addr] =>
               wrSet[t][i].rdv = op[t].cv.n
    /\ \A i \in Unreleased(t) :
           LET l == LockOf[wrSet[t][i].addr]
           IN LockTab[l].by = NoThread => LockTab[l].n = GivesBack(t, i)

VInv ==
    /\ KInv /\ DataTypes /\ FreeVersions
    /\ \A t \in Threads : Versions(t) /\ OneVersion(t)
    /\ \A a \in Addrs : AtLeast(LockOf[a], committed[a].ver)

-----------------------------------------------------------------------------
(* Values *)

\* The i-th entry of t is the first one for a.
First(t, i, a) ==
    /\ i \in 1 .. Len(wrSet[t]) /\ wrSet[t][i].addr = a
    /\ \A k \in 1 .. i - 1 : wrSet[t][k].addr # a

\* The first entry for a word has its committed value; when the rollback has
\* passed it, the word has it, too.
Saved(t) ==
    /\ pc[t] = "write" => op[t].addr \in Written(t)
    /\ Active(t) => \A a \in Written(t) : \E i \in 1 .. Len(wrSet[t]) :
           First(t, i, a) /\ wrSet[t][i].valu = committed[a].valu
    /\ pc[t] = "undo" => \A a \in Written(t) :
           \/ \E i \in 1 .. at[t] : wrSet[t][i].addr = a
           \/ memory[a] = committed[a].valu

\* A word nobody is writing has its committed value.
Settled(a) ==
    (\A t \in Threads : ~Holds(t, a)) => memory[a] = committed[a].valu

MInv == (\A t \in Threads : Saved(t)) /\ \A a \in Addrs : Settled(a)

-----------------------------------------------------------------------------
(* Reads *)

\* A load in flight: nobody takes back the bound its lock gave, and a value
\* found while the lock was free is either still the committed one or older
\* than a version the lock is going to have.
Loading(t) ==
    pc[t] \in {"load", "loaded"} =>
        LET l == LockOf[op[t].addr]
            cv == op[t].cv
            now == committed[op[t].addr]
        IN /\ MayRead(t, cv)
           /\ cv.by = t => /\ LockTab[l].by = t
                           /\ pc[t] = "loaded" => op[t].locked
           /\ cv.by = NoThread => AtLeast(l, cv.n)
           /\ pc[t] = "loaded" /\ ~op[t].locked =>
                  op[t].valu = now.valu \/ now.ver > cv.n

\* Who is about to commit to a word another thread was told of has drawn a
\* version above that thread's.
Newer(t) ==
    /\ pc[t] = "idle" => seen[t] = {}
    /\ pc[t] \in {"clock", "validate"} => \A u \in Threads \ {t} :
           seen[u] \cap Written(t) # {} => wv[t] > rv[u]

RInv == \A t \in Threads : Loading(t) /\ Newer(t)

DInv == VInv /\ MInv /\ RInv

-----------------------------------------------------------------------------
(* What one step does *)

\* Steps that change nothing the threads share, and no write set, and enter
\* none of the places where the locks or the versions are about to change.
Rest(t) ==
    /\ UNCHANGED <<memory, LockTab, GClock, wrSet, committed>>
    /\ pc[t] \notin {"store", "write", "clock", "drop", "undo", "restore"}
    /\ pc'[t] \in {"idle", "body", "load", "loaded", "grow", "validate", "undo"}
    /\ wv'[t] \in {wv[t], 0}
    /\ pc'[t] = "validate" => pc[t] = "validate" /\ wv'[t] = wv[t]
    /\ pc'[t] = "undo" => at'[t] = Len(wrSet[t])

LEMMA RestSteps ==
  ASSUME LInv, NEW t \in Threads,
         \/ TxStart(t) \/ Restart(t) \/ CommitReadOnly(t)
         \/ \E a \in Addrs : TxLoad(t, a) \/ LoadRefused(t, a) \/ StoreRefused(t, a)
         \/ LoadValue(t) \/ LoadCheck(t) \/ LoadFails(t) \/ TrackLoad(t)
         \/ ReadSetCoherentPessimistic(t) \/ ReadSetCoherent(t)
  PROVE  Rest(t)
<1>1. /\ pc \in [Threads -> Places] /\ wv \in [Threads -> Nat]
      /\ at \in [Threads -> Nat] /\ wrSet \in [Threads -> Seq(Entries)]
  BY DEF LInv, Types
<1>2. ASSUME TxAbort(t), pc[t] \in {"body", "loaded", "grow", "validate"}
      PROVE  Rest(t)
  <2>1. UNCHANGED <<memory, LockTab, GClock, committed>>
    BY <1>2 DEF TxAbort, shared
  <2>2. CASE wrSet[t] = << >>
    <3>1. wrSet' = [wrSet EXCEPT ![t] = << >>]
      BY <1>2, <2>2 DEF TxAbort, txReset
    <3>2. pc'[t] = "idle" /\ wv'[t] = 0
      BY <1>1, <1>2, <2>2 DEF TxAbort, txReset, Goto
    <3>3. wrSet' = wrSet
      BY <1>1, <2>2, <3>1
    <3> QED
      BY <1>2, <2>1, <3>2, <3>3 DEF Rest
  <2>3. CASE wrSet[t] # << >>
    BY <1>1, <1>2, <2>1, <2>3 DEF Rest, TxAbort, Goto
  <2> QED
    BY <2>2, <2>3
<1>3. CASE TxStart(t)
  BY <1>1, <1>3 DEF Rest, TxStart, Goto, shared
<1>4. CASE Restart(t)
  BY <1>2, <1>4 DEF Restart
<1>5. CASE CommitReadOnly(t)
  BY <1>1, <1>5 DEF Rest, CommitReadOnly, txReset, Goto, shared
<1>6. ASSUME NEW a \in Addrs, TxLoad(t, a) PROVE Rest(t)
  BY <1>1, <1>6 DEF Rest, TxLoad, Goto, shared
<1>7. ASSUME NEW a \in Addrs, LoadRefused(t, a) \/ StoreRefused(t, a)
      PROVE  Rest(t)
  BY <1>2, <1>7 DEF LoadRefused, StoreRefused
<1>8. CASE LoadValue(t) \/ LoadCheck(t) \/ TrackLoad(t)
  BY <1>1, <1>8 DEF Rest, LoadValue, LoadCheck, TrackLoad, Accept, Goto, shared
<1>9. CASE LoadFails(t)
  BY <1>2, <1>9 DEF LoadFails
<1>10. ASSUME CheckEntry(t), pc[t] \in {"grow", "validate"} PROVE Rest(t)
  <2>1. CASE TxAbort(t)
    BY <1>2, <1>10, <2>1
  <2>2. CASE ~TxAbort(t)
    BY <1>1, <1>10, <2>2 DEF Rest, CheckEntry, shared
  <2> QED
    BY <2>1, <2>2
<1>11. CASE ReadSetCoherentPessimistic(t) \/ ReadSetCoherent(t)
  BY <1>10, <1>11 DEF ReadSetCoherentPessimistic, ReadSetCoherent
<1> QED
  BY <1>3, <1>4, <1>5, <1>6, <1>7, <1>8, <1>9, <1>11

LEMMA StepSorts ==
  ASSUME LInv, NEW t \in Threads, TL2Step(t)
  PROVE  \/ \E a \in Addrs, v \in Vals : StoreLock(t, a, v) \/ StoreOwn(t, a, v)
         \/ StoreRecord(t) \/ StoreValue(t)
         \/ GVGenerate(t) \/ GVSwap(t) \/ Validated(t)
         \/ DropLocks(t) \/ WriteBackReverse(t) \/ RestoreLocks(t)
         \/ Rest(t)
  BY RestSteps DEF TL2Step

\* The clock and the rest of the other threads' variables.
LEMMA ClockRises ==
  ASSUME LInv, NEW t \in Threads, TL2Step(t)
  PROVE  GClock \in Nat /\ GClock' \in Nat /\ GClock' >= GClock
<1>1. GClock \in Nat /\ wv[t] \in Nat
  BY DEF LInv, Types
<1>2. CASE GVSwap(t)
  BY <1>1, <1>2 DEF GVSwap
<1>3. CASE ~GVSwap(t)
  <2>1. GClock' = GClock
    BY <1>3, StepSorts, Zenon
    DEF StoreLock, StoreOwn, BeginStore, StoreRecord, StoreValue, GVGenerate,
        Validated, DropLocks, WriteBackReverse, RestoreLocks, Release, Rest, shared
  <2> QED
    BY <1>1, <2>1
<1> QED
  BY <1>2, <1>3

LEMMA OthersAlone ==
  ASSUME KInv, DataTypes, NEW t \in Threads, TL2Step(t), NEW u \in Threads \ {t}
  PROVE  /\ rv'[u] = rv[u] /\ wv'[u] = wv[u] /\ rdSet'[u] = rdSet[u]
         /\ room'[u] = room[u] /\ seen'[u] = seen[u]
<1>1. /\ rv \in [Threads -> Nat] /\ wv \in [Threads -> Nat]
      /\ rdSet \in [Threads -> Seq(Locks)] /\ room \in [Threads -> Nat]
      /\ seen \in [Threads -> SUBSET Addrs]
  BY DEF KInv, LInv, Types, DataTypes
<1> DEFINE G == /\ rv'[u] = rv[u] /\ wv'[u] = wv[u] /\ rdSet'[u] = rdSet[u]
                /\ room'[u] = room[u] /\ seen'[u] = seen[u]
<1>2. TxAbort(t) => G
  BY <1>1 DEF TxAbort, txReset
<1>3. CASE TxStart(t) \/ Restart(t) \/ CommitReadOnly(t)
  BY <1>1, <1>2, <1>3 DEF TxStart, Restart, CommitReadOnly, txReset
<1>4. CASE \E a \in Addrs : TxLoad(t, a) \/ LoadRefused(t, a) \/ StoreRefused(t, a)
  BY <1>1, <1>2, <1>4 DEF TxLoad, LoadRefused, StoreRefused
<1>5. CASE LoadValue(t) \/ LoadCheck(t) \/ LoadFails(t) \/ TrackLoad(t)
  BY <1>1, <1>2, <1>5 DEF LoadValue, LoadCheck, LoadFails, TrackLoad, Accept, Sees
<1>6. CASE ReadSetCoherentPessimistic(t) \/ ReadSetCoherent(t)
  BY <1>1, <1>2, <1>6
     DEF ReadSetCoherentPessimistic, ReadSetCoherent, CheckEntry
<1>7. CASE \E a \in Addrs, v \in Vals : StoreLock(t, a, v) \/ StoreOwn(t, a, v)
  BY <1>1, <1>7 DEF StoreLock, StoreOwn, BeginStore
<1>8. CASE StoreRecord(t) \/ StoreValue(t) \/ WriteBackReverse(t)
  BY <1>1, <1>8 DEF StoreRecord, StoreValue, WriteBackReverse
<1>9. CASE GVGenerate(t) \/ GVSwap(t) \/ Validated(t)
  BY <1>1, <1>9 DEF GVGenerate, GVSwap, Validated
<1>10. CASE DropLocks(t) \/ RestoreLocks(t)
  BY <1>1, <1>10 DEF DropLocks, RestoreLocks, Release, txReset
<1> QED
  BY <1>3, <1>4, <1>5, <1>6, <1>7, <1>8, <1>9, <1>10 DEF TL2Step

-----------------------------------------------------------------------------
(* Versions *)

\* What TxStore does to the thread and to the lock: the version it remembers
\* is the lock's or, when the lock is t's, the one t's entry remembers.
LEMMA StoreEffect ==
  ASSUME LInv, NEW t \in Threads, NEW a \in Addrs, NEW v \in Vals,
         StoreLock(t, a, v) \/ StoreOwn(t, a, v)
  PROVE  /\ UNCHANGED <<memory, GClock, rv, wv, wrSet, at, seen, committed>>
         /\ pc[t] = "body" /\ pc'[t] = "store"
         /\ op'[t].addr = a /\ op'[t].valu = v /\ LockOf[a] \in Locks
         /\ \A l \in Locks \ {LockOf[a]} : LockTab'[l] = LockTab[l]
         /\ LockTab'[LockOf[a]].by = t
         /\ \/ /\ LockTab[LockOf[a]].by = NoThread
               /\ op'[t].cv.n = LockTab[LockOf[a]].n
            \/ \E i \in 1 .. Len(wrSet[t]) :
                   /\ LockTab[LockOf[a]].by = t
                   /\ LockOf[wrSet[t][i].addr] = LockOf[a]
                   /\ op'[t].cv.n = wrSet[t][i].rdv
<1> DEFINE k == LockOf[a]
<1>1. k \in Locks /\ LockTab \in [Locks -> Stamps] /\ pc \in [Threads -> Places]
      /\ op \in [Threads -> InOp]
  BY TL2Assumption DEF LInv, Types
<1>2. ASSUME NEW cv, BeginStore(t, a, v, cv)
      PROVE  /\ UNCHANGED <<memory, GClock, rv, wv, wrSet, at, seen, committed>>
             /\ pc[t] = "body" /\ pc'[t] = "store"
             /\ op'[t].addr = a /\ op'[t].valu = v /\ op'[t].cv = cv
  BY <1>1, <1>2 DEF BeginStore, Goto, Idle
<1>3. CASE StoreLock(t, a, v)
  <2>1. /\ LockTab[k].by = NoThread /\ BeginStore(t, a, v, LockTab[k])
        /\ LockTab' = [LockTab EXCEPT ![k] = LockedBy(t, 0)]
    BY <1>3 DEF StoreLock, OwnerOf
  <2> QED
    BY <1>1, <1>2, <2>1 DEF LockedBy
<1>4. CASE StoreOwn(t, a, v)
  <2> DEFINE i == LockTab[k].n
  <2>1. /\ LockTab[k].by = t /\ UNCHANGED LockTab
        /\ BeginStore(t, a, v, Free(wrSet[t][i].rdv))
    BY <1>4 DEF StoreOwn, OwnerOf
  <2>2. pc[t] = "body"
    BY <2>1 DEF BeginStore
  <2>3. i \in 1 .. Len(wrSet[t]) /\ LockOf[wrSet[t][i].addr] = k
    BY <1>1, <2>1, <2>2 DEF LInv, HeldBy
  <2>4. op'[t].cv.n = wrSet[t][i].rdv
    BY <1>2, <2>1 DEF Free
  <2> QED
    BY <1>1, <1>2, <2>1, <2>3, <2>4, Zenon
<1> QED
  BY <1>3, <1>4

\* RecordStore.
LEMMA RecordEffect ==
  ASSUME LInv, NEW t \in Threads, StoreRecord(t)
  PROVE  LET a == op[t].addr
             m == Len(wrSet[t]) + 1
         IN /\ UNCHANGED <<memory, GClock, rv, wv, op, at, seen, committed>>
            /\ pc[t] = "store" /\ pc'[t] = "write"
            /\ a \in Addrs /\ LockOf[a] \in Locks
            /\ \A l \in Locks \ {LockOf[a]} : LockTab'[l] = LockTab[l]
            /\ LockTab'[LockOf[a]].by = t
            /\ m \in Nat \ {0} /\ Len(wrSet'[t]) = m
            /\ wrSet'[t][m].addr = a /\ wrSet'[t][m].valu = memory[a]
            /\ wrSet'[t][m].rdv = op[t].cv.n
            /\ \A i \in 1 .. Len(wrSet[t]) : i # m /\ wrSet'[t][i] = wrSet[t][i]
<1> DEFINE a == op[t].addr
           e == [addr |-> a, valu |-> memory[a], rdv |-> op[t].cv.n]
           m == Len(wrSet[t]) + 1
<1>1. /\ pc[t] = "store" /\ pc' = [pc EXCEPT ![t] = "write"]
      /\ wrSet' = [wrSet EXCEPT ![t] = Append(@, e)]
      /\ LockTab' = [LockTab EXCEPT ![LockOf[a]] = LockedBy(t, m)]
      /\ UNCHANGED <<memory, GClock, rv, wv, op, at, seen, committed>>
  BY DEF StoreRecord, Goto
<1>2. a \in Addrs /\ LockOf[a] \in Locks /\ LockTab \in [Locks -> Stamps]
      /\ pc \in [Threads -> Places] /\ wrSet \in [Threads -> Seq(Entries)]
  BY <1>1, TL2Assumption DEF LInv, Types, Located
<1>3. e \in Entries
  BY <1>2 DEF LInv, Types, Entries, InOp, Stamps
<1>4. e.addr = a /\ e.valu = memory[a] /\ e.rdv = op[t].cv.n
  OBVIOUS
<1>5. pc'[t] = "write" /\ wrSet'[t] = Append(wrSet[t], e)
  BY <1>1, <1>2
<1>6. /\ \A l \in Locks \ {LockOf[a]} : LockTab'[l] = LockTab[l]
      /\ LockTab'[LockOf[a]].by = t
  BY <1>1, <1>2 DEF LockedBy
<1> HIDE DEF e
<1>7. /\ m \in Nat \ {0} /\ Len(wrSet'[t]) = m /\ wrSet'[t][m] = e
      /\ \A i \in 1 .. Len(wrSet[t]) : i # m /\ wrSet'[t][i] = wrSet[t][i]
  BY <1>2, <1>3, <1>5
<1> QED
  BY <1>1, <1>2, <1>4, <1>5, <1>6, <1>7

\* One entry of DropLocks or RestoreLocks.
LEMMA ReleaseEffect ==
  ASSUME LInv, NEW t \in Threads, DropLocks(t) \/ RestoreLocks(t)
  PROVE  LET k == LockOf[wrSet[t][at[t]].addr]
         IN /\ UNCHANGED <<memory, GClock, committed>>
            /\ pc[t] \in {"drop", "restore"}
            /\ at[t] \in 1 .. Len(wrSet[t]) /\ k \in Locks
            /\ \A l \in Locks \ {k} : LockTab'[l] = LockTab[l]
            /\ LockTab'[k] = Free(GivesBack(t, at[t]))
            /\ \/ /\ at'[t] = at[t] + 1 /\ at[t] < Len(wrSet[t])
                  /\ UNCHANGED <<pc, rv, wv, wrSet, op, seen>>
               \/ /\ txReset(t) /\ at[t] = Len(wrSet[t])
                  /\ wrSet'[t] = << >> /\ pc'[t] = "idle" /\ rv'[t] = 0 /\ wv'[t] = 0
<1> DEFINE k == LockOf[wrSet[t][at[t]].addr]
<1>1. pc[t] \in {"drop", "restore"} /\ Release(t, GivesBack(t, at[t]))
  BY DEF DropLocks, RestoreLocks, GivesBack
<1>2. at[t] \in 1 .. Len(wrSet[t]) /\ Len(wrSet[t]) \in Nat
  BY <1>1 DEF LInv, Located, Types
<1>3. k \in Locks
  BY <1>2, EntryLock
<1>4. /\ UNCHANGED <<memory, GClock, committed>>
      /\ LockTab' = [LockTab EXCEPT ![k] = Free(GivesBack(t, at[t]))]
  BY <1>1 DEF Release
<1>5. /\ \A l \in Locks \ {k} : LockTab'[l] = LockTab[l]
      /\ LockTab'[k] = Free(GivesBack(t, at[t]))
  BY <1>3, <1>4 DEF LInv, Types
<1>6. CASE at[t] < Len(wrSet[t])
  BY <1>1, <1>2, <1>3, <1>4, <1>5, <1>6 DEF Release, LInv, Types
<1>7. CASE ~(at[t] < Len(wrSet[t]))
  <2>1. txReset(t) /\ at[t] = Len(wrSet[t])
    BY <1>1, <1>2, <1>7 DEF Release
  <2>2. wrSet'[t] = << >> /\ pc'[t] = "idle" /\ rv'[t] = 0 /\ wv'[t] = 0
    BY <2>1 DEF txReset, Goto, LInv, Types
  <2> QED
    BY <1>1, <1>2, <1>3, <1>4, <1>5, <2>1, <2>2
<1> QED
  BY <1>6, <1>7

\* Numbers, where the types have them.
LEMMA Numbers ==
  ASSUME LInv, NEW t \in Threads
  PROVE  /\ GClock \in Nat /\ rv[t] \in Nat /\ wv[t] \in Nat
         /\ at[t] \in Nat /\ Len(wrSet[t]) \in Nat /\ op[t].cv.n \in Nat
         /\ \A i \in 1 .. Len(wrSet[t]) : wrSet[t][i].rdv \in Nat
         /\ \A l \in Locks : LockTab[l].n \in Nat
<1>1. op[t] \in InOp /\ wrSet[t] \in Seq(Entries) /\ LockTab \in [Locks -> Stamps]
  BY DEF LInv, Types
<1>2. op[t].cv.n \in Nat
  <2>1. op[t].cv \in Stamps
    BY <1>1 DEF InOp
  <2> QED
    BY <2>1 DEF Stamps
<1>4. ASSUME NEW l \in Locks PROVE LockTab[l].n \in Nat
  <2>1. LockTab[l] \in Stamps
    BY <1>1
  <2> QED
    BY <2>1 DEF Stamps
<1>3. Len(wrSet[t]) \in Nat /\ \A i \in 1 .. Len(wrSet[t]) : wrSet[t][i].rdv \in Nat
  <2>1. Len(wrSet[t]) \in Nat /\ \A i \in 1 .. Len(wrSet[t]) : wrSet[t][i] \in Entries
    BY <1>1
  <2> QED
    BY <2>1 DEF Entries
<1> QED
  BY <1>2, <1>3, <1>4 DEF LInv, Types

LEMMA VersionsKept ==
  ASSUME VInv, NEW t \in Threads, TL2Step(t), NEW u \in Threads, LInv'
  PROVE  Versions(u)'
<1>1. LInv /\ KInv /\ DataTypes /\ FreeVersions /\ Versions(u) /\ Versions(t)
  BY DEF VInv, KInv
<1>2. GClock \in Nat /\ GClock' \in Nat /\ GClock' >= GClock
  BY <1>1, ClockRises, SMTT(30)
<1>3. CASE u # t
  <2>1. /\ pc'[u] = pc[u] /\ op'[u] = op[u] /\ wrSet'[u] = wrSet[u]
        /\ rv'[u] = rv[u] /\ wv'[u] = wv[u]
    BY <1>1, <1>3, Alone, OthersAlone
  <2> QED
    BY <1>1, <1>2, <2>1, Numbers, SMTT(30) DEF Versions
<1>4. CASE u = t
  <2>1. CASE \E a \in Addrs, v \in Vals : StoreLock(t, a, v) \/ StoreOwn(t, a, v)
    <3>1. PICK a \in Addrs, v \in Vals : StoreLock(t, a, v) \/ StoreOwn(t, a, v)
      BY <2>1
    <3>2. op'[t].cv.n <= GClock
      BY <1>1, <3>1, StoreEffect, SMTT(30) DEF FreeVersions, Versions
    <3>3. /\ UNCHANGED <<GClock, rv, wv, wrSet>> /\ pc[t] = "body" /\ pc'[t] = "store"
      BY <1>1, <3>1, StoreEffect
    <3> QED
      BY <1>1, <1>4, <3>2, <3>3 DEF Versions
  <2>2. CASE StoreRecord(t)
    <3>1. ASSUME NEW i \in 1 .. Len(wrSet'[t]) PROVE wrSet'[t][i].rdv <= GClock
      BY <1>1, <2>2, RecordEffect, SMTT(30) DEF Versions
    <3>2. UNCHANGED <<GClock, rv, wv>> /\ pc[t] = "store" /\ pc'[t] = "write"
      BY <1>1, <2>2, RecordEffect
    <3> QED
      BY <1>1, <1>4, <3>1, <3>2 DEF Versions
  <2>3. CASE StoreValue(t) \/ WriteBackReverse(t)
    <3>1. /\ UNCHANGED <<GClock, rv, wv, wrSet>>
          /\ pc[t] \in {"write", "undo"} /\ pc'[t] \in {"body", "undo", "restore"}
      BY <1>1, <2>3 DEF StoreValue, WriteBackReverse, Goto, LInv, Types
    <3> QED
      BY <1>1, <1>4, <3>1 DEF Versions
  <2>4. CASE GVGenerate(t)
    <3>1. /\ UNCHANGED <<GClock, rv, wrSet>> /\ wv'[t] = GClock + 1
          /\ pc'[t] = "clock" /\ GClock < MaxClock
      BY <1>1, <2>4 DEF GVGenerate, Goto, shared, LInv, Types
    <3>2. \A i \in 1 .. Len(wrSet[t]) :
              wrSet[t][i].rdv <= GClock /\ wrSet[t][i].rdv \in Nat
      BY <1>1, <1>4, Numbers DEF Versions
    <3> QED
      BY <1>1, <1>2, <1>4, <3>1, <3>2, TL2Assumption DEF Versions
  <2>5. CASE GVSwap(t)
    <3>1. /\ UNCHANGED <<rv, wrSet>> /\ pc[t] = "clock" /\ pc'[t] = "validate"
          /\ \/ GClock = wv[t] - 1 /\ GClock' = wv[t] /\ wv'[t] = wv[t]
             \/ GClock # wv[t] - 1 /\ GClock' = GClock /\ wv'[t] = GClock
      BY <1>1, <2>5 DEF GVSwap, Goto, LInv, Types
    <3>2. rv[t] <= GClock' /\ wv'[t] <= GClock' /\ wv[t] <= wv'[t]
      BY <1>1, <1>2, <3>1, Numbers DEF Versions
    <3>3. ASSUME NEW i \in 1 .. Len(wrSet[t])
          PROVE  wrSet[t][i].rdv <= GClock' /\ wrSet[t][i].rdv < wv'[t]
      <4>1. /\ wrSet[t][i].rdv \in Nat /\ wv[t] \in Nat /\ wv'[t] \in Nat
            /\ wrSet[t][i].rdv <= GClock /\ wrSet[t][i].rdv < wv[t]
        BY <1>1, <3>1, Numbers DEF Versions, LInv, Types
      <4> QED
        BY <1>2, <3>2, <4>1
    <3> QED
      BY <1>4, <3>1, <3>2, <3>3 DEF Versions
  <2>6. CASE Validated(t)
    <3>1. /\ UNCHANGED <<GClock, rv, wv, wrSet>>
          /\ pc[t] = "validate" /\ pc'[t] = "drop"
      BY <1>1, <2>6 DEF Validated, Goto, shared, LInv, Types
    <3> QED
      BY <1>1, <1>4, <3>1 DEF Versions
  <2>7. CASE DropLocks(t) \/ RestoreLocks(t)
    <3>1. UNCHANGED GClock /\ pc[t] \in {"drop", "restore"}
      BY <1>1, <2>7, ReleaseEffect
    <3>2. CASE UNCHANGED <<pc, rv, wv, wrSet, op>>
      BY <1>1, <1>4, <3>1, <3>2 DEF Versions
    <3>3. CASE wrSet'[t] = << >> /\ pc'[t] = "idle" /\ rv'[t] = 0 /\ wv'[t] = 0
      BY <1>2, <1>4, <3>1, <3>3 DEF Versions
    <3> QED
      BY <1>1, <2>7, <3>2, <3>3, ReleaseEffect
  <2>8. CASE Rest(t)
    <3>1. rv'[t] <= GClock
      <4>1. CASE TxStart(t)
        BY <1>1, <1>2, <4>1 DEF TxStart, LInv, Types
      <4>2. CASE ~TxStart(t)
        <5>1. TxAbort(t) => rv'[t] \in {rv[t], 0}
          BY <1>1 DEF TxAbort, txReset, LInv, Types
        <5>2. rv'[t] \in {rv[t], 0}
          BY <1>1, <2>8, <4>2, <5>1, Zenon
          DEF TL2Step, Rest, Restart, TxLoad, LoadRefused, StoreRefused,
              LoadValue, LoadCheck, LoadFails, Accept, TrackLoad,
              ReadSetCoherentPessimistic, ReadSetCoherent, CheckEntry,
              StoreLock, StoreOwn, BeginStore, StoreRecord, StoreValue,
              CommitReadOnly, txReset, GVGenerate, GVSwap, Validated,
              DropLocks, WriteBackReverse, RestoreLocks, LInv, Types
        <5> QED
          BY <1>1, <1>2, <5>2 DEF Versions
      <4> QED
        BY <4>1, <4>2
    <3>2. /\ UNCHANGED <<GClock, wrSet>> /\ wv'[t] \in {wv[t], 0}
          /\ pc[t] \notin {"store", "clock", "drop"}
          /\ pc'[t] \notin {"store", "clock", "drop"}
          /\ pc'[t] = "validate" => pc[t] = "validate" /\ wv'[t] = wv[t]
      BY <2>8 DEF Rest
    <3> QED
      BY <1>1, <1>2, <1>4, <3>1, <3>2 DEF Versions
  <2> QED
    BY <1>1, <2>1, <2>2, <2>3, <2>4, <2>5, <2>6, <2>7, <2>8, StepSorts
<1> QED
  BY <1>3, <1>4

\* What a step does to the committed words: nothing, or the commit point.
LEMMA CommittedStep ==
  ASSUME LInv, NEW t \in Threads, TL2Step(t), NEW a \in Addrs
  PROVE  \/ committed'[a] = committed[a]
         \/ /\ Validated(t) /\ a \in Written(t)
            /\ committed'[a] = [valu |-> memory[a], ver |-> wv[t]]
<1>1. CASE Validated(t)
  BY <1>1 DEF Validated
<1>2. CASE ~Validated(t)
  BY <1>2, StepSorts, Zenon
  DEF StoreLock, StoreOwn, BeginStore, StoreRecord, StoreValue, GVGenerate,
      GVSwap, DropLocks, WriteBackReverse, RestoreLocks, Release, Rest
<1> QED
  BY <1>1, <1>2

\* A step changes a lock by TxStore, or by giving it back.
LEMMA LockStep ==
  ASSUME LInv, NEW t \in Threads, TL2Step(t), NEW l \in Locks
  PROVE  \/ LockTab'[l] = LockTab[l]
         \/ LockTab'[l].by = t
         \/ /\ DropLocks(t) \/ RestoreLocks(t)
            /\ l = LockOf[wrSet[t][at[t]].addr]
            /\ LockTab'[l] = Free(GivesBack(t, at[t]))
<1>1. CASE \E a \in Addrs, v \in Vals : StoreLock(t, a, v) \/ StoreOwn(t, a, v)
  BY <1>1, StoreEffect
<1>2. CASE StoreRecord(t)
  BY <1>2, RecordEffect
<1>3. CASE DropLocks(t) \/ RestoreLocks(t)
  BY <1>3, ReleaseEffect
<1>4. CASE \/ StoreValue(t) \/ GVGenerate(t) \/ GVSwap(t) \/ Validated(t)
           \/ WriteBackReverse(t) \/ Rest(t)
  BY <1>4 DEF StoreValue, GVGenerate, GVSwap, Validated, WriteBackReverse, Rest,
              shared
<1> QED
  BY <1>1, <1>2, <1>3, <1>4, StepSorts

LEMMA GivesBackClock ==
  ASSUME VInv, NEW t \in Threads, NEW i \in 1 .. Len(wrSet[t])
  PROVE  GivesBack(t, i) \in Nat /\ GivesBack(t, i) <= GClock
  BY Numbers DEF GivesBack, VInv, KInv, Versions

LEMMA FreeVersionsKept ==
  ASSUME VInv, NEW t \in Threads, TL2Step(t), LInv'
  PROVE  FreeVersions'
<1>1. LInv /\ KInv /\ FreeVersions /\ Versions(t)
  BY DEF VInv, KInv
<1>2. GClock \in Nat /\ GClock' \in Nat /\ GClock' >= GClock /\ MaxClock \in Nat
  BY <1>1, ClockRises, TL2Assumption
<1>3. GClock' <= MaxClock
  <2>1. CASE GVSwap(t)
    BY <1>1, <1>2, <2>1, Numbers DEF GVSwap, Versions, FreeVersions
  <2>2. CASE ~GVSwap(t)
    <3>1. GClock' = GClock
      BY <1>1, <2>2, StepSorts, Zenon
      DEF StoreLock, StoreOwn, BeginStore, StoreRecord, StoreValue, GVGenerate,
          Validated, DropLocks, WriteBackReverse, RestoreLocks, Release, Rest, shared
    <3> QED
      BY <1>1, <3>1 DEF FreeVersions
  <2> QED
    BY <2>1, <2>2
<1>4. ASSUME NEW l \in Locks, LockTab'[l].by = NoThread
      PROVE  LockTab'[l].n <= GClock'
  <2>1. CASE LockTab'[l] = LockTab[l]
    BY <1>1, <1>2, <1>4, <2>1, Numbers DEF FreeVersions
  <2>2. CASE LockTab'[l].by = t
    BY <1>4, <2>2, TL2Assumption
  <2>3. CASE /\ DropLocks(t) \/ RestoreLocks(t)
             /\ LockTab'[l] = Free(GivesBack(t, at[t]))
    <3>1. at[t] \in 1 .. Len(wrSet[t])
      BY <1>1, <2>3, ReleaseEffect
    <3>2. LockTab'[l].n = GivesBack(t, at[t])
      BY <2>3 DEF Free
    <3> QED
      BY <1>2, <3>1, <3>2, GivesBackClock
  <2> QED
    BY <1>1, <2>1, <2>2, <2>3, LockStep
<1>5. ASSUME NEW a \in Addrs PROVE committed'[a].ver <= GClock'
  <2>1. CASE committed'[a] = committed[a]
    BY <1>1, <1>2, <2>1 DEF FreeVersions, VInv, DataTypes
  <2>2. CASE Validated(t) /\ committed'[a] = [valu |-> memory[a], ver |-> wv[t]]
    BY <1>1, <1>2, <2>2, Numbers DEF Validated, Versions
  <2> QED
    BY <1>1, <2>1, <2>2, CommittedStep
<1> QED
  BY <1>3, <1>4, <1>5 DEF FreeVersions

\* What bounds a lock from below goes on bounding it.
LEMMA AtLeastKept ==
  ASSUME VInv, NEW t \in Threads, TL2Step(t), LInv',
         NEW l \in Locks, NEW m \in Nat, AtLeast(l, m)
  PROVE  AtLeast(l, m)'
<1>1. LInv /\ KInv /\ Versions(t) /\ Above(t, l, m) /\ Located(t)
  BY DEF VInv, KInv, LInv, AtLeast
<1>2. ASSUME NEW u \in Threads \ {t} PROVE Above(u, l, m)'
  <2>1. /\ pc'[u] = pc[u] /\ op'[u] = op[u] /\ at'[u] = at[u]
        /\ wrSet'[u] = wrSet[u] /\ wv'[u] = wv[u]
    BY <1>1, <1>2, Alone, OthersAlone DEF VInv
  <2>2. Above(u, l, m)
    BY DEF AtLeast
  <2> QED
    BY <2>1, <2>2 DEF Above, Unreleased, GivesBack
<1>3. LockTab'[l].by = NoThread => LockTab'[l].n >= m
  <2> SUFFICES ASSUME LockTab'[l].by = NoThread PROVE LockTab'[l].n >= m
    OBVIOUS
  <2>1. CASE LockTab'[l] = LockTab[l]
    BY <2>1 DEF AtLeast
  <2>2. CASE LockTab'[l].by = t
    BY <2>2, TL2Assumption
  <2>3. CASE /\ DropLocks(t) \/ RestoreLocks(t)
             /\ l = LockOf[wrSet[t][at[t]].addr]
             /\ LockTab'[l] = Free(GivesBack(t, at[t]))
    <3>1. at[t] \in 1 .. Len(wrSet[t]) /\ at[t] \in Nat
      BY <1>1, <2>3, ReleaseEffect, Numbers, Zenon
    <3>2. at[t] \in Unreleased(t)
      BY <3>1 DEF Unreleased
    <3> QED
      BY <1>1, <2>3, <3>2 DEF Free, Above
  <2> QED
    BY <1>1, <2>1, <2>2, <2>3, LockStep
<1>4. Above(t, l, m)'
  <2>1. CASE \E a \in Addrs, v \in Vals : StoreLock(t, a, v) \/ StoreOwn(t, a, v)
    <3>1. PICK a \in Addrs, v \in Vals : StoreLock(t, a, v) \/ StoreOwn(t, a, v)
      BY <2>1
    <3>2. /\ UNCHANGED <<wrSet, at, wv>> /\ pc[t] = "body" /\ pc'[t] = "store"
          /\ op'[t].addr = a
      BY <1>1, <3>1, StoreEffect
    <3>3. LockOf[a] = l => op'[t].cv.n >= m
      <4>1. CASE LockTab[LockOf[a]].by = NoThread /\ op'[t].cv.n = LockTab[LockOf[a]].n
        BY <4>1 DEF AtLeast
      <4>2. ASSUME NEW i \in 1 .. Len(wrSet[t]), LockOf[wrSet[t][i].addr] = LockOf[a],
                   op'[t].cv.n = wrSet[t][i].rdv, LockOf[a] = l
            PROVE  op'[t].cv.n >= m
        BY <1>1, <3>2, <4>2 DEF Above, Unreleased, GivesBack
      <4> QED
        BY <1>1, <3>1, <4>1, <4>2, StoreEffect
    <3>4. \A i \in Unreleased(t)' :
              LockOf[wrSet'[t][i].addr] = l => GivesBack(t, i)' >= m
      BY <1>1, <3>2 DEF Above, Unreleased, GivesBack
    <3> QED
      BY <3>2, <3>3, <3>4 DEF Above
  <2>2. CASE StoreRecord(t)
    <3> DEFINE n == Len(wrSet[t]) + 1
    <3>1. /\ UNCHANGED <<op, at, wv>> /\ pc[t] = "store" /\ pc'[t] = "write"
          /\ Len(wrSet'[t]) = n /\ wrSet'[t][n].addr = op[t].addr
          /\ wrSet'[t][n].rdv = op[t].cv.n
          /\ \A i \in 1 .. Len(wrSet[t]) : wrSet'[t][i] = wrSet[t][i]
      BY <1>1, <2>2, RecordEffect
    <3>2. ASSUME NEW i \in 1 .. Len(wrSet'[t]), LockOf[wrSet'[t][i].addr] = l
          PROVE  wrSet'[t][i].rdv >= m
      <4>1. CASE i = n
        BY <1>1, <3>1, <3>2, <4>1 DEF Above
      <4>2. CASE i # n
        <5>1. i \in 1 .. Len(wrSet[t]) /\ Len(wrSet[t]) \in Nat
          BY <1>1, <3>1, <4>2, Numbers
        <5> QED
          BY <1>1, <3>1, <3>2, <5>1 DEF Above, Unreleased, GivesBack
      <4> QED
        BY <4>1, <4>2
    <3> QED
      BY <3>1, <3>2 DEF Above, Unreleased, GivesBack
  <2>3. CASE DropLocks(t) \/ RestoreLocks(t)
    <3>1. CASE /\ at'[t] = at[t] + 1
               /\ UNCHANGED <<pc, rv, wv, wrSet, op>>
      <4>1. Unreleased(t)' \subseteq Unreleased(t) /\ at[t] \in Nat
        BY <1>1, <3>1, Numbers DEF Unreleased
      <4> QED
        BY <1>1, <3>1, <4>1 DEF Above, GivesBack
    <3>2. CASE wrSet'[t] = << >> /\ pc'[t] = "idle"
      BY <3>2 DEF Above, Unreleased
    <3> QED
      BY <1>1, <2>3, <3>1, <3>2, ReleaseEffect
  <2>4. CASE \/ StoreValue(t) \/ GVGenerate(t) \/ GVSwap(t) \/ Validated(t)
             \/ WriteBackReverse(t) \/ Rest(t)
    <3>1. /\ UNCHANGED wrSet /\ pc'[t] # "store"
          /\ pc[t] \notin {"drop", "restore"}
          /\ pc'[t] = "drop" => pc[t] = "validate" /\ wv'[t] = wv[t]
      BY <1>1, <2>4 DEF StoreValue, GVGenerate, GVSwap, Validated,
         WriteBackReverse, Rest, Goto, LInv, Types
    <3>2. ASSUME NEW i \in Unreleased(t)', LockOf[wrSet[t][i].addr] = l
          PROVE  GivesBack(t, i)' >= m
      <4>1. i \in 1 .. Len(wrSet[t]) /\ wrSet[t][i].rdv >= m
        BY <1>1, <3>1, <3>2 DEF Above, Unreleased, GivesBack
      <4>2. pc'[t] = "drop" => wv'[t] > wrSet[t][i].rdv /\ wv'[t] \in Nat
        BY <1>1, <3>1, <4>1, Numbers DEF Versions
      <4>3. wrSet[t][i].rdv \in Nat
        BY <1>1, <4>1, Numbers
      <4> QED
        BY <3>1, <4>1, <4>2, <4>3 DEF GivesBack
    <3> QED
      BY <3>1, <3>2 DEF Above
  <2> QED
    BY <1>1, <2>1, <2>2, <2>3, <2>4, StepSorts
<1> QED
  BY <1>2, <1>3, <1>4 DEF AtLeast

\* t has the lock of an entry it has not given back, or nobody has it.
LEMMA Owned ==
  ASSUME KInv, NEW t \in Threads, NEW i \in Unreleased(t)
  PROVE  LET l == LockOf[wrSet[t][i].addr]
         IN /\ i \in 1 .. Len(wrSet[t]) /\ l \in Locks
            /\ wrSet[t][i].addr \in StoresTo[t]
            /\ \/ LockTab[l].by = t
               \/ ~Active(t) /\ l \in Again /\ LockTab[l].by = NoThread
<1> DEFINE l == LockOf[wrSet[t][i].addr]
<1>1. i \in 1 .. Len(wrSet[t]) /\ l \in Locks
  BY EntryLock DEF Unreleased, KInv
<1>2. /\ wrSet[t][i].addr \in StoresTo[t]
      /\ IF l \notin Again THEN LockTab[l] = LockedBy(t, i)
         ELSE \/ LockTab[l].by = t
              \/ pc[t] \in {"drop", "restore"} /\ LockTab[l].by = NoThread
  BY DEF KInv, Kept
<1>3. l \notin Again => LockTab[l].by = t
  BY <1>2 DEF LockedBy
<1> QED
  BY <1>1, <1>2, <1>3 DEF Active

LEMMA OwnedActive ==
  ASSUME KInv, NEW t \in Threads, Active(t), NEW i \in 1 .. Len(wrSet[t])
  PROVE  /\ LockOf[wrSet[t][i].addr] \in Locks
         /\ LockTab[LockOf[wrSet[t][i].addr]].by = t
         /\ wrSet[t][i].addr \in StoresTo[t]
<1>1. i \in Unreleased(t)
  BY DEF Unreleased, Active
<1> QED
  BY <1>1, Owned

\* A lock that another thread owns, or alone may store behind, stays as it is.
LEMMA StepTakes ==
  ASSUME KInv, NEW t \in Threads, TL2Step(t)
  PROVE  Takes(t)
<1>1. CASE \E a \in Addrs, v \in Vals : StoreLock(t, a, v) \/ StoreOwn(t, a, v)
  BY <1>1, StoreKept
<1>2. CASE StoreRecord(t)
  BY <1>2, RecordKept
<1>3. CASE DropLocks(t) \/ RestoreLocks(t)
  BY <1>3, ReleaseKept DEF DropLocks, RestoreLocks
<1>4. CASE Quiet(t)
  BY <1>4, QuietKept
<1> QED
  BY <1>1, <1>2, <1>3, <1>4, QuietSteps

LEMMA OneVersionKept ==
  ASSUME SoleStorer, VInv, NEW t \in Threads, TL2Step(t), LInv',
         NEW u \in Threads
  PROVE  OneVersion(u)'
<1>1. LInv /\ KInv /\ Kept(t) /\ OneVersion(t) /\ OneVersion(u) /\ Located(t) /\ Kept(u)
  BY DEF VInv, KInv, LInv
<1>2. CASE u # t
  <2>1. /\ pc'[u] = pc[u] /\ op'[u] = op[u] /\ at'[u] = at[u]
        /\ wrSet'[u] = wrSet[u] /\ wv'[u] = wv[u]
    BY <1>1, <1>2, Alone, OthersAlone DEF VInv
  <2>2. ASSUME NEW i \in Unreleased(u),
               LockTab'[LockOf[wrSet[u][i].addr]].by = NoThread
        PROVE  LockTab'[LockOf[wrSet[u][i].addr]].n = GivesBack(u, i)
    <3> DEFINE l == LockOf[wrSet[u][i].addr]
    <3>1. /\ l \in Locks /\ wrSet[u][i].addr \in StoresTo[u]
          /\ LockTab[l].by = u \/ l \in Again
      BY <1>1, Owned
    <3>2. LockTab'[l] = LockTab[l]
      <4>1. CASE LockTab[l].by = u
        BY <1>1, <1>2, <3>1, <4>1, TL2Assumption, StepTakes DEF Takes
      <4>2. CASE LockTab[l].by # u
        <5>1. l \in Again
          BY <3>1, <4>2
        <5> QED
          BY <1>1, <1>2, <3>1, <5>1, StepTakes DEF Takes, SoleStorer
      <4> QED
        BY <4>1, <4>2
    <3> QED
      BY <1>1, <2>2, <3>2 DEF OneVersion
  <2>3. Unreleased(u)' = Unreleased(u)
    BY <2>1 DEF Unreleased
  <2> QED
    BY <1>1, <2>1, <2>2, <2>3 DEF OneVersion, GivesBack
<1>3. CASE u = t
  <2>1. CASE \E a \in Addrs, v \in Vals : StoreLock(t, a, v) \/ StoreOwn(t, a, v)
    <3>1. PICK a \in Addrs, v \in Vals : StoreLock(t, a, v) \/ StoreOwn(t, a, v)
      BY <2>1
    <3>2. /\ UNCHANGED <<wrSet, at, wv>> /\ pc[t] = "body" /\ pc'[t] = "store"
          /\ op'[t].addr = a
      BY <1>1, <3>1, StoreEffect
    <3>3. ASSUME NEW i \in 1 .. Len(wrSet[t])
          PROVE  LockTab[LockOf[wrSet[t][i].addr]].by = t
      BY <1>1, <3>2, OwnedActive DEF Active
    <3>4. ASSUME NEW i \in 1 .. Len(wrSet[t]), LockOf[wrSet[t][i].addr] = LockOf[a]
          PROVE  wrSet[t][i].rdv = op'[t].cv.n
      <4>1. LockTab[LockOf[a]].by # NoThread
        BY <3>3, <3>4, TL2Assumption
      <4>2. PICK j \in 1 .. Len(wrSet[t]) :
                LockOf[wrSet[t][j].addr] = LockOf[a] /\ op'[t].cv.n = wrSet[t][j].rdv
        BY <1>1, <3>1, <4>1, StoreEffect
      <4> QED
        BY <1>1, <3>4, <4>2 DEF OneVersion
    <3>5. ASSUME NEW i \in 1 .. Len(wrSet[t])
          PROVE  LockTab'[LockOf[wrSet[t][i].addr]].by # NoThread
      <4>1. LockOf[wrSet[t][i].addr] \in Locks
        BY <1>1, EntryLock
      <4>2. LockTab'[LockOf[wrSet[t][i].addr]].by = t
        BY <1>1, <3>1, <3>3, <4>1, StoreEffect
      <4> QED
        BY <4>2, TL2Assumption
    <3>6. \A i \in Unreleased(t)' : i \in 1 .. Len(wrSet[t])
      BY <3>2 DEF Unreleased
    <3> QED
      BY <1>1, <1>3, <3>2, <3>4, <3>5, <3>6 DEF OneVersion
  <2>2. CASE StoreRecord(t)
    <3> DEFINE n == Len(wrSet[t]) + 1
               k == LockOf[op[t].addr]
    <3>1. /\ UNCHANGED <<op, at, wv>> /\ pc[t] = "store" /\ pc'[t] = "write"
          /\ Len(wrSet'[t]) = n /\ wrSet'[t][n].addr = op[t].addr
          /\ wrSet'[t][n].rdv = op[t].cv.n
          /\ \A i \in 1 .. Len(wrSet[t]) : wrSet'[t][i] = wrSet[t][i]
          /\ LockTab'[k].by = t /\ k \in Locks
          /\ \A l \in Locks \ {k} : LockTab'[l] = LockTab[l]
      BY <1>1, <2>2, RecordEffect
    <3>2. \A i \in 1 .. Len(wrSet'[t]) : i # n => i \in 1 .. Len(wrSet[t])
      BY <1>1, <3>1, Numbers
    <3>3. ASSUME NEW i \in 1 .. Len(wrSet'[t]), NEW j \in 1 .. Len(wrSet'[t]),
                 LockOf[wrSet'[t][i].addr] = LockOf[wrSet'[t][j].addr]
          PROVE  wrSet'[t][i].rdv = wrSet'[t][j].rdv
      <4>1. ASSUME NEW h \in 1 .. Len(wrSet[t]),
                   LockOf[wrSet[t][h].addr] = LockOf[op[t].addr]
            PROVE  wrSet[t][h].rdv = op[t].cv.n
        BY <1>1, <3>1, <4>1 DEF OneVersion
      <4>2. CASE i = n /\ j = n
        BY <4>2
      <4>3. CASE i = n /\ j # n
        BY <3>1, <3>2, <3>3, <4>1, <4>3, Zenon
      <4>4. CASE i # n /\ j = n
        BY <3>1, <3>2, <3>3, <4>1, <4>4, ZenonT(60)
      <4>5. CASE i # n /\ j # n
        <5>1. /\ i \in 1 .. Len(wrSet[t]) /\ wrSet'[t][i] = wrSet[t][i]
              /\ j \in 1 .. Len(wrSet[t]) /\ wrSet'[t][j] = wrSet[t][j]
          BY <3>1, <3>2, <4>5
        <5> QED
          BY <1>1, <3>3, <5>1 DEF OneVersion
      <4> QED
        BY <4>2, <4>3, <4>4, <4>5
    <3>4. ASSUME NEW i \in 1 .. Len(wrSet'[t])
          PROVE  LockTab'[LockOf[wrSet'[t][i].addr]].by # NoThread
      <4>1. CASE i = n
        BY <3>1, <4>1, TL2Assumption
      <4>2. CASE i # n
        <5>1. i \in 1 .. Len(wrSet[t]) /\ wrSet'[t][i] = wrSet[t][i]
          BY <3>1, <3>2, <4>2
        <5>2. LockTab[LockOf[wrSet[t][i].addr]].by = t
          BY <1>1, <3>1, <5>1, OwnedActive DEF Active
        <5>3. LockOf[wrSet[t][i].addr] \in Locks
          BY <1>1, <5>1, EntryLock
        <5> QED
          BY <3>1, <5>1, <5>2, <5>3, TL2Assumption, SMTT(30)
      <4> QED
        BY <4>1, <4>2
    <3>5. \A i \in Unreleased(t)' : i \in 1 .. Len(wrSet'[t])
      BY DEF Unreleased
    <3> QED
      BY <1>3, <3>1, <3>3, <3>4, <3>5, ZenonT(60) DEF OneVersion
  <2>3. CASE DropLocks(t) \/ RestoreLocks(t)
    <3> DEFINE k == LockOf[wrSet[t][at[t]].addr]
    <3>1. /\ pc[t] \in {"drop", "restore"} /\ at[t] \in 1 .. Len(wrSet[t])
          /\ k \in Locks /\ LockTab'[k] = Free(GivesBack(t, at[t]))
          /\ \A l \in Locks \ {k} : LockTab'[l] = LockTab[l]
      BY <1>1, <2>3, ReleaseEffect
    <3>2. CASE at'[t] = at[t] + 1 /\ UNCHANGED <<pc, rv, wv, wrSet, op>>
      <4>1. ASSUME NEW i \in Unreleased(t)',
                   LockTab'[LockOf[wrSet[t][i].addr]].by = NoThread
            PROVE  LockTab'[LockOf[wrSet[t][i].addr]].n = GivesBack(t, i)
        <5>1. i \in Unreleased(t) /\ i \in 1 .. Len(wrSet[t])
          BY <1>1, <3>1, <3>2, <4>1, Numbers DEF Unreleased
        <5>2. CASE LockOf[wrSet[t][i].addr] = k
          <6>1. LockTab'[k].n = GivesBack(t, at[t])
            BY <3>1 DEF Free
          <6>2. wrSet[t][i].rdv = wrSet[t][at[t]].rdv
            BY <1>1, <3>1, <5>1, <5>2, Zenon DEF OneVersion
          <6> QED
            BY <5>2, <6>1, <6>2 DEF GivesBack
        <5>3. CASE LockOf[wrSet[t][i].addr] # k
          <6>1. LockOf[wrSet[t][i].addr] \in Locks
            BY <1>1, <5>1, EntryLock
          <6> QED
            BY <1>1, <3>1, <4>1, <5>1, <5>3, <6>1, Zenon DEF OneVersion
        <5> QED
          BY <5>2, <5>3
      <4> QED
        <5>1. \A i \in Unreleased(t)' : GivesBack(t, i)' = GivesBack(t, i)
          BY <3>2 DEF GivesBack
        <5>2. \A i \in Unreleased(t)' :
                  LET l == LockOf[wrSet'[t][i].addr]
                  IN LockTab'[l].by = NoThread => LockTab'[l].n = GivesBack(t, i)'
          BY <3>2, <4>1, <5>1
        <5>3. /\ pc'[t] # "store"
              /\ \A i, j \in 1 .. Len(wrSet'[t]) :
                     LockOf[wrSet'[t][i].addr] = LockOf[wrSet'[t][j].addr] =>
                         wrSet'[t][i].rdv = wrSet'[t][j].rdv
          BY <1>1, <3>1, <3>2, ZenonT(60) DEF OneVersion
        <5> QED
          BY <1>3, <5>2, <5>3 DEF OneVersion
    <3>3. CASE wrSet'[t] = << >> /\ pc'[t] = "idle"
      BY <1>3, <3>3 DEF OneVersion, Unreleased
    <3> QED
      BY <1>1, <2>3, <3>2, <3>3, ReleaseEffect
  <2>4. CASE \/ StoreValue(t) \/ GVGenerate(t) \/ GVSwap(t) \/ Validated(t)
             \/ WriteBackReverse(t) \/ Rest(t)
    <3>1. /\ UNCHANGED <<LockTab, wrSet>> /\ pc'[t] # "store"
          /\ pc[t] \notin {"drop", "restore"}
      BY <1>1, <2>4 DEF StoreValue, GVGenerate, GVSwap, Validated,
         WriteBackReverse, Rest, Goto, shared, LInv, Types
    <3>2. ASSUME NEW i \in 1 .. Len(wrSet[t])
          PROVE  LockTab[LockOf[wrSet[t][i].addr]].by # NoThread
      BY <1>1, <3>1, OwnedActive, TL2Assumption DEF Active
    <3>3. \A i \in Unreleased(t)' : i \in 1 .. Len(wrSet[t])
      BY <3>1 DEF Unreleased
    <3> QED
      BY <1>1, <1>3, <3>1, <3>2, <3>3 DEF OneVersion
  <2> QED
    BY <1>1, <2>1, <2>2, <2>3, <2>4, StepSorts
<1> QED
  BY <1>2, <1>3

LEMMA DataTypesKept ==
  ASSUME LInv, DataTypes, NEW t \in Threads, TL2Step(t)
  PROVE  DataTypes'
<1>1. /\ pc \in [Threads -> Places] /\ op \in [Threads -> InOp]
      /\ room \in [Threads -> Nat] /\ rdSet \in [Threads -> Seq(Locks)]
      /\ seen \in [Threads -> SUBSET Addrs] /\ wv[t] \in Nat
      /\ memory \in [Addrs -> Vals]
      /\ committed \in [Addrs -> [valu : Vals, ver : Nat]]
  BY DEF LInv, Types, DataTypes
<1>2. rdSet[t] \in Seq(Locks) /\ Len(rdSet[t]) \in Nat /\ << >> \in Seq(Locks)
      /\ Len(<< >>) = 0
  BY <1>1
<1> DEFINE R == /\ room \in [Threads -> Nat]
                /\ rdSet \in [Threads -> Seq(Locks)]
                /\ seen \in [Threads -> SUBSET Addrs]
                /\ \A u \in Threads : /\ Len(rdSet[u]) <= room[u]
                                      /\ pc[u] = "grow" => op[u].addr \in Addrs
           Keep == UNCHANGED <<room, rdSet, seen>>
<1>3. R
  BY DEF DataTypes
<1>4. ASSUME Keep, pc'[t] # "grow",
             \A u \in Threads \ {t} : pc'[u] = pc[u] /\ op'[u] = op[u]
      PROVE  R'
  BY <1>3, <1>4
<1>5. ASSUME txReset(t) PROVE R'
  <2>1. /\ pc' = [pc EXCEPT ![t] = "idle"] /\ op' = [op EXCEPT ![t] = Idle]
        /\ rdSet' = [rdSet EXCEPT ![t] = << >>] /\ UNCHANGED room
        /\ seen' = [seen EXCEPT ![t] = {}]
    BY <1>5 DEF txReset, Goto
  <2> QED
    BY <1>1, <1>2, <1>3, <2>1
<1>6. ASSUME TxAbort(t) PROVE R'
  <2>1. CASE wrSet[t] = << >>
    BY <1>5, <1>6, <2>1 DEF TxAbort
  <2>2. CASE wrSet[t] # << >>
    BY <1>1, <1>4, <1>6, <2>2 DEF TxAbort, Goto
  <2> QED
    BY <2>1, <2>2
<1>7. ASSUME Accept(t), op[t].addr \in Addrs,
             seen' \in [Threads -> SUBSET Addrs],
             \/ Len(rdSet[t]) < room[t] /\ UNCHANGED room
             \/ room' = [room EXCEPT ![t] = @ + 1]
      PROVE  R'
  <2> DEFINE s == Append(rdSet[t], LockOf[op[t].addr])
  <2>1. s \in Seq(Locks) /\ Len(s) = Len(rdSet[t]) + 1
    BY <1>2, <1>7, TL2Assumption
  <2>2. /\ rdSet' = [rdSet EXCEPT ![t] = s]
        /\ op' = [op EXCEPT ![t] = Idle] /\ pc' = [pc EXCEPT ![t] = "body"]
    BY <1>7 DEF Accept, Goto
  <2> HIDE DEF s
  <2>3. rdSet' \in [Threads -> Seq(Locks)] /\ room' \in [Threads -> Nat]
    BY <1>1, <1>7, <2>1, <2>2
  <2>4. ASSUME NEW u \in Threads
        PROVE  /\ Len(rdSet'[u]) <= room'[u]
               /\ pc'[u] = "grow" => op'[u].addr \in Addrs
    <3>1. CASE u = t
      <4>1. Len(rdSet[t]) + 1 <= room'[t]
        BY <1>1, <1>2, <1>3, <1>7
      <4> QED
        BY <1>1, <2>1, <2>2, <3>1, <4>1
    <3>2. CASE u # t
      BY <1>1, <1>3, <1>7, <2>2, <3>2
    <3> QED
      BY <3>1, <3>2
  <2> QED
    BY <1>7, <2>3, <2>4
<1>8. ASSUME Sees(t), pc[t] = "loaded" PROVE seen' \in [Threads -> SUBSET Addrs]
  <2>1. op[t].addr \in Addrs
    BY <1>8 DEF LInv, Located
  <2> QED
    BY <1>1, <1>8, <2>1 DEF Sees
<1>9. R'
  <2>1. CASE TxStart(t) \/ GVGenerate(t) \/ GVSwap(t) \/ Validated(t)
    BY <1>1, <1>4, <2>1 DEF TxStart, GVGenerate, GVSwap, Validated, Goto
  <2>2. CASE Restart(t) \/ CommitReadOnly(t)
    BY <1>5, <1>6, <2>2 DEF Restart, CommitReadOnly
  <2>3. ASSUME NEW a \in Addrs, TxLoad(t, a) \/ LoadRefused(t, a) \/ StoreRefused(t, a)
        PROVE  R'
    BY <1>1, <1>4, <1>6, <2>3 DEF TxLoad, LoadRefused, StoreRefused, Goto
  <2>4. CASE LoadValue(t)
    BY <1>1, <1>4, <2>4 DEF LoadValue, Goto
  <2>5. CASE LoadCheck(t)
    <3>1. op[t].addr \in Addrs /\ pc[t] = "loaded"
      BY <2>5 DEF LoadCheck, LInv, Located
    <3>2. CASE Accept(t) /\ UNCHANGED room /\ Len(rdSet[t]) < room[t]
      BY <1>7, <1>8, <2>5, <3>1, <3>2 DEF LoadCheck
    <3>3. CASE /\ pc' = [pc EXCEPT ![t] = "grow"]
               /\ UNCHANGED <<room, rdSet, op>>
      BY <1>1, <1>3, <1>8, <2>5, <3>1, <3>3 DEF LoadCheck
    <3> QED
      BY <2>5, <3>2, <3>3 DEF LoadCheck, Goto
  <2>6. CASE LoadFails(t)
    BY <1>6, <2>6 DEF LoadFails
  <2>7. CASE TrackLoad(t)
    BY <1>1, <1>3, <1>7, <2>7 DEF TrackLoad
  <2>8. CASE ReadSetCoherentPessimistic(t) \/ ReadSetCoherent(t)
    <3>1. CASE TxAbort(t)
      BY <1>6, <3>1
    <3>2. CASE UNCHANGED <<pc, room, rdSet, op, seen>>
      BY <1>3, <3>2
    <3> QED
      BY <2>8, <3>1, <3>2
      DEF ReadSetCoherentPessimistic, ReadSetCoherent, CheckEntry
  <2>9. ASSUME NEW a \in Addrs, NEW v \in Vals, StoreLock(t, a, v) \/ StoreOwn(t, a, v)
        PROVE  R'
    BY <1>1, <1>4, <2>9 DEF StoreLock, StoreOwn, BeginStore, Goto
  <2>10. CASE StoreRecord(t) \/ StoreValue(t)
    BY <1>1, <1>4, <2>10 DEF StoreRecord, StoreValue, Goto
  <2>11. CASE WriteBackReverse(t)
    BY <1>1, <1>4, <2>11 DEF WriteBackReverse, Goto
  <2>12. CASE DropLocks(t) \/ RestoreLocks(t)
    BY <1>3, <1>5, <2>12, Zenon DEF DropLocks, RestoreLocks, Release
  <2> QED
    BY <2>1, <2>2, <2>3, <2>4, <2>5, <2>6, <2>7, <2>8, <2>9, <2>10, <2>11, <2>12
    DEF TL2Step
<1>10. committed' \in [Addrs -> [valu : Vals, ver : Nat]]
  <2>1. CASE Validated(t)
    BY <1>1, <2>1 DEF Validated
  <2>2. CASE ~Validated(t)
    <3>1. committed' = committed
      BY <2>2, StepSorts, Zenon
      DEF StoreLock, StoreOwn, BeginStore, StoreRecord, StoreValue, GVGenerate,
          GVSwap, DropLocks, WriteBackReverse, RestoreLocks, Release, Rest
    <3> QED
      BY <1>1, <3>1
  <2> QED
    BY <2>1, <2>2
<1> QED
  BY <1>9, <1>10 DEF DataTypes

\* At the commit point nobody else has anything behind the locks of the words.
LEMMA CommitVersion ==
  ASSUME SoleStorer, VInv, NEW t \in Threads, Validated(t), TL2Step(t), LInv',
         NEW a \in Written(t)
  PROVE  AtLeast(LockOf[a], wv[t])'
<1> DEFINE l == LockOf[a]
<1>1. /\ LInv /\ KInv /\ wv[t] \in Nat
      /\ pc[t] = "validate" /\ pc'[t] = "drop"
      /\ UNCHANGED <<LockTab, wrSet, op, wv>>
  BY DEF VInv, KInv, LInv, Types, Validated, Goto, shared
<1>2. l \in Locks /\ a \in StoresTo[t] /\ LockTab[l].by = t
  BY <1>1, OwnedActive DEF Written, Active
<1>3. ASSUME NEW u \in Threads PROVE Above(u, l, wv[t])'
  <2>1. CASE u = t
    BY <1>1, <2>1 DEF Above, GivesBack
  <2>2. CASE u # t
    <3>1. pc'[u] = pc[u] /\ at'[u] = at[u]
      BY <1>1, <2>2, Alone
    <3>2. ASSUME NEW i \in Unreleased(u) PROVE LockOf[wrSet[u][i].addr] # l
      <4>1. CASE LockTab[LockOf[wrSet[u][i].addr]].by = u
        BY <1>2, <2>2, <4>1
      <4>2. CASE LockTab[LockOf[wrSet[u][i].addr]].by = NoThread
        BY <1>2, <4>2, TL2Assumption
      <4> QED
        BY <1>1, <4>1, <4>2, Owned
    <3>3. pc[u] = "store" => LockOf[op[u].addr] # l
      BY <1>1, <1>2, <2>2 DEF KInv, Kept
    <3>4. Unreleased(u)' = Unreleased(u)
      BY <1>1, <3>1 DEF Unreleased
    <3> QED
      BY <1>1, <3>1, <3>2, <3>3, <3>4 DEF Above
  <2> QED
    BY <2>1, <2>2
<1>4. LockTab'[l].by # NoThread
  BY <1>1, <1>2, TL2Assumption
<1> QED
  BY <1>1, <1>3, <1>4 DEF AtLeast

LEMMA VInvKept ==
  ASSUME SoleStorer, VInv, NEW t \in Threads, TL2Step(t)
  PROVE  VInv'
<1>1. KInv' /\ LInv' /\ LInv /\ DataTypes
  <2>1. TL2Next
    BY DEF TL2Next
  <2> QED
    BY <2>1, KeepsKept DEF VInv, KInv
<1>2. ASSUME NEW a \in Addrs PROVE AtLeast(LockOf[a], committed[a].ver)'
  <2>1. LockOf[a] \in Locks /\ committed[a].ver \in Nat
    BY <1>1, TL2Assumption DEF DataTypes
  <2>2. CASE committed'[a] = committed[a]
    <3> DEFINE m == committed[a].ver
    <3>1. AtLeast(LockOf[a], m)
      BY DEF VInv
    <3>2. PICK n \in Nat : n = m
      BY <2>1
    <3> HIDE DEF m
    <3>3. AtLeast(LockOf[a], n)'
      BY <1>1, <2>1, <3>1, <3>2, AtLeastKept
    <3> QED
      BY <2>2, <3>2, <3>3 DEF m, AtLeast, Above
  <2>3. CASE /\ Validated(t) /\ a \in Written(t)
             /\ committed'[a] = [valu |-> memory[a], ver |-> wv[t]]
    <3>1. AtLeast(LockOf[a], wv[t])'
      BY <1>1, <2>3, CommitVersion
    <3>2. committed'[a].ver = wv'[t]
      BY <2>3 DEF Validated
    <3> QED
      BY <2>3, <3>1, <3>2 DEF AtLeast, Above
  <2> QED
    BY <1>1, <2>2, <2>3, CommittedStep
<1> QED
  BY <1>1, <1>2, DataTypesKept, VersionsKept, FreeVersionsKept, OneVersionKept
  DEF VInv

-----------------------------------------------------------------------------
(* Values *)

\* A word has one holder, who has its lock.
LEMMA Holder ==
  ASSUME KInv, NEW t \in Threads, NEW a, Holds(t, a)
  PROVE  a \in Addrs /\ a \in StoresTo[t] /\ LockTab[LockOf[a]].by = t
<1>1. PICK i \in 1 .. Len(wrSet[t]) : wrSet[t][i].addr = a
  BY DEF Holds, Written
<1>2. a \in StoresTo[t] /\ LockTab[LockOf[a]].by = t
  BY <1>1, OwnedActive DEF Holds
<1> QED
  BY <1>2, TL2Assumption

LEMMA OneHolder ==
  ASSUME KInv, NEW t \in Threads, NEW u \in Threads, NEW a,
         Holds(t, a), Holds(u, a)
  PROVE  t = u
  BY Holder

\* A step writes at most one word, which its thread holds.
LEMMA MemoryStep ==
  ASSUME KInv, MInv, NEW t \in Threads, TL2Step(t), NEW a \in Addrs,
         memory'[a] # memory[a]
  PROVE  /\ Holds(t, a)
         /\ \/ StoreValue(t)
            \/ WriteBackReverse(t) /\ a = wrSet[t][at[t]].addr
<1>1. LInv /\ memory \in [Addrs -> Vals]
  BY DEF KInv, LInv, Types
<1>2. CASE StoreValue(t)
  <2>1. pc[t] = "write" /\ a = op[t].addr
    BY <1>1, <1>2 DEF StoreValue
  <2> QED
    BY <1>2, <2>1 DEF MInv, Saved, Holds, Active
<1>3. CASE WriteBackReverse(t)
  <2>1. pc[t] = "undo" /\ a = wrSet[t][at[t]].addr
    BY <1>1, <1>3 DEF WriteBackReverse
  <2>2. at[t] \in 1 .. Len(wrSet[t])
    BY <1>1, <2>1 DEF LInv, Located
  <2> QED
    BY <1>3, <2>1, <2>2 DEF Holds, Active, Written
<1>4. CASE ~StoreValue(t) /\ ~WriteBackReverse(t)
  <2>1. memory' = memory
    BY <1>1, <1>4, StepSorts, Zenon
    DEF StoreLock, StoreOwn, BeginStore, StoreRecord, GVGenerate, GVSwap,
        Validated, DropLocks, RestoreLocks, Release, Rest, shared
  <2> QED
    BY <2>1
<1> QED
  BY <1>2, <1>3, <1>4

\* What the rollback leaves in a word with no entry before this one.
LEMMA UndoneValue ==
  ASSUME KInv, MInv, NEW t \in Threads, WriteBackReverse(t),
         NEW a \in Written(t),
         \A i \in 1 .. at[t] : i < at[t] => wrSet[t][i].addr # a
  PROVE  memory'[a] = committed[a].valu
<1> DEFINE e == wrSet[t][at[t]]
<1>1. /\ pc[t] = "undo" /\ memory' = [memory EXCEPT ![e.addr] = e.valu]
      /\ at[t] \in 1 .. Len(wrSet[t]) /\ Len(wrSet[t]) \in Nat
      /\ memory \in [Addrs -> Vals]
  BY DEF WriteBackReverse, KInv, LInv, Located, Types
<1>2. a \in Addrs
  BY <1>1, Holder DEF Holds, Active
<1>3. PICK j \in 1 .. Len(wrSet[t]) :
          First(t, j, a) /\ wrSet[t][j].valu = committed[a].valu
  BY <1>1 DEF MInv, Saved, Active
<1>4. CASE e.addr = a
  <2>1. ~(at[t] < j)
    <3> SUFFICES ASSUME at[t] < j PROVE FALSE
      OBVIOUS
    <3>1. at[t] \in 1 .. j - 1
      BY <1>1
    <3> QED
      BY <1>3, <1>4, <3>1 DEF First
  <2>2. ~(j < at[t])
    BY <1>1, <1>3 DEF First
  <2>3. j = at[t]
    BY <1>1, <2>1, <2>2
  <2> QED
    BY <1>1, <1>2, <1>3, <1>4, <2>3
<1>5. CASE e.addr # a
  <2>1. ~ \E i \in 1 .. at[t] : wrSet[t][i].addr = a
    BY <1>1, <1>5
  <2>2. memory[a] = committed[a].valu
    BY <1>1, <2>1 DEF MInv, Saved
  <2> QED
    BY <1>1, <1>2, <1>5, <2>2
<1> QED
  BY <1>4, <1>5

\* The thread's own values.
LEMMA SavedKept ==
  ASSUME KInv, MInv, NEW t \in Threads, TL2Step(t)
  PROVE  Saved(t)'
<1>1. LInv /\ Saved(t) /\ Kept(t)
  BY DEF KInv, MInv
<1>2. ASSUME UNCHANGED <<wrSet, committed>>, Active(t),
             pc'[t] \notin {"write", "undo"}
      PROVE  Saved(t)'
  <2>1. Written(t)' = Written(t)
    BY <1>2 DEF Written
  <2> QED
    BY <1>1, <1>2, <2>1 DEF Saved, First
<1>3. CASE \E a \in Addrs, v \in Vals : StoreLock(t, a, v) \/ StoreOwn(t, a, v)
  BY <1>1, <1>2, <1>3, StoreEffect DEF Active
<1>4. CASE StoreRecord(t)
  <2> DEFINE b == op[t].addr
  <2>2. Len(wrSet[t]) \in Nat
    BY <1>1, Numbers
  <2> PICK n \in Nat : n = Len(wrSet[t]) + 1
    BY <2>2
  <2>1. /\ UNCHANGED <<op, memory, committed>> /\ b \in Addrs
        /\ pc[t] = "store" /\ pc'[t] = "write"
        /\ Len(wrSet'[t]) = n /\ wrSet'[t][n].addr = b
        /\ wrSet'[t][n].valu = memory[b] /\ n \in Nat \ {0}
        /\ \A i \in 1 .. Len(wrSet[t]) : i # n /\ wrSet'[t][i] = wrSet[t][i]
    BY <1>1, <1>4, RecordEffect
  <2>3. n \in 1 .. Len(wrSet'[t])
    BY <2>1
  <2>4. b \in Written(t)'
    BY <2>1, <2>3 DEF Written
  <2>5. ASSUME NEW a \in Written(t)'
        PROVE  \E i \in 1 .. Len(wrSet'[t]) :
                   First(t, i, a)' /\ wrSet'[t][i].valu = committed[a].valu
    <3>1. CASE a \in Written(t)
      <4>1. PICK i \in 1 .. Len(wrSet[t]) :
                First(t, i, a) /\ wrSet[t][i].valu = committed[a].valu
        BY <1>1, <2>1, <3>1 DEF Saved, Active
      <4>2. i \in 1 .. Len(wrSet'[t]) /\ \A k \in 1 .. i - 1 : k \in 1 .. Len(wrSet[t])
        BY <2>1, <2>2
      <4> QED
        BY <2>1, <4>1, <4>2, ZenonT(60) DEF First
    <3>2. CASE a \notin Written(t)
      <4>1. a = b
        <5>1. PICK i \in 1 .. Len(wrSet'[t]) : wrSet'[t][i].addr = a
          BY DEF Written
        <5>2. i # n => i \in 1 .. Len(wrSet[t])
          BY <2>1, <2>2
        <5> QED
          BY <2>1, <3>2, <5>1, <5>2 DEF Written
      <4>2. First(t, n, a)'
        <5>1. \A k \in 1 .. n - 1 : k \in 1 .. Len(wrSet[t])
          BY <2>2
        <5>2. \A k \in 1 .. n - 1 : wrSet[t][k].addr # a
          BY <3>2, <5>1 DEF Written
        <5>3. \A k \in 1 .. n - 1 : wrSet'[t][k] = wrSet[t][k]
          BY <2>1, <5>1
        <5> QED
          BY <2>1, <2>3, <4>1, <5>2, <5>3 DEF First
      <4>3. memory[a] = committed[a].valu
        <5>1. LockTab[LockOf[a]].by = t
          BY <1>1, <2>1, <4>1 DEF Kept
        <5>2. ASSUME NEW u \in Threads, Holds(u, a) PROVE FALSE
          BY <3>2, <5>1, <5>2, Holder DEF Holds
        <5> QED
          BY <2>1, <4>1, <5>2 DEF MInv, Settled
      <4> QED
        BY <2>1, <2>3, <4>1, <4>2, <4>3
    <3> QED
      BY <3>1, <3>2
  <2> QED
    BY <2>1, <2>4, <2>5 DEF Saved
<1>5. CASE StoreValue(t) \/ GVGenerate(t) \/ GVSwap(t)
  <2>1. /\ UNCHANGED <<wrSet, committed>> /\ pc[t] \in {"write", "body", "clock"}
        /\ pc'[t] \in {"body", "clock", "validate"}
    BY <1>1, <1>5 DEF StoreValue, GVGenerate, GVSwap, Goto, LInv, Types
  <2> QED
    BY <1>2, <2>1 DEF Active
<1>6. CASE Validated(t)
  <2>1. pc'[t] = "drop"
    BY <1>1, <1>6 DEF Validated, Goto, LInv, Types
  <2> QED
    BY <2>1 DEF Saved, Active
<1>7. CASE DropLocks(t) \/ RestoreLocks(t)
  <2>1. CASE UNCHANGED pc
    BY <1>1, <1>7, <2>1, ReleaseEffect DEF Saved, Active
  <2>2. CASE wrSet'[t] = << >> /\ pc'[t] = "idle"
    BY <2>2 DEF Saved, Written
  <2> QED
    BY <1>1, <1>7, <2>1, <2>2, ReleaseEffect
<1>8. CASE WriteBackReverse(t)
  <2>1. /\ UNCHANGED <<wrSet, committed>> /\ pc[t] = "undo"
        /\ \/ at[t] > 1 /\ at'[t] = at[t] - 1 /\ pc'[t] = "undo"
           \/ pc'[t] = "restore"
    BY <1>1, <1>8 DEF WriteBackReverse, Goto, LInv, Types
  <2>2. CASE pc'[t] = "restore"
    BY <2>2 DEF Saved, Active
  <2>3. CASE at[t] > 1 /\ at'[t] = at[t] - 1 /\ pc'[t] = "undo"
    <3>1. Written(t)' = Written(t) /\ at[t] \in Nat
      BY <1>1, <2>1, Numbers DEF Written
    <3>2. ASSUME NEW a \in Written(t),
                 ~ \E i \in 1 .. at'[t] : wrSet[t][i].addr = a
          PROVE  memory'[a] = committed[a].valu
      <4>1. \A i \in 1 .. at[t] : i < at[t] => i \in 1 .. at'[t]
        BY <2>3, <3>1
      <4> QED
        BY <1>8, <3>2, <4>1, UndoneValue
    <3> QED
      BY <1>1, <2>1, <2>3, <3>1, <3>2 DEF Saved, First, Active
  <2> QED
    BY <2>1, <2>2, <2>3
<1>9. CASE Rest(t)
  <2>1. /\ UNCHANGED <<wrSet, committed>> /\ Active(t) /\ pc'[t] # "write"
    BY <1>9 DEF Rest, Active
  <2>2. CASE pc'[t] = "undo"
    <3>1. at'[t] = Len(wrSet[t]) /\ Written(t)' = Written(t)
      BY <1>9, <2>1, <2>2 DEF Rest, Written
    <3>2. \A a \in Written(t) : \E i \in 1 .. at'[t] : wrSet[t][i].addr = a
      BY <3>1 DEF Written
    <3> QED
      BY <1>1, <2>1, <2>2, <3>1, <3>2 DEF Saved, First
  <2>3. CASE pc'[t] # "undo"
    BY <1>2, <2>1, <2>3
  <2> QED
    BY <2>2, <2>3
<1> QED
  BY <1>1, <1>3, <1>4, <1>5, <1>6, <1>7, <1>8, <1>9, StepSorts

\* The others' words are out of its reach.
LEMMA OthersSaved ==
  ASSUME KInv, MInv, NEW t \in Threads, TL2Step(t), NEW u \in Threads \ {t}
  PROVE  Saved(u)'
<1>1. /\ LInv /\ Saved(u)
      /\ pc'[u] = pc[u] /\ op'[u] = op[u] /\ at'[u] = at[u]
      /\ wrSet'[u] = wrSet[u]
  BY Alone DEF KInv, MInv
<1>2. Written(u)' = Written(u) /\ Active(u)' = Active(u)
  BY <1>1 DEF Written, Active
<1>3. ASSUME NEW a \in Written(u), Active(u)
      PROVE  memory'[a] = memory[a] /\ committed'[a] = committed[a]
  <2>1. a \in Addrs /\ ~Holds(t, a)
    BY <1>3, Holder, OneHolder DEF Holds
  <2>2. Validated(t) => Active(t)
    BY DEF Validated, Active
  <2> QED
    BY <1>1, <2>1, <2>2, MemoryStep, CommittedStep DEF Holds
<1> QED
  BY <1>1, <1>2, <1>3 DEF Saved, First, Active

LEMMA SettledKept ==
  ASSUME KInv, MInv, NEW t \in Threads, TL2Step(t), NEW a \in Addrs
  PROVE  Settled(a)'
<1> SUFFICES ASSUME \A u \in Threads : ~Holds(u, a)'
             PROVE  memory'[a] = committed'[a].valu
  BY DEF Settled
<1>1. LInv /\ Saved(t)
  BY DEF KInv, MInv
<1>2. ASSUME NEW u \in Threads \ {t} PROVE ~Holds(u, a)
  <2>1. Holds(u, a)' = Holds(u, a)
    BY Alone DEF Holds, Active, Written
  <2> QED
    BY <2>1
<1>3. CASE ~Holds(t, a)
  <2>1. memory[a] = committed[a].valu
    BY <1>2, <1>3 DEF MInv, Settled
  <2>2. memory'[a] = memory[a]
    BY <1>3, MemoryStep
  <2>3. committed'[a] = committed[a]
    BY <1>1, <1>3, CommittedStep DEF Holds, Active, Validated
  <2> QED
    BY <2>1, <2>2, <2>3
<1>4. CASE Holds(t, a)
  <2>1. CASE Validated(t)
    BY <1>1, <1>4, <2>1 DEF Validated, Holds, shared
  <2>2. CASE WriteBackReverse(t)
    <3>1. /\ UNCHANGED <<wrSet, committed>>
          /\ at[t] \in 1 .. Len(wrSet[t]) /\ Len(wrSet[t]) \in Nat
          /\ at[t] > 1 => pc'[t] = pc[t]
      BY <1>1, <2>2 DEF WriteBackReverse, LInv, Types, Located
    <3>2. ~(at[t] > 1)
      BY <1>4, <3>1 DEF Holds, Active, Written
    <3>3. \A i \in 1 .. at[t] : i < at[t] => wrSet[t][i].addr # a
      BY <3>1, <3>2
    <3>4. memory'[a] = committed[a].valu
      BY <1>4, <2>2, <3>3, UndoneValue DEF Holds
    <3> QED
      BY <3>1, <3>4
  <2>3. CASE ~Validated(t) /\ ~WriteBackReverse(t)
    <3>1. Holds(t, a)'
      <4>1. CASE \E b \in Addrs, v \in Vals : StoreLock(t, b, v) \/ StoreOwn(t, b, v)
        <5>1. UNCHANGED wrSet /\ pc'[t] = "store"
          BY <1>1, <4>1, StoreEffect
        <5> QED
          BY <1>4, <5>1 DEF Holds, Active, Written
      <4>2. CASE StoreRecord(t)
        <5>1. PICK i \in 1 .. Len(wrSet[t]) : wrSet[t][i].addr = a
          BY <1>4 DEF Holds, Written
        <5>2. /\ pc'[t] = "write" /\ wrSet'[t][i].addr = a
              /\ Len(wrSet'[t]) = Len(wrSet[t]) + 1 /\ Len(wrSet[t]) \in Nat
          BY <1>1, <4>2, <5>1, RecordEffect, Numbers
        <5>3. i \in 1 .. Len(wrSet'[t])
          BY <5>2
        <5> QED
          BY <5>2, <5>3 DEF Holds, Active, Written
      <4>3. CASE StoreValue(t) \/ GVGenerate(t) \/ GVSwap(t)
        <5>1. UNCHANGED wrSet /\ pc'[t] \in {"body", "clock", "validate"}
          BY <1>1, <4>3 DEF StoreValue, GVGenerate, GVSwap, Goto, LInv, Types
        <5> QED
          BY <1>4, <5>1 DEF Holds, Active, Written
      <4>4. CASE Rest(t)
        <5>1. UNCHANGED wrSet /\ pc'[t] \notin {"drop", "restore"}
          BY <4>4 DEF Rest
        <5> QED
          BY <1>4, <5>1 DEF Holds, Active, Written
      <4>5. ~DropLocks(t) /\ ~RestoreLocks(t)
        BY <1>4 DEF DropLocks, RestoreLocks, Holds, Active
      <4> QED
        BY <1>1, <2>3, <4>1, <4>2, <4>3, <4>4, <4>5, StepSorts
    <3> QED
      BY <3>1
  <2> QED
    BY <2>1, <2>2, <2>3
<1> QED
  BY <1>3, <1>4

LEMMA MInvKept ==
  ASSUME KInv, MInv, NEW t \in Threads, TL2Step(t)
  PROVE  MInv'
<1>1. ASSUME NEW u \in Threads PROVE Saved(u)'
  BY SavedKept, OthersSaved
<1> QED
  BY <1>1, SettledKept DEF MInv

\* A word nobody has the lock of has its committed value.
LEMMA FreeSettled ==
  ASSUME VInv, MInv, NEW a \in Addrs, LockTab[LockOf[a]].by = NoThread
  PROVE  /\ memory[a] = committed[a].valu
         /\ LockTab[LockOf[a]].n >= committed[a].ver
<1>1. ASSUME NEW t \in Threads, Holds(t, a) PROVE FALSE
  BY <1>1, Holder, TL2Assumption DEF VInv
<1> QED
  BY <1>1 DEF MInv, Settled, VInv, AtLeast

-----------------------------------------------------------------------------
(* Reads *)

\* A free lock's own version is a bound.
LEMMA FreeAtLeast ==
  ASSUME VInv, NEW l \in Locks, LockTab[l].by = NoThread
  PROVE  AtLeast(l, LockTab[l].n)
<1>1. KInv /\ LInv /\ LockTab[l].n \in Nat
  BY DEF VInv, KInv, LInv, Types, Stamps
<1>2. ASSUME NEW t \in Threads PROVE Above(t, l, LockTab[l].n)
  <2>1. pc[t] = "store" => LockOf[op[t].addr] # l
    BY <1>1, TL2Assumption DEF KInv, Kept
  <2>2. \A i \in Unreleased(t) :
            LockOf[wrSet[t][i].addr] = l => GivesBack(t, i) = LockTab[l].n
    BY DEF VInv, OneVersion
  <2> QED
    BY <1>1, <2>1, <2>2 DEF Above
<1> QED
  BY <1>1, <1>2 DEF AtLeast

LEMMA LoadingKept ==
  ASSUME VInv, MInv, RInv, NEW t \in Threads, TL2Step(t), VInv',
         NEW u \in Threads, pc'[u] \in {"load", "loaded"},
         pc'[u] = pc[u], op'[u] = op[u], rv'[u] = rv[u],
         LockTab[LockOf[op[u].addr]].by = u =>
             LockTab'[LockOf[op[u].addr]].by = u
  PROVE  Loading(u)'
<1> DEFINE a == op[u].addr
           l == LockOf[a]
           cv == op[u].cv
<1>1. /\ LInv /\ KInv /\ LInv' /\ a \in Addrs /\ l \in Locks /\ Loading(u)
      /\ cv.n \in Nat
  BY Numbers, TL2Assumption DEF VInv, KInv, LInv, Located, RInv
<1>2. MayRead(u, cv)'
  BY <1>1 DEF Loading, MayRead
<1>3. cv.by = NoThread => AtLeast(l, cv.n)
  BY <1>1 DEF Loading
<1>4. cv.by = NoThread => AtLeast(l, cv.n)'
  <2> SUFFICES ASSUME cv.by = NoThread PROVE AtLeast(l, cv.n)'
    OBVIOUS
  <2> PICK m \in Nat : m = cv.n
    BY <1>1
  <2> PICK k \in Locks : k = l
    BY <1>1
  <2>1. AtLeast(k, m)'
    BY <1>1, <1>3, AtLeastKept
  <2>2. cv' = cv /\ l' = l
    OBVIOUS
  <2> QED
    BY <2>1, <2>2 DEF AtLeast, Above
<1>5. ASSUME pc[u] = "loaded", ~op[u].locked
      PROVE  op[u].valu = committed'[a].valu \/ committed'[a].ver > cv.n
  <2>1. cv.by = NoThread
    BY <1>1, <1>5 DEF Loading, MayRead
  <2>2. op[u].valu = committed[a].valu \/ committed[a].ver > cv.n
    BY <1>1, <1>5 DEF Loading
  <2>3. CASE committed'[a] = committed[a]
    BY <2>2, <2>3
  <2>4. CASE /\ Validated(t) /\ a \in Written(t)
             /\ committed'[a] = [valu |-> memory[a], ver |-> wv[t]]
    <3>1. PICK i \in 1 .. Len(wrSet[t]) : wrSet[t][i].addr = a
      BY <2>4 DEF Written
    <3>2. /\ pc[t] = "validate" /\ i \in Unreleased(t)
          /\ wrSet[t][i].rdv \in Nat /\ wv[t] \in Nat
          /\ wrSet[t][i].rdv < wv[t]
      BY <1>1, <2>4, <3>1, Numbers DEF Validated, Unreleased, VInv, Versions
    <3>3. wrSet[t][i].rdv >= cv.n
      BY <1>1, <1>3, <2>1, <3>1, <3>2 DEF AtLeast, Above, GivesBack
    <3> QED
      BY <1>1, <2>4, <3>2, <3>3
  <2> QED
    BY <1>1, <2>3, <2>4, CommittedStep
<1> QED
  BY <1>1, <1>2, <1>4, <1>5 DEF Loading

\* A load starts and reads the value by its own steps only.
LEMMA LoadPlaces ==
  ASSUME LInv, NEW t \in Threads, TL2Step(t), pc'[t] \in {"load", "loaded"}
  PROVE  LoadValue(t) \/ \E a \in Addrs : TxLoad(t, a)
<1>1. pc \in [Threads -> Places]
  BY DEF LInv, Types
<1>2. ~TxAbort(t)
  BY <1>1 DEF TxAbort, txReset, Goto
<1>3. ~Rest(t) => FALSE
  BY <1>1, StepSorts, Zenon DEF StoreLock, StoreOwn, BeginStore, StoreRecord, StoreValue,
     GVGenerate, GVSwap, Validated, DropLocks, WriteBackReverse, RestoreLocks,
     Release, txReset, Goto
<1> QED
  BY <1>1, <1>2, <1>3, Zenon
  DEF TL2Step, TxStart, Restart, LoadRefused, StoreRefused, LoadCheck, LoadFails,
      Accept, ReadSetCoherentPessimistic, TrackLoad, ReadSetCoherent, CheckEntry,
      StoreLock, StoreOwn, BeginStore, StoreRecord, StoreValue, CommitReadOnly,
      txReset, GVGenerate, GVSwap, Validated, DropLocks, WriteBackReverse,
      RestoreLocks, Release, Goto

LEMMA LoadingOwn ==
  ASSUME VInv, MInv, RInv, NEW t \in Threads, TL2Step(t), VInv'
  PROVE  Loading(t)'
<1>1. LInv /\ LInv' /\ KInv /\ op \in [Threads -> InOp] /\ pc \in [Threads -> Places]
  BY DEF VInv, KInv, LInv, Types
<1>2. ASSUME NEW a \in Addrs, TxLoad(t, a) PROVE Loading(t)'
  <2> DEFINE l == LockOf[a]
  <2>1. /\ op'[t].addr = a /\ op'[t].cv = LockTab[l] /\ pc'[t] = "load"
        /\ MayRead(t, LockTab[l]) /\ UNCHANGED <<LockTab, rv>>
    BY <1>1, <1>2 DEF TxLoad, Goto, Idle, shared
  <2>2. l \in Locks /\ LockTab[l].n \in Nat
    BY <1>1, TL2Assumption, Numbers
  <2>3. LockTab[l].by = NoThread => AtLeast(l, LockTab[l].n)'
    <3> SUFFICES ASSUME LockTab[l].by = NoThread PROVE AtLeast(l, LockTab[l].n)'
      OBVIOUS
    <3> PICK m \in Nat : m = LockTab[l].n
      BY <2>2
    <3>1. AtLeast(l, m)'
      BY <1>1, <2>2, FreeAtLeast, AtLeastKept
    <3> QED
      BY <2>1, <3>1 DEF AtLeast, Above
  <2>4. LockTab[l].by = NoThread => AtLeast(LockOf[op[t].addr], op[t].cv.n)'
    BY <2>1, <2>3 DEF AtLeast, Above
  <2> QED
    BY <2>1, <2>4 DEF Loading, MayRead
<1>3. CASE LoadValue(t)
  <2> DEFINE a == op[t].addr
             l == LockOf[a]
             cv == op[t].cv
  <2>1. /\ pc[t] = "load" /\ pc'[t] = "loaded" /\ UNCHANGED <<LockTab, rv, committed>>
        /\ op'[t].addr = a /\ op'[t].cv = cv /\ op'[t].valu = memory[a]
        /\ op'[t].locked = (LockTab[l].by # NoThread)
    BY <1>1, <1>3 DEF LoadValue, Goto, OwnerOf, shared, InOp
  <2>2. a \in Addrs /\ l \in Locks /\ cv.n \in Nat /\ Loading(t)
    BY <1>1, <2>1, TL2Assumption, Numbers DEF LInv, Located, RInv
  <2>3. cv.by = NoThread => AtLeast(LockOf[op[t].addr], op[t].cv.n)'
    <3> SUFFICES ASSUME cv.by = NoThread
                 PROVE  AtLeast(LockOf[op[t].addr], op[t].cv.n)'
      OBVIOUS
    <3> PICK m \in Nat : m = cv.n
      BY <2>2
    <3> PICK k \in Locks : k = l
      BY <2>2
    <3>1. AtLeast(k, m)
      BY <2>1, <2>2 DEF Loading
    <3>2. AtLeast(k, m)'
      BY <1>1, <3>1, AtLeastKept
    <3> QED
      BY <2>1, <3>2 DEF AtLeast, Above
  <2>4. cv.by = t => LockTab[l].by = t /\ op'[t].locked
    BY <2>1, <2>2, TL2Assumption DEF Loading
  <2>5. ~op'[t].locked => op'[t].valu = committed[a].valu
    BY <2>1, <2>2, FreeSettled
  <2>6. MayRead(t, cv)'
    BY <2>1, <2>2 DEF Loading, MayRead
  <2> QED
    BY <2>1, <2>3, <2>4, <2>5, <2>6 DEF Loading, MayRead
<1>4. CASE pc'[t] \notin {"load", "loaded"}
  BY <1>4 DEF Loading
<1> QED
  BY <1>1, <1>2, <1>3, <1>4, LoadPlaces

LEMMA LoadingOthers ==
  ASSUME VInv, MInv, RInv, NEW t \in Threads, TL2Step(t), VInv',
         NEW u \in Threads \ {t}
  PROVE  Loading(u)'
<1>1. LInv /\ KInv /\ pc'[u] = pc[u] /\ op'[u] = op[u] /\ rv'[u] = rv[u]
  BY Alone, OthersAlone DEF VInv, KInv
<1>2. CASE pc[u] \in {"load", "loaded"}
  <2>1. LockOf[op[u].addr] \in Locks
    BY <1>1, <1>2, TL2Assumption DEF LInv, Located
  <2>2. LockTab[LockOf[op[u].addr]].by = u => LockTab'[LockOf[op[u].addr]].by = u
    BY <1>1, <2>1, StepTakes, TL2Assumption DEF Takes
  <2> QED
    BY <1>1, <1>2, <2>2, LoadingKept
<1>3. CASE pc[u] \notin {"load", "loaded"}
  BY <1>1, <1>3 DEF Loading
<1> QED
  BY <1>2, <1>3

\* The second look at the lock, of a load that found it free: it still is
\* what it was.
LEMMA SecondLook ==
  ASSUME VInv, RInv, NEW t \in Threads, LoadCheck(t), ~op[t].locked
  PROVE  LET l == LockOf[op[t].addr]
         IN /\ op[t].addr \in Addrs /\ l \in Locks
            /\ LockTab[l].by = NoThread /\ LockTab[l].n = op[t].cv.n
            /\ op[t].cv.n <= rv[t]
            /\ \/ op[t].valu = committed[op[t].addr].valu
               \/ committed[op[t].addr].ver > op[t].cv.n
<1>1. /\ pc[t] = "loaded" /\ Loading(t)
      /\ op[t].cv.by = t \/ LockTab[LockOf[op[t].addr]] = op[t].cv
  BY DEF LoadCheck, RInv
<1>2. op[t].addr \in Addrs /\ LockOf[op[t].addr] \in Locks
  BY <1>1, TL2Assumption DEF VInv, KInv, LInv, Located
<1>3. op[t].cv.by # t /\ op[t].cv.by = NoThread /\ op[t].cv.n <= rv[t]
  BY <1>1 DEF Loading, MayRead
<1> QED
  BY <1>1, <1>2, <1>3 DEF Loading

\* How a step changes what its thread was told.
LEMMA SeenStep ==
  ASSUME VInv, RInv, NEW t \in Threads, TL2Step(t), NEW a \in seen'[t]
  PROVE  \/ a \in seen[t] /\ rv'[t] = rv[t]
         \/ LockTab[LockOf[a]].by = NoThread
<1>1. /\ LInv /\ seen \in [Threads -> SUBSET Addrs] /\ Newer(t)
      /\ rv \in [Threads -> Nat]
  BY DEF VInv, KInv, LInv, Types, DataTypes, RInv
<1>2. ~txReset(t)
  BY <1>1 DEF txReset
<1>3. TxAbort(t) => UNCHANGED <<seen, rv>>
  BY <1>2 DEF TxAbort
<1>4. CASE LoadCheck(t)
  <2>1. UNCHANGED rv
    BY <1>4 DEF LoadCheck, Accept
  <2>2. CASE op[t].locked
    BY <1>1, <1>4, <2>1, <2>2 DEF LoadCheck, Sees
  <2>3. CASE ~op[t].locked
    <3>1. LockTab[LockOf[op[t].addr]].by = NoThread
      BY <1>4, <2>3, SecondLook
    <3>2. a \in seen[t] \/ a = op[t].addr
      BY <1>1, <1>4, <2>3 DEF LoadCheck, Sees
    <3> QED
      BY <2>1, <3>1, <3>2
  <2> QED
    BY <2>2, <2>3
<1>5. CASE TxStart(t)
  BY <1>1, <1>5 DEF TxStart, Newer
<1>6. CASE ~LoadCheck(t) /\ ~TxStart(t)
  <2>1. UNCHANGED <<seen, rv>>
    BY <1>2, <1>3, <1>6, Zenon
    DEF TL2Step, Restart, TxLoad, LoadRefused, StoreRefused, LoadValue,
        LoadFails, Accept, ReadSetCoherentPessimistic, TrackLoad,
        ReadSetCoherent, CheckEntry, StoreLock, StoreOwn, BeginStore,
        StoreRecord, StoreValue, CommitReadOnly, GVGenerate, GVSwap, Validated,
        DropLocks, WriteBackReverse, RestoreLocks, Release
  <2> QED
    BY <2>1
<1> QED
  BY <1>4, <1>5, <1>6

LEMMA NewerOthers ==
  ASSUME VInv, RInv, NEW t \in Threads, TL2Step(t), NEW u \in Threads \ {t}
  PROVE  Newer(u)'
<1>1. /\ LInv /\ KInv /\ Newer(u)
      /\ pc'[u] = pc[u] /\ wrSet'[u] = wrSet[u] /\ rv'[u] = rv[u]
      /\ wv'[u] = wv[u] /\ seen'[u] = seen[u]
  BY Alone, OthersAlone DEF VInv, KInv, RInv
<1>2. Written(u)' = Written(u)
  BY <1>1 DEF Written
<1>3. ASSUME pc[u] \in {"clock", "validate"}, NEW v \in Threads \ {u},
             NEW a \in seen'[v] \cap Written(u)
      PROVE  wv[u] > rv'[v]
  <2>1. Holds(u, a)
    BY <1>3 DEF Holds, Active
  <2>2. LockTab[LockOf[a]].by # NoThread
    BY <1>1, <2>1, Holder, TL2Assumption
  <2>3. a \in seen[v] /\ rv'[v] = rv[v]
    <3>1. CASE v = t
      BY <1>3, <2>2, <3>1, SeenStep
    <3>2. CASE v # t
      BY <1>3, <3>2, OthersAlone DEF VInv
    <3> QED
      BY <3>1, <3>2
  <2> QED
    BY <1>1, <1>3, <2>3 DEF Newer
<1> QED
  BY <1>1, <1>2, <1>3 DEF Newer

LEMMA NewerOwn ==
  ASSUME VInv, RInv, NEW t \in Threads, TL2Step(t)
  PROVE  Newer(t)'
<1>1. /\ LInv /\ KInv /\ Newer(t) /\ GClock \in Nat /\ wv[t] \in Nat
      /\ pc \in [Threads -> Places] /\ seen \in [Threads -> SUBSET Addrs]
      /\ Versions(t) /\ wv \in [Threads -> Nat]
  BY DEF VInv, KInv, LInv, Types, DataTypes, RInv
<1>2. pc'[t] = "idle" => seen'[t] = {}
  <2>1. txReset(t) => seen'[t] = {}
    BY <1>1 DEF txReset
  <2>2. ~txReset(t) => pc'[t] # "idle"
    BY <1>1, Zenon
    DEF TL2Step, TxStart, Restart, TxAbort, TxLoad, LoadRefused, StoreRefused,
        LoadValue, LoadCheck, LoadFails, Accept, ReadSetCoherentPessimistic,
        TrackLoad, ReadSetCoherent, CheckEntry, StoreLock, StoreOwn, BeginStore,
        StoreRecord, StoreValue, CommitReadOnly, GVGenerate, GVSwap, Validated,
        DropLocks, WriteBackReverse, RestoreLocks, Release, Goto
  <2> QED
    BY <2>1, <2>2
<1>3. ASSUME pc'[t] \in {"clock", "validate"}, NEW u \in Threads \ {t},
             seen'[u] \cap Written(t)' # {}
      PROVE  wv'[t] > rv'[u]
  <2>1. /\ seen'[u] = seen[u] /\ rv'[u] = rv[u] /\ rv[u] \in Nat /\ rv[u] <= GClock
    BY <1>1, OthersAlone, Numbers DEF VInv, Versions
  <2>2. CASE GVGenerate(t)
    BY <1>1, <2>1, <2>2 DEF GVGenerate
  <2>3. CASE GVSwap(t) \/ Rest(t)
    <3>1. UNCHANGED wrSet /\ pc[t] \in {"clock", "validate"}
      BY <1>3, <2>3 DEF GVSwap, Rest
    <3>2. wv[t] > rv[u]
      BY <1>1, <1>3, <2>1, <3>1 DEF Newer, Written
    <3>3. CASE GVSwap(t)
      <4>1. \/ wv'[t] = wv[t]
            \/ wv'[t] = GClock /\ GClock # wv[t] - 1 /\ wv[t] <= GClock + 1
        BY <1>1, <3>3 DEF GVSwap, Versions
      <4> QED
        BY <1>1, <2>1, <3>2, <4>1
    <3>4. CASE Rest(t)
      BY <1>3, <2>1, <3>2, <3>4 DEF Rest
    <3> QED
      BY <2>3, <3>3, <3>4
  <2>4. ~GVGenerate(t) /\ ~GVSwap(t) => Rest(t)
    <3>1. ASSUME NEW b \in Addrs, NEW v \in Vals,
                 StoreLock(t, b, v) \/ StoreOwn(t, b, v)
          PROVE  FALSE
      BY <1>1, <1>3, <3>1, StoreEffect
    <3>2. ~DropLocks(t) /\ ~RestoreLocks(t)
      BY <1>1, <1>3, ReleaseEffect
    <3>3. ~StoreRecord(t) /\ ~StoreValue(t) /\ ~Validated(t) /\ ~WriteBackReverse(t)
      BY <1>1, <1>3 DEF StoreRecord, StoreValue, Validated, WriteBackReverse, Goto
    <3> QED
      BY <1>1, <3>1, <3>2, <3>3, StepSorts
  <2> QED
    BY <2>2, <2>3, <2>4
<1> QED
  BY <1>2, <1>3 DEF Newer

LEMMA DInvKept ==
  ASSUME SoleStorer, DInv, [TL2Next]_tl2Vars
  PROVE  DInv'
<1>1. CASE UNCHANGED tl2Vars
  <2>1. KInv'
    BY <1>1, KeepsKept DEF DInv, VInv
  <2>2. DataTypes' /\ FreeVersions'
    BY <1>1 DEF DInv, VInv, DataTypes, FreeVersions, tl2Vars, shared
  <2>5. MInv'
    <3>1. /\ UNCHANGED <<memory, pc, wrSet, op, at, committed>>
          /\ MInv
      BY <1>1 DEF DInv, tl2Vars, shared
    <3>2. ASSUME NEW t \in Threads PROVE Saved(t)'
      <4>1. Active(t)' = Active(t) /\ Written(t)' = Written(t)
        BY <3>1 DEF Active, Written
      <4>2. \A k, a : First(t, k, a)' = First(t, k, a)
        BY <3>1 DEF First
      <4> QED
        BY <3>1, <4>1, <4>2 DEF MInv, Saved
    <3>3. \A a \in Addrs : Settled(a)'
      BY <3>1 DEF MInv, Settled, Holds, Active, Written
    <3> QED
      BY <3>2, <3>3 DEF MInv
  <2>3. \A t \in Threads : Versions(t)' /\ OneVersion(t)'
    BY <1>1 DEF DInv, VInv, Versions, OneVersion, GivesBack, Unreleased, tl2Vars,
                shared
  <2>4. /\ \A a \in Addrs : AtLeast(LockOf[a], committed[a].ver)'
        /\ RInv'
    BY <1>1 DEF DInv, VInv, RInv, Loading, Newer, MayRead, AtLeast, Above,
                GivesBack, Unreleased, Written, tl2Vars, shared
  <2> QED
    BY <2>1, <2>2, <2>3, <2>4, <2>5 DEF DInv, VInv
<1>2. ASSUME NEW t \in Threads, TL2Step(t) PROVE DInv'
  <2>1. VInv' /\ MInv'
    BY <1>2, VInvKept, MInvKept DEF DInv, VInv
  <2>2. ASSUME NEW u \in Threads PROVE (Loading(u) /\ Newer(u))'
    BY <1>2, <2>1, LoadingOwn, LoadingOthers, NewerOwn, NewerOthers DEF DInv
  <2> QED
    BY <2>1, <2>2 DEF DInv, RInv
<1> QED
  BY <1>1, <1>2 DEF TL2Next

LEMMA InitData == TL2Init => DInv
<1> SUFFICES ASSUME TL2Init PROVE DInv
  OBVIOUS
<1>1. /\ \A t \in Threads : /\ pc[t] = "idle" /\ wrSet[t] = << >> /\ rdSet[t] = << >>
                            /\ rv[t] = 0 /\ wv[t] = 0 /\ seen[t] = {}
                            /\ room[t] = RdSetSize
      /\ \A l \in Locks : LockTab[l] = Free(0)
      /\ \A a \in Addrs : committed[a] = [valu |-> memory[a], ver |-> 0]
      /\ GClock = 0 /\ MaxClock \in Nat /\ RdSetSize \in Nat
  BY TL2Assumption DEF TL2Init
<1>2. KInv
  BY InitKept
<1>3. DataTypes
  <2>1. << >> \in Seq(Locks) /\ Len(<< >>) = 0
    OBVIOUS
  <2>2. /\ room \in [Threads -> Nat] /\ rdSet \in [Threads -> Seq(Locks)]
        /\ seen \in [Threads -> SUBSET Addrs]
    BY <1>1, <2>1 DEF TL2Init
  <2>3. committed \in [Addrs -> [valu : Vals, ver : Nat]]
    BY DEF TL2Init
  <2> QED
    BY <1>1, <2>1, <2>2, <2>3 DEF DataTypes
<1>9. \A t \in Threads : 1 .. Len(wrSet[t]) = {} /\ Unreleased(t) = {} /\ Written(t) = {}
  <2>1. 1 .. Len(<< >>) = {}
    OBVIOUS
  <2> QED
    BY <1>1, <2>1 DEF Unreleased, Written
<1>10. \A l \in Locks : LockTab[l].n = 0
  BY <1>1 DEF Free
<1>11. ASSUME NEW a \in Addrs
       PROVE  committed[a].ver = 0 /\ committed[a].valu = memory[a]
  <2>1. committed[a] = [valu |-> memory[a], ver |-> 0]
    BY <1>1
  <2> QED
    BY <2>1
<1>12. \A a \in Addrs : LockOf[a] \in Locks
  BY TL2Assumption
<1>4. FreeVersions
  BY <1>1, <1>10, <1>11, <1>12 DEF FreeVersions
<1>5. \A t \in Threads : Versions(t) /\ OneVersion(t)
  <2> SUFFICES ASSUME NEW t \in Threads PROVE Versions(t) /\ OneVersion(t)
    OBVIOUS
  <2>1. Versions(t)
    BY <1>1, <1>9 DEF Versions
  <2>2. OneVersion(t)
    BY <1>1, <1>9 DEF OneVersion
  <2> QED
    BY <2>1, <2>2
<1>6. \A a \in Addrs : AtLeast(LockOf[a], committed[a].ver)
  BY <1>1, <1>9, <1>10, <1>11, <1>12 DEF AtLeast, Above
<1>7. MInv
  BY <1>1, <1>9, <1>10, <1>11, <1>12 DEF MInv, Saved, Settled
<1>8. RInv
  BY <1>1 DEF RInv, Loading, Newer
<1> QED
  BY <1>2, <1>3, <1>4, <1>5, <1>6, <1>7, <1>8 DEF DInv, VInv

-----------------------------------------------------------------------------
(* What follows *)

LEMMA TypesFollow ==
  ASSUME DInv
  PROVE  TL2TypeOK
<1> DEFINE S == [addr : Addrs, valu : Vals, rdv : 0 .. GClock]
<1>1. LInv /\ Types /\ DataTypes /\ FreeVersions /\ GClock \in Nat
  BY DEF DInv, VInv, KInv, LInv, Types
<1>2. GClock \in 0 .. MaxClock
  BY <1>1, TL2Assumption DEF FreeVersions
<1>3. rv \in [Threads -> 0 .. GClock]
  <2>1. ASSUME NEW t \in Threads PROVE rv[t] \in 0 .. GClock
    <3>1. rv[t] <= GClock /\ rv[t] \in Nat
      BY <1>1, Numbers DEF DInv, VInv, Versions
    <3> QED
      BY <1>1, <3>1
  <2> QED
    BY <1>1, <2>1 DEF Types
<1>4. ASSUME NEW t \in Threads
      PROVE  wv[t] \in 0 .. (IF pc[t] = "clock" THEN MaxClock ELSE GClock)
  BY <1>1, Numbers, TL2Assumption DEF DInv, VInv, Versions
<1>5. wrSet \in [Threads -> Seq(S)]
  <2>1. ASSUME NEW t \in Threads PROVE wrSet[t] \in Seq(S)
    <3>1. wrSet[t] \in Seq(Entries) /\ Len(wrSet[t]) \in Nat
      BY <1>1 DEF Types
    <3>2. ASSUME NEW i \in 1 .. Len(wrSet[t]) PROVE wrSet[t][i] \in S
      <4>1. wrSet[t][i] \in Entries
        BY <3>1
      <4>2. wrSet[t][i].rdv \in 0 .. GClock
        BY <1>1, Numbers DEF DInv, VInv, Versions
      <4> QED
        BY <4>1, <4>2 DEF Entries
    <3> HIDE DEF S
    <3> QED
      BY <3>1, <3>2
  <2> HIDE DEF S
  <2> QED
    BY <1>1, <2>1 DEF Types
<1>6. committed \in [Addrs -> [valu : Vals, ver : 0 .. GClock]]
  <2>1. ASSUME NEW a \in Addrs PROVE committed[a] \in [valu : Vals, ver : 0 .. GClock]
    <3>1. committed[a] \in [valu : Vals, ver : Nat]
      BY <1>1 DEF DataTypes
    <3>2. committed[a].ver \in 0 .. GClock
      BY <1>1, <3>1 DEF FreeVersions
    <3> QED
      BY <3>1, <3>2
  <2> QED
    BY <1>1, <2>1 DEF DataTypes
<1>7. /\ memory \in [Addrs -> Vals]
      /\ LockTab \in [Locks -> [by : Threads \cup {NoThread}, n : Nat]]
      /\ pc \in [Threads -> {"idle", "body", "load", "loaded", "grow", "store",
                 "write", "clock", "validate", "drop", "undo", "restore"}]
      /\ rdSet \in [Threads -> Seq(Locks)]
      /\ \A t \in Threads : Len(rdSet[t]) <= room[t]
      /\ seen \in [Threads -> SUBSET Addrs]
  BY <1>1 DEF Types, DataTypes, Stamps, Places
<1> QED
  BY <1>2, <1>3, <1>4, <1>5, <1>6, <1>7 DEF TL2TypeOK

LEMMA SnapshotStep ==
  ASSUME DInv, [TL2Next]_tl2Vars
  PROVE  \A t \in Threads :
             /\ Accepts(t) /\ ~op[t].locked =>
                    LET now == committed[op[t].addr]
                    IN op[t].valu = now.valu /\ now.ver <= rv[t]
             /\ Commits(t) => \A u \in Threads \ {t} :
                    seen[u] \cap Written(t) # {} => wv[t] > rv[u]
<1>1. VInv /\ MInv /\ RInv /\ KInv /\ LInv
  BY DEF DInv, VInv, KInv
<1> SUFFICES ASSUME NEW t \in Threads
             PROVE  /\ Accepts(t) /\ ~op[t].locked =>
                           LET now == committed[op[t].addr]
                           IN op[t].valu = now.valu /\ now.ver <= rv[t]
                    /\ Commits(t) => \A u \in Threads \ {t} :
                           seen[u] \cap Written(t) # {} => wv[t] > rv[u]
  OBVIOUS
<1>2. ASSUME Accepts(t), ~op[t].locked
      PROVE  /\ op[t].valu = committed[op[t].addr].valu
             /\ committed[op[t].addr].ver <= rv[t]
  <2>1. LoadCheck(t)
    <3>1. pc[t] = "loaded" /\ pc'[t] \in {"body", "grow"}
      BY <1>2 DEF Accepts
    <3>2. TL2Step(t)
      <4>1. PICK u \in Threads : TL2Step(u)
        BY <3>1 DEF TL2Next, tl2Vars
      <4>2. CASE u # t
        BY <1>1, <3>1, <4>1, <4>2, Alone
      <4> QED
        BY <4>1, <4>2
    <3>3. ~TxAbort(t)
      BY <1>1, <3>1 DEF TxAbort, txReset, Goto, LInv, Types
    <3> QED
      BY <3>1, <3>2, <3>3
      DEF TL2Step, TxStart, Restart, TxLoad, LoadRefused, StoreRefused, LoadValue,
          LoadFails, ReadSetCoherentPessimistic, TrackLoad, ReadSetCoherent,
          StoreLock, StoreOwn, BeginStore, StoreRecord, StoreValue,
          CommitReadOnly, GVGenerate, GVSwap, Validated, DropLocks,
          WriteBackReverse, RestoreLocks
  <2> DEFINE a == op[t].addr
  <2>2. /\ a \in Addrs /\ LockOf[a] \in Locks
        /\ LockTab[LockOf[a]].by = NoThread /\ LockTab[LockOf[a]].n = op[t].cv.n
        /\ op[t].cv.n <= rv[t]
        /\ op[t].valu = committed[a].valu \/ committed[a].ver > op[t].cv.n
    BY <1>1, <1>2, <2>1, SecondLook DEF Accepts
  <2>3. committed[a].ver <= op[t].cv.n
    BY <1>1, <2>2, FreeSettled, Numbers DEF VInv, DataTypes
  <2>4. committed[a].ver \in Nat /\ op[t].cv.n \in Nat /\ rv[t] \in Nat
    BY <1>1, <2>2, Numbers DEF VInv, DataTypes
  <2> QED
    BY <2>2, <2>3, <2>4
<1>3. ASSUME Commits(t)
      PROVE  \A u \in Threads \ {t} :
                 seen[u] \cap Written(t) # {} => wv[t] > rv[u]
  BY <1>1, <1>3 DEF Commits, RInv, Newer
<1> QED
  BY <1>2, <1>3

\* Versions stay below the clock, and everything has its type.
THEOREM VersionsBelowClock == SoleStorer => (TL2Spec => []TL2TypeOK)
<1> SUFFICES ASSUME SoleStorer PROVE TL2Spec => []TL2TypeOK
  OBVIOUS
<1> QED
  BY InitData, DInvKept, TypesFollow, PTL DEF TL2Spec

\* A word whose lock is free holds what was committed to it last, and the
\* lock is no older than that commit.
THEOREM FreeWordsAreCommitted == SoleStorer => (TL2Spec => []FreeWordsCommitted)
<1> SUFFICES ASSUME SoleStorer PROVE TL2Spec => []FreeWordsCommitted
  OBVIOUS
<1>1. DInv => FreeWordsCommitted
  BY FreeSettled DEF DInv, FreeWordsCommitted, OwnerOf
<1> QED
  BY <1>1, InitData, DInvKept, PTL DEF TL2Spec

\* What TxLoad returns of words whose locks were free when they were read is
\* the committed memory of one version, the transaction's read version, from
\* its first such load to its last.  Loads that met a locked word are not
\* covered: a value that is rolled back can be among them.
THEOREM FreeLoadsAreASnapshot == SoleStorer => (TL2Spec => FreeLoadsSnapshot)
<1> SUFFICES ASSUME SoleStorer PROVE TL2Spec => FreeLoadsSnapshot
  OBVIOUS
<1> QED
  BY InitData, DInvKept, SnapshotStep, PTL DEF TL2Spec, FreeLoadsSnapshot

-----------------------------------------------------------------------------
(* TL2 implements AtomicMemory *)

\* The first entries for a word are one entry.
LEMMA OneFirst ==
  ASSUME LInv, NEW t \in Threads, NEW a, NEW i, NEW j,
         First(t, i, a), First(t, j, a)
  PROVE  i = j
<1>1. i \in Nat /\ j \in Nat /\ i >= 1 /\ j >= 1
  BY DEF First
<1>2. ~(i < j) /\ ~(j < i)
  BY <1>1 DEF First
<1> QED
  BY <1>1, <1>2

\* The store of the abstraction is what the history says was committed.
LEMMA StoreIsCommitted ==
  ASSUME DInv, NEW a \in Addrs
  PROVE  Committed(a) = committed[a].valu
<1> DEFINE saved == UNION {SavedBy(t, a) : t \in Threads}
<1>1. ASSUME NEW t \in Threads, NEW v \in SavedBy(t, a)
      PROVE  v = committed[a].valu
  <2>1. Active(t) /\ \E i \in 1 .. Len(wrSet[t]) : First(t, i, a) /\ v = wrSet[t][i].valu
    BY DEF SavedBy, Active, First
  <2>2. PICK i \in 1 .. Len(wrSet[t]) : First(t, i, a) /\ v = wrSet[t][i].valu
    BY <2>1
  <2>3. a \in Written(t)
    BY <2>2 DEF First, Written
  <2>4. PICK j \in 1 .. Len(wrSet[t]) :
            First(t, j, a) /\ wrSet[t][j].valu = committed[a].valu
    BY <2>1, <2>3 DEF DInv, MInv, Saved
  <2> QED
    BY <2>2, <2>4, OneFirst DEF DInv, VInv, KInv
<1>2. CASE saved = {}
  <2>1. ASSUME NEW t \in Threads, Holds(t, a) PROVE FALSE
    <3>1. PICK j \in 1 .. Len(wrSet[t]) : First(t, j, a)
      BY <2>1 DEF DInv, MInv, Saved, Holds
    <3>2. wrSet[t][j].valu \in SavedBy(t, a)
      BY <2>1, <3>1 DEF SavedBy, First, Holds, Active
    <3> QED
      BY <1>2, <3>2
  <2>2. Committed(a) = memory[a]
    BY <1>2 DEF Committed
  <2> QED
    BY <2>1, <2>2 DEF DInv, MInv, Settled
<1>3. CASE saved # {}
  <2>1. (CHOOSE v \in saved : TRUE) \in saved
    BY <1>3
  <2>2. \A v \in saved : v = committed[a].valu
    BY <1>1
  <2>3. Committed(a) = CHOOSE v \in saved : TRUE
    BY <1>3 DEF Committed
  <2> QED
    BY <2>1, <2>2, <2>3
<1> QED
  BY <1>2, <1>3

StoreFollows == \A a \in Addrs : Committed(a) = committed[a].valu

LEMMA StoreNow == DInv => StoreFollows
  BY StoreIsCommitted DEF StoreFollows

LEMMA StoreNext == DInv' => StoreFollows'
  BY StoreNow, PTL

SamePending(t) == \A a \in Addrs : PendingOf(t, a)' = PendingOf(t, a)
SameStore      == \A a \in Addrs : Committed(a)' = Committed(a)

LEMMA AbstractStutter ==
  ASSUME SameStore, \A u \in Threads : SamePending(u)
  PROVE  UNCHANGED AM!vars
  BY DEF SameStore, SamePending, AM!vars

LEMMA AbstractAbort ==
  ASSUME NEW t \in Threads, SameStore,
         \A u \in Threads \ {t} : SamePending(u),
         \A a \in Addrs : PendingOf(t, a)' = NoAddr
  PROVE  AM!Abort(t)
  BY DEF SameStore, SamePending, AM!Abort, AM!Nothing

LEMMA AbstractPut ==
  ASSUME NEW t \in Threads, NEW a \in Addrs, NEW v \in Vals, SameStore,
         \A u \in Threads \ {t} : SamePending(u) /\ PendingOf(u, a) = NoAddr,
         \A b \in Addrs \ {a} : PendingOf(t, b)' = PendingOf(t, b),
         PendingOf(t, a)' = v
  PROVE  AM!Put(t, a, v)
  BY DEF SameStore, SamePending, AM!Put

LEMMA AbstractCommit ==
  ASSUME NEW t \in Threads,
         \A u \in Threads \ {t} : SamePending(u),
         \A a \in Addrs : PendingOf(t, a)' = NoAddr,
         \A a \in Addrs : Committed(a)' = IF PendingOf(t, a) # NoAddr
                                          THEN PendingOf(t, a) ELSE Committed(a)
  PROVE  AM!Commit(t)
  BY DEF SamePending, AM!Commit, AM!Nothing

LEMMA StoreStep ==
  ASSUME DInv, DInv', NEW t \in Threads, TL2Step(t), ~Validated(t)
  PROVE  SameStore
<1>1. ASSUME NEW a \in Addrs PROVE Committed(a)' = Committed(a)
  <2>1. committed'[a] = committed[a]
    BY CommittedStep DEF DInv, VInv, KInv
  <2> QED
    BY <2>1, StoreNow, StoreNext DEF StoreFollows
<1> QED
  BY <1>1 DEF SameStore

\* What the others have pending is behind their locks.
LEMMA OthersPending ==
  ASSUME DInv, NEW t \in Threads, TL2Step(t), NEW u \in Threads \ {t}
  PROVE  SamePending(u)
<1>1. KInv /\ MInv /\ pc'[u] = pc[u] /\ wrSet'[u] = wrSet[u]
  BY Alone DEF DInv, VInv
<1>2. Written(u)' = Written(u)
  BY <1>1 DEF Written
<1>3. ASSUME NEW a \in Written(u), Active(u) PROVE memory'[a] = memory[a]
  BY <1>1, <1>3, Holder, OneHolder, MemoryStep DEF Holds
<1> QED
  BY <1>1, <1>2, <1>3 DEF SamePending, PendingOf, Active

LEMMA OnlyPending ==
  ASSUME DInv, NEW t \in Threads, NEW a, LockTab[LockOf[a]].by = t,
         NEW u \in Threads \ {t}
  PROVE  PendingOf(u, a) = NoAddr
<1>1. ~Holds(u, a)
  BY Holder DEF DInv, VInv
<1> QED
  BY <1>1 DEF PendingOf, Holds, Active

\* RecordStore: from here on the word is pending, with the value it has.
LEMMA SimRecord ==
  ASSUME DInv, DInv', NEW t \in Threads, TL2Step(t), StoreRecord(t)
  PROVE  \E a \in Addrs, v \in Vals : AM!Put(t, a, v)
<1>1. LInv /\ KInv /\ Kept(t)
  BY DEF DInv, VInv, KInv
<1> PICK b \in Addrs : b = op[t].addr
  BY <1>1, RecordEffect
<1> PICK n \in Nat : n = Len(wrSet[t]) + 1
  BY <1>1, Numbers
<1>2. /\ UNCHANGED memory /\ pc[t] = "store" /\ pc'[t] = "write"
      /\ Len(wrSet'[t]) = n /\ wrSet'[t][n].addr = b /\ n \in 1 .. n
      /\ \A i \in 1 .. Len(wrSet[t]) : i # n /\ wrSet'[t][i] = wrSet[t][i]
      /\ memory[b] \in Vals /\ LockTab[LockOf[b]].by = t
      /\ Len(wrSet[t]) \in Nat
  BY <1>1, RecordEffect, Numbers, SMTT(30) DEF LInv, Types, Kept
<1>3. Written(t)' = Written(t) \cup {b}
  <2>1. \A i \in 1 .. Len(wrSet'[t]) : i = n \/ i \in 1 .. Len(wrSet[t])
    BY <1>2
  <2>2. \A i \in 1 .. Len(wrSet[t]) : i \in 1 .. Len(wrSet'[t])
    BY <1>2
  <2>3. \A i \in 1 .. Len(wrSet[t]) : wrSet'[t][i].addr = wrSet[t][i].addr
    BY <1>2
  <2>4. n \in 1 .. Len(wrSet'[t]) /\ wrSet'[t][n].addr = b
    BY <1>2
  <2>5. \A x \in Written(t)' : x \in Written(t) \cup {b}
    BY <2>1, <2>3, <2>4, ZenonT(60) DEF Written
  <2>6. \A x \in Written(t) \cup {b} : x \in Written(t)'
    BY <2>2, <2>3, <2>4, ZenonT(60) DEF Written
  <2> QED
    BY <2>5, <2>6, ZenonT(60)
<1>4. SameStore
  BY <1>2, StoreStep DEF Validated
<1>5. \A u \in Threads \ {t} : SamePending(u) /\ PendingOf(u, b) = NoAddr
  BY <1>2, OthersPending, OnlyPending
<1>6. /\ \A a \in Addrs \ {b} : PendingOf(t, a)' = PendingOf(t, a)
      /\ PendingOf(t, b)' = memory[b]
  BY <1>2, <1>3 DEF PendingOf
<1> PICK v \in Vals : v = memory[b]
  BY <1>2
<1>7. AM!Put(t, b, v)
  BY <1>4, <1>5, <1>6, AbstractPut
<1> QED
  BY <1>7

\* The store in place changes what is pending, and not the store.
LEMMA SimStoreValue ==
  ASSUME DInv, DInv', NEW t \in Threads, TL2Step(t), StoreValue(t)
  PROVE  \E a \in Addrs, v \in Vals : AM!Put(t, a, v)
<1>1. LInv /\ KInv /\ Saved(t) /\ Located(t)
  BY DEF DInv, VInv, KInv, LInv, MInv
<1>2. pc[t] = "write"
  BY DEF StoreValue
<1> PICK b \in Addrs : b = op[t].addr
  BY <1>1, <1>2 DEF Located
<1> PICK v \in Vals : v = op[t].valu
  BY <1>1, <1>2 DEF Located
<1>3. /\ memory' = [memory EXCEPT ![b] = v] /\ pc'[t] = "body" /\ UNCHANGED wrSet
      /\ b \in Written(t) /\ memory \in [Addrs -> Vals]
  BY <1>1, <1>2 DEF StoreValue, Goto, Saved, LInv, Types
<1>4. Written(t)' = Written(t) /\ LockTab[LockOf[b]].by = t
  BY <1>1, <1>2, <1>3, Holder DEF Written, Holds, Active
<1>5. SameStore
  BY <1>2, StoreStep DEF Validated
<1>6. \A u \in Threads \ {t} : SamePending(u) /\ PendingOf(u, b) = NoAddr
  BY <1>4, OthersPending, OnlyPending
<1>7. /\ \A a \in Addrs \ {b} : PendingOf(t, a)' = PendingOf(t, a)
      /\ PendingOf(t, b)' = v
  BY <1>2, <1>3, <1>4 DEF PendingOf
<1>8. AM!Put(t, b, v)
  BY <1>5, <1>6, <1>7, AbstractPut
<1> QED
  BY <1>8

\* The last entry of the read set found coherent: all of it is committed.
LEMMA SimValidated ==
  ASSUME DInv, DInv', NEW t \in Threads, TL2Step(t), Validated(t)
  PROVE  AM!Commit(t)
<1>1. /\ pc[t] = "validate" /\ pc'[t] = "drop" /\ memory \in [Addrs -> Vals]
      /\ \A a \in Addrs : committed'[a].valu =
             IF a \in Written(t) THEN memory[a] ELSE committed[a].valu
  BY DEF Validated, Goto, DInv, VInv, KInv, LInv, Types
<1>2. \A a \in Addrs : memory[a] # NoAddr
  BY <1>1, TL2Assumption
<1>3. ASSUME NEW a \in Addrs
      PROVE  /\ PendingOf(t, a)' = NoAddr
             /\ Committed(a)' = IF PendingOf(t, a) # NoAddr
                                THEN PendingOf(t, a) ELSE Committed(a)
  <2>1. PendingOf(t, a) = IF a \in Written(t) THEN memory[a] ELSE NoAddr
    BY <1>1 DEF PendingOf
  <2>2. PendingOf(t, a)' = NoAddr
    BY <1>1 DEF PendingOf
  <2> QED
    BY <1>1, <1>2, <2>1, <2>2, StoreNow, StoreNext DEF StoreFollows
<1> QED
  BY <1>3, OthersPending, AbstractCommit

\* TxAbort forgets what is pending.
LEMMA SimRest ==
  ASSUME DInv, DInv', NEW t \in Threads, TL2Step(t), Rest(t)
  PROVE  AM!Abort(t) \/ UNCHANGED AM!vars
<1>1. SameStore /\ \A u \in Threads \ {t} : SamePending(u)
  <2>1. ~Validated(t)
    BY DEF Validated, Rest, Goto, DInv, VInv, KInv, LInv, Types
  <2> QED
    BY <2>1, StoreStep, OthersPending
<1>2. CASE pc'[t] = "undo"
  <2>1. \A a \in Addrs : PendingOf(t, a)' = NoAddr
    BY <1>2 DEF PendingOf
  <2> QED
    BY <1>1, <2>1, AbstractAbort
<1>3. CASE pc'[t] # "undo"
  <2>1. /\ UNCHANGED memory /\ Written(t)' = Written(t)
        /\ pc[t] \notin {"drop", "undo", "restore"}
        /\ pc'[t] \notin {"drop", "undo", "restore"}
    BY <1>3 DEF Rest, Written
  <2>2. SamePending(t)
    BY <2>1 DEF SamePending, PendingOf
  <2> QED
    BY <1>1, <2>2, AbstractStutter
<1> QED
  BY <1>2, <1>3

\* The other steps, rollback and the giving back of locks among them, do not
\* show.
LEMMA SimSilent ==
  ASSUME DInv, DInv', NEW t \in Threads, TL2Step(t),
         \/ \E a \in Addrs, v \in Vals : StoreLock(t, a, v) \/ StoreOwn(t, a, v)
         \/ GVGenerate(t) \/ GVSwap(t)
         \/ DropLocks(t) \/ WriteBackReverse(t) \/ RestoreLocks(t)
  PROVE  UNCHANGED AM!vars
<1>1. LInv /\ pc \in [Threads -> Places]
  BY DEF DInv, VInv, KInv, LInv, Types
<1>2. CASE \E a \in Addrs, v \in Vals : StoreLock(t, a, v) \/ StoreOwn(t, a, v)
  <2>1. UNCHANGED <<memory, wrSet>> /\ pc[t] = "body" /\ pc'[t] = "store"
    BY <1>1, <1>2, StoreEffect
  <2>2. ~Validated(t) /\ SamePending(t)
    BY <2>1 DEF Validated, SamePending, PendingOf, Written
  <2> QED
    BY <2>2, StoreStep, OthersPending, AbstractStutter
<1>3. CASE GVGenerate(t) \/ GVSwap(t)
  <2>1. /\ UNCHANGED <<memory, wrSet>> /\ pc[t] \in {"body", "clock"}
        /\ pc'[t] \in {"clock", "validate"}
    BY <1>1, <1>3 DEF GVGenerate, GVSwap, Goto, shared
  <2>2. ~Validated(t) /\ SamePending(t)
    BY <2>1 DEF Validated, SamePending, PendingOf, Written
  <2> QED
    BY <2>2, StoreStep, OthersPending, AbstractStutter
<1>4. CASE DropLocks(t) \/ RestoreLocks(t)
  <2>1. /\ pc[t] \in {"drop", "restore"}
        /\ pc'[t] = pc[t] \/ wrSet'[t] = << >>
    BY <1>1, <1>4, ReleaseEffect
  <2>2. wrSet'[t] = << >> => Written(t)' = {}
    BY DEF Written
  <2>3. ~Validated(t) /\ SamePending(t)
    BY <2>1, <2>2 DEF Validated, SamePending, PendingOf
  <2> QED
    BY <2>3, StoreStep, OthersPending, AbstractStutter
<1>5. CASE WriteBackReverse(t)
  <2>1. pc[t] = "undo" /\ pc'[t] \in {"undo", "restore"}
    BY <1>1, <1>5 DEF WriteBackReverse, Goto
  <2>2. ~Validated(t) /\ SamePending(t)
    BY <2>1 DEF Validated, SamePending, PendingOf
  <2> QED
    BY <2>2, StoreStep, OthersPending, AbstractStutter
<1> QED
  BY <1>2, <1>3, <1>4, <1>5

LEMMA StepSim ==
  ASSUME DInv, DInv', NEW t \in Threads, TL2Step(t)
  PROVE  AM!Next \/ UNCHANGED AM!vars
<1>1. CASE StoreRecord(t) \/ StoreValue(t)
  BY <1>1, SimRecord, SimStoreValue DEF AM!Next
<1>2. CASE Validated(t)
  BY <1>2, SimValidated DEF AM!Next
<1>3. CASE Rest(t)
  BY <1>3, SimRest DEF AM!Next
<1>4. CASE \/ \E a \in Addrs, v \in Vals : StoreLock(t, a, v) \/ StoreOwn(t, a, v)
           \/ GVGenerate(t) \/ GVSwap(t)
           \/ DropLocks(t) \/ WriteBackReverse(t) \/ RestoreLocks(t)
  BY <1>4, SimSilent
<1> QED
  BY <1>1, <1>2, <1>3, <1>4, StepSorts DEF DInv, VInv, KInv

LEMMA InitSim == TL2Init => AM!Init
<1> SUFFICES ASSUME TL2Init PROVE AM!Init
  OBVIOUS
<1>1. /\ \A a \in Addrs : Committed(a) = memory[a] /\ memory[a] \in Vals
      /\ \A t \in Threads : wrSet[t] = << >>
  <2>1. \A a \in Addrs : Committed(a) = committed[a].valu
    BY InitData, StoreNow DEF StoreFollows
  <2> QED
    BY <2>1 DEF TL2Init
<1>2. \A t \in Threads, a \in Addrs : PendingOf(t, a) = NoAddr
  BY <1>1 DEF PendingOf, Written
<1> QED
  BY <1>1, <1>2 DEF AM!Init, AM!Nothing

LEMMA UnchangedSim ==
  ASSUME UNCHANGED tl2Vars
  PROVE  UNCHANGED AM!vars
  BY DEF tl2Vars, shared, AM!vars, Committed, SavedBy, PendingOf, Written

\* TL2 implements AtomicMemory: memory changes by whole transactions, though
\* each of its words is stored to, rolled back and given back by itself.
THEOREM TL2WritesAreAtomic == SoleStorer => (TL2Spec => TL2Atomic)
<1> SUFFICES ASSUME SoleStorer PROVE TL2Spec => TL2Atomic
  OBVIOUS
<1>1. DInv /\ DInv' /\ [TL2Next]_tl2Vars => [AM!Next]_(AM!vars)
  BY StepSim, UnchangedSim DEF TL2Next
<1> QED
  BY <1>1, InitSim, InitData, DInvKept, PTL DEF TL2Spec, TL2Atomic, AM!Spec
=============================================================================
