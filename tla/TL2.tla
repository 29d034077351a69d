-------------------------------- MODULE TL2 ---------------------------------
(***************************************************************************)
(* The other transactional memory of lib/: TL2 with eager locking, the     *)
(* annotated excerpt tl2-foredit.c.  A store locks the word's entry of     *)
(* LockTab, saves the old value and writes in place; a load is accepted    *)
(* when the entry is free and not newer than rv, the clock at TxStart; a   *)
(* commit draws a write version from the global clock, looks at the read   *)
(* set again and gives the locks back one by one.                          *)
(*                                                                         *)
(* No mutex protects any of this: each step below makes one access to what *)
(* the threads share (StoreRecord a second one, to a word whose lock it    *)
(* has).  Left out: maxv (set, but GV4 ignores it), the lists of TxAlloc   *)
(* and TxFree (they come from a tmalloc.h the repository does not have)    *)
(* and TxStoreLocal (thread-private memory).                               *)
(***************************************************************************)
EXTENDS Naturals, Sequences

CONSTANTS
    Threads,
    Addrs,      \* memory words
    Vals,       \* what a word may hold
    Locks,      \* the entries of LockTab
    LockOf,     \* PSLOCK: the entry a word hashes to
    StoresTo,   \* the words each thread may store to
    Again,      \* the locks behind which a transaction may store twice
    MaxClock,   \* bound: the clock, counted in commits (the code adds 2)
    RdSetSize,  \* TL2_INIT_RDSET_NUM_ENTRY, the entries a read set starts with
    MaxReads,   \* bound: the entries of each read set
    MaxWrites,  \* bound: the entries of a write set
    NoThread, NoVal, NoAddr

ASSUME TL2Assumption ==
    /\ LockOf \in [Addrs -> Locks] /\ StoresTo \in [Threads -> SUBSET Addrs]
    /\ Again \subseteq Locks
    /\ RdSetSize \in Nat /\ MaxClock \in Nat /\ MaxReads \in [Threads -> Nat] /\ MaxWrites \in Nat
    /\ NoThread \notin Threads /\ NoVal \notin Vals
    /\ NoAddr \notin Addrs \cup Vals

VARIABLES
    memory,     \* the words
    LockTab,    \* free: a version; locked: an entry of the owner's write set
    GClock,     \* the global version clock
    pc,         \* where each thread is
    rv, wv,     \* its read and write version
    rdSet,      \* the locks it has read behind, in order
    room,       \* the entries its list for them has
    wrSet,      \* its undo log, in order
    op,         \* the load or store in flight
    at,         \* index of the loop that validates, rolls back or releases
    seen,       \* history: the words it was told of while they were unlocked
    committed   \* history: what was committed to each word, with its version

shared  == <<memory, LockTab, GClock>>
tl2Vars == <<shared, pc, rv, wv, rdSet, room, wrSet, op, at, seen, committed>>

\* An unlocked vwLock holding a version, or one locked by the n-th entry of
\* the write set of a thread (n = 0: by its tmpLockEntry).
Free(version)   == [by |-> NoThread, n |-> version]
LockedBy(t, n)  == [by |-> t, n |-> n]
OwnerOf(l)      == LockTab[l].by

Idle == [addr |-> NoAddr, cv |-> Free(0), valu |-> NoVal, locked |-> FALSE]

TL2Init ==
    /\ memory \in [Addrs -> Vals]
    /\ LockTab = [l \in Locks |-> Free(0)]
    /\ GClock = 0
    /\ pc = [t \in Threads |-> "idle"]
    /\ rv = [t \in Threads |-> 0] /\ wv = [t \in Threads |-> 0]
    /\ rdSet = [t \in Threads |-> << >>] /\ wrSet = [t \in Threads |-> << >>]
    /\ room = [t \in Threads |-> RdSetSize]
    /\ op = [t \in Threads |-> Idle]
    /\ at = [t \in Threads |-> 0]
    /\ seen = [t \in Threads |-> {}]
    /\ committed = [a \in Addrs |-> [valu |-> memory[a], ver |-> 0]]

Goto(t, where) == pc' = [pc EXCEPT ![t] = where]

\* txReset: the logs are empty again; rv and wv are set before they are read.
txReset(t) ==
    /\ Goto(t, "idle")
    /\ rv' = [rv EXCEPT ![t] = 0] /\ wv' = [wv EXCEPT ![t] = 0]
    /\ rdSet' = [rdSet EXCEPT ![t] = << >>]
    /\ wrSet' = [wrSet EXCEPT ![t] = << >>]
    /\ UNCHANGED room
    /\ op' = [op EXCEPT ![t] = Idle]
    /\ at' = [at EXCEPT ![t] = 0]
    /\ seen' = [seen EXCEPT ![t] = {}]

TxStart(t) ==
    /\ pc[t] = "idle"
    /\ rv' = [rv EXCEPT ![t] = GClock]
    /\ Goto(t, "body")
    /\ UNCHANGED <<shared, wv, rdSet, room, wrSet, op, at, seen, committed>>

\* The locks given back, the stores left in place.
BadTxAbort(t) ==
    /\ IF wrSet[t] = << >> THEN txReset(t)
       ELSE /\ Goto(t, "restore")
            /\ at' = [at EXCEPT ![t] = 1]
            /\ op' = [op EXCEPT ![t] = Idle]
            /\ UNCHANGED <<rv, wv, rdSet, room, wrSet, seen>>
    /\ UNCHANGED <<shared, committed>>

\* TxAbort, from wherever it is called: roll back from the last entry, then
\* restore the locks from the first; longjmp to TxStart, which empties the
\* logs before it looks at them.
TxAbort(t) ==
    /\ IF wrSet[t] = << >> THEN txReset(t)
       ELSE /\ Goto(t, "undo")
            /\ at' = [at EXCEPT ![t] = Len(wrSet[t])]
            /\ op' = [op EXCEPT ![t] = Idle]
            /\ UNCHANGED <<rv, wv, rdSet, room, wrSet, seen>>
    /\ UNCHANGED <<shared, committed>>

\* The client restarts the transaction.
Restart(t) == pc[t] = "body" /\ TxAbort(t)

-----------------------------------------------------------------------------
(* TxLoad: the lock, the value, the lock again *)

MayRead(t, cv) == cv.by = t \/ (cv.by = NoThread /\ cv.n <= rv[t])

TxLoad(t, a) ==
    /\ pc[t] = "body" /\ Len(rdSet[t]) < MaxReads[t]
    /\ MayRead(t, LockTab[LockOf[a]])
    /\ op' = [op EXCEPT ![t] = [Idle EXCEPT !.addr = a, !.cv = LockTab[LockOf[a]]]]
    /\ Goto(t, "load")
    /\ UNCHANGED <<shared, rv, wv, rdSet, room, wrSet, at, seen, committed>>

\* Whatever the value, it will not be returned.
LoadRefused(t, a) ==
    /\ pc[t] = "body" /\ Len(rdSet[t]) < MaxReads[t]
    /\ ~MayRead(t, LockTab[LockOf[a]])
    /\ TxAbort(t)

LoadValue(t) ==
    /\ pc[t] = "load"
    /\ op' = [op EXCEPT ![t].valu = memory[op[t].addr],
                        ![t].locked = OwnerOf(LockOf[op[t].addr]) # NoThread]
    /\ Goto(t, "loaded")
    /\ UNCHANGED <<shared, rv, wv, rdSet, room, wrSet, at, seen, committed>>

\* The end of TrackLoad.
Accept(t) ==
    /\ rdSet' = [rdSet EXCEPT ![t] = Append(@, LockOf[op[t].addr])]
    /\ op' = [op EXCEPT ![t] = Idle]
    /\ at' = [at EXCEPT ![t] = 0]
    /\ Goto(t, "body")
    /\ UNCHANGED <<shared, rv, wv, wrSet, committed>>

\* What the transaction wrote itself, and what it read while another one
\* held the lock, is not put down in the history.
Sees(t) == seen' = [seen EXCEPT
    ![t] = IF op[t].locked THEN @ ELSE @ \cup {op[t].addr}]

\* The second look at the lock left out.
BadLoadCheck(t) ==
    /\ pc[t] = "loaded"
    /\ Sees(t)
    /\ Accept(t) /\ UNCHANGED room

LoadCheck(t) ==
    /\ pc[t] = "loaded"
    /\ op[t].cv.by = t \/ LockTab[LockOf[op[t].addr]] = op[t].cv
    /\ Sees(t)
    /\ IF Len(rdSet[t]) < room[t] THEN Accept(t) /\ UNCHANGED room
       ELSE /\ Goto(t, "grow")
            /\ at' = [at EXCEPT ![t] = 1]
            /\ UNCHANGED <<shared, rv, wv, rdSet, room, wrSet, op, committed>>

LoadFails(t) ==
    /\ pc[t] = "loaded"
    /\ op[t].cv.by # t /\ LockTab[LockOf[op[t].addr]] # op[t].cv
    /\ TxAbort(t)

\* The version an entry of the read set has now: the free lock's, or what
\* t's own entry remembers.
NowAt(t, l) == IF OwnerOf(l) = t THEN wrSet[t][LockTab[l].n].rdv
               ELSE LockTab[l].n

\* What ReadSetCoherent asks of one entry.
Coherent(t, l) == OwnerOf(l) \in {t, NoThread} /\ NowAt(t, l) <= rv[t]

\* The read set looked at again, one entry.
CheckEntry(t) ==
    IF Coherent(t, rdSet[t][at[t]])
    THEN /\ at' = [at EXCEPT ![t] = @ + 1]
         /\ UNCHANGED <<shared, pc, rv, wv, rdSet, room, wrSet, op, seen, committed>>
    ELSE TxAbort(t)

\* A list that is full is longer by one entry, for good, if the read set is
\* coherent.
ReadSetCoherentPessimistic(t) ==
    pc[t] = "grow" /\ at[t] <= Len(rdSet[t]) /\ CheckEntry(t)

TrackLoad(t) ==
    /\ pc[t] = "grow" /\ at[t] > Len(rdSet[t])
    /\ room' = [room EXCEPT ![t] = @ + 1]
    /\ Accept(t)
    /\ UNCHANGED seen

-----------------------------------------------------------------------------
(* TxStore: take the lock, save the old value, write *)

BeginStore(t, a, v, cv) ==
    /\ pc[t] = "body" /\ a \in StoresTo[t] /\ Len(wrSet[t]) < MaxWrites
    /\ op' = [op EXCEPT ![t] = [Idle EXCEPT !.addr = a, !.cv = cv, !.valu = v]]
    /\ Goto(t, "store")
    /\ UNCHANGED <<memory, GClock, rv, wv, rdSet, room, wrSet, at, seen, committed>>

\* Whoever holds it.
BadStoreLock(t, a, v) ==
    /\ OwnerOf(LockOf[a]) # t
    /\ LockTab' = [LockTab EXCEPT ![LockOf[a]] = LockedBy(t, 0)]
    /\ BeginStore(t, a, v, Free(LockTab[LockOf[a]].n))

\* The lock is free and the CAS succeeds.
StoreLock(t, a, v) ==
    /\ OwnerOf(LockOf[a]) = NoThread
    /\ LockTab' = [LockTab EXCEPT ![LockOf[a]] = LockedBy(t, 0)]
    /\ BeginStore(t, a, v, LockTab[LockOf[a]])

\* The lock is t's: the version is the one its entry remembers.
StoreOwn(t, a, v) ==
    /\ OwnerOf(LockOf[a]) = t /\ LockOf[a] \in Again
    /\ BeginStore(t, a, v, Free(wrSet[t][LockTab[LockOf[a]].n].rdv))
    /\ UNCHANGED LockTab

\* The lock is another thread's for too long.
StoreRefused(t, a) ==
    /\ pc[t] = "body" /\ a \in StoresTo[t] /\ Len(wrSet[t]) < MaxWrites
    /\ OwnerOf(LockOf[a]) \notin {t, NoThread}
    /\ TxAbort(t)

\* The lock still points to tmpLockEntry.
BadStoreRecord(t) ==
    /\ pc[t] = "store"
    /\ wrSet' = [wrSet EXCEPT ![t] = Append(@,
           [addr |-> op[t].addr, valu |-> memory[op[t].addr],
            rdv |-> op[t].cv.n])]
    /\ Goto(t, "write")
    /\ UNCHANGED <<shared, rv, wv, rdSet, room, op, at, seen, committed>>

\* RecordStore; the lock points to the new entry.
StoreRecord(t) ==
    /\ pc[t] = "store"
    /\ LET a == op[t].addr
       IN /\ wrSet' = [wrSet EXCEPT ![t] = Append(@,
                  [addr |-> a, valu |-> memory[a], rdv |-> op[t].cv.n])]
          /\ LockTab' = [LockTab EXCEPT
                  ![LockOf[a]] = LockedBy(t, Len(wrSet[t]) + 1)]
    /\ Goto(t, "write")
    /\ UNCHANGED <<memory, GClock, rv, wv, rdSet, room, op, at, seen, committed>>

StoreValue(t) ==
    /\ pc[t] = "write"
    /\ memory' = [memory EXCEPT ![op[t].addr] = op[t].valu]
    /\ op' = [op EXCEPT ![t] = Idle]
    /\ Goto(t, "body")
    /\ UNCHANGED <<LockTab, GClock, rv, wv, rdSet, room, wrSet, at, seen, committed>>

-----------------------------------------------------------------------------
(* TxCommit *)

\* A transaction that wrote nothing commits without another look.
CommitReadOnly(t) ==
    /\ pc[t] = "body" /\ wrSet[t] = << >>
    /\ txReset(t)
    /\ UNCHANGED <<shared, committed>>

\* GVGenerateWV_GV4 reads the clock ...
GVGenerate(t) ==
    /\ pc[t] = "body" /\ wrSet[t] # << >>
    /\ GClock < MaxClock
    /\ wv' = [wv EXCEPT ![t] = GClock + 1]
    /\ Goto(t, "clock")
    /\ UNCHANGED <<shared, rv, rdSet, room, wrSet, op, at, seen, committed>>

\* A failed CAS taken for a success.
BadGVSwap(t) ==
    /\ pc[t] = "clock"
    /\ IF GClock = wv[t] - 1
       THEN GClock' = wv[t] /\ UNCHANGED wv
       ELSE wv' = [wv EXCEPT ![t] = GClock + 1] /\ UNCHANGED GClock
    /\ at' = [at EXCEPT ![t] = 1]
    /\ Goto(t, "validate")
    /\ UNCHANGED <<memory, LockTab, rv, rdSet, room, wrSet, op, seen, committed>>

\* ... and tries to advance it once: when somebody else did, the version is
\* the one the clock has reached, which they may be using, too.
GVSwap(t) ==
    /\ pc[t] = "clock"
    /\ IF GClock = wv[t] - 1
       THEN GClock' = wv[t] /\ UNCHANGED wv
       ELSE wv' = [wv EXCEPT ![t] = GClock] /\ UNCHANGED GClock
    /\ at' = [at EXCEPT ![t] = 1]
    /\ Goto(t, "validate")
    /\ UNCHANGED <<memory, LockTab, rv, rdSet, room, wrSet, op, seen, committed>>

ReadSetCoherent(t) ==
    pc[t] = "validate" /\ at[t] <= Len(rdSet[t]) /\ CheckEntry(t)

Written(t) == {wrSet[t][i].addr : i \in 1 .. Len(wrSet[t])}

\* The whole read set is coherent: from here on the transaction happened.
Validated(t) ==
    /\ pc[t] = "validate" /\ at[t] > Len(rdSet[t])
    /\ at' = [at EXCEPT ![t] = 1]
    /\ committed' = [a \in Addrs |->
           IF a \in Written(t) THEN [valu |-> memory[a], ver |-> wv[t]]
           ELSE committed[a]]
    /\ Goto(t, "drop")
    /\ UNCHANGED <<shared, rv, wv, rdSet, room, wrSet, op, seen>>

\* One entry of DropLocks or RestoreLocks, first to last.
Release(t, version) ==
    /\ LockTab' = [LockTab EXCEPT
           ![LockOf[wrSet[t][at[t]].addr]] = Free(version)]
    /\ IF at[t] < Len(wrSet[t])
       THEN /\ at' = [at EXCEPT ![t] = @ + 1]
            /\ UNCHANGED <<pc, rv, wv, rdSet, room, wrSet, op, seen>>
       ELSE txReset(t)
    /\ UNCHANGED <<memory, GClock, committed>>

DropLocks(t) == pc[t] = "drop" /\ Release(t, wv[t])

-----------------------------------------------------------------------------
(* TxAbort *)

\* From the first entry to the last.
BadWriteBackReverse(t) ==
    /\ pc[t] = "undo"
    /\ LET e == wrSet[t][Len(wrSet[t]) + 1 - at[t]]
       IN memory' = [memory EXCEPT ![e.addr] = e.valu]
    /\ IF at[t] > 1
       THEN at' = [at EXCEPT ![t] = @ - 1] /\ UNCHANGED pc
       ELSE Goto(t, "restore") /\ UNCHANGED at
    /\ UNCHANGED <<LockTab, GClock, rv, wv, rdSet, room, wrSet, op, seen, committed>>

\* WriteBackReverse, one entry.
WriteBackReverse(t) ==
    /\ pc[t] = "undo"
    /\ LET e == wrSet[t][at[t]] IN memory' = [memory EXCEPT ![e.addr] = e.valu]
    /\ IF at[t] > 1
       THEN at' = [at EXCEPT ![t] = @ - 1] /\ UNCHANGED pc
       ELSE Goto(t, "restore") /\ UNCHANGED at
    /\ UNCHANGED <<LockTab, GClock, rv, wv, rdSet, room, wrSet, op, seen, committed>>

\* Each entry puts back the version it found.
RestoreLocks(t) == pc[t] = "restore" /\ Release(t, wrSet[t][at[t]].rdv)

-----------------------------------------------------------------------------
TL2Step(t) ==
    \/ TxStart(t) \/ Restart(t)
    \/ (\E a \in Addrs : TxLoad(t, a) \/ LoadRefused(t, a) \/ StoreRefused(t, a))
    \/ LoadValue(t) \/ LoadCheck(t) \/ LoadFails(t)
    \/ ReadSetCoherentPessimistic(t) \/ TrackLoad(t)
    \/ (\E a \in Addrs, v \in Vals : StoreLock(t, a, v) \/ StoreOwn(t, a, v))
    \/ StoreRecord(t) \/ StoreValue(t)
    \/ CommitReadOnly(t) \/ GVGenerate(t) \/ GVSwap(t)
    \/ ReadSetCoherent(t) \/ Validated(t) \/ DropLocks(t)
    \/ WriteBackReverse(t) \/ RestoreLocks(t)

TL2Next == \E t \in Threads : TL2Step(t)

TL2Spec == TL2Init /\ [][TL2Next]_tl2Vars

-----------------------------------------------------------------------------
(* Properties *)

\* Types, and versions the clock has reached: only a write version that is
\* being drawn may be ahead of it.
TL2TypeOK ==
    /\ memory \in [Addrs -> Vals]
    /\ LockTab \in [Locks -> [by : Threads \cup {NoThread}, n : Nat]]
    /\ GClock \in 0 .. MaxClock
    /\ pc \in [Threads -> {"idle", "body", "load", "loaded", "grow", "store", "write",
                           "clock", "validate", "drop", "undo", "restore"}]
    /\ rv \in [Threads -> 0 .. GClock]
    /\ \A t \in Threads :
           wv[t] \in 0 .. (IF pc[t] = "clock" THEN MaxClock ELSE GClock)
    /\ rdSet \in [Threads -> Seq(Locks)]
    /\ \A t \in Threads : Len(rdSet[t]) <= room[t]
    /\ wrSet \in [Threads -> Seq([addr : Addrs, valu : Vals, rdv : 0 .. GClock])]
    /\ seen \in [Threads -> SUBSET Addrs]
    /\ committed \in [Addrs -> [valu : Vals, ver : 0 .. GClock]]

\* t's load passes the second look at the lock.
Accepts(t) == pc[t] = "loaded" /\ pc'[t] \in {"body", "grow"}

\* t has validated its read set.
Commits(t) == pc[t] = "validate" /\ pc'[t] = "drop"

\* What TxLoad returns of a word whose lock was free at the moment it was
\* read is what was committed to it last, at rv or before, and nobody commits
\* to it at rv or before later on, although GV4 lets several transactions
\* commit at one version and a reader start at it while they are at it.  So
\* these loads, from a transaction's first to its last, agree on one memory,
\* the one at version rv.  It is not true of all that TxLoad returns: a word
\* locked by another thread at that moment may hold a store that is rolled
\* back before the second look, which then finds the version of the first.
FreeLoadsSnapshot ==
    [][\A t \in Threads :
           /\ Accepts(t) /\ ~op[t].locked =>
                  LET now == committed[op[t].addr]
                  IN op[t].valu = now.valu /\ now.ver <= rv[t]
           /\ Commits(t) => \A u \in Threads \ {t} :
                  seen[u] \cap Written(t) # {} => wv[t] > rv[u]
      ]_tl2Vars

\* A word whose lock is free holds what was committed to it last, and the
\* lock has the version of that commit.
FreeWordsCommitted ==
    \A a \in Addrs : OwnerOf(LockOf[a]) = NoThread =>
        /\ memory[a] = committed[a].valu
        /\ LockTab[LockOf[a]].n >= committed[a].ver

\* A lock that is held points to an entry of its owner's write set that is
\* about a word behind it, and to tmpLockEntry, whose version nobody ever
\* set, only while TxStore is between the CAS and RecordStore.  So no commit
\* and no validation goes by that version, which a comment of TxStore
\* wonders about.
LockedByEntries ==
    \A l \in Locks, t \in Threads : OwnerOf(l) = t =>
        LET i == LockTab[l].n
        IN IF i = 0 THEN pc[t] = "store" /\ LockOf[op[t].addr] = l
           ELSE i \in 1 .. Len(wrSet[t]) /\ LockOf[wrSet[t][i].addr] = l

\* An entry of the write set never gives back a lock that another thread
\* has taken.
NobodyElsesLock ==
    \A t \in Threads : pc[t] \in {"drop", "restore"} =>
        OwnerOf(LockOf[wrSet[t][at[t]].addr]) \in {t, NoThread}

-----------------------------------------------------------------------------
(* TL2 implements AtomicMemory *)

\* The saved values of a that stand for its committed value; the first entry
\* for a has it.
SavedBy(t, a) ==
    IF pc[t] \in {"drop", "restore"} THEN {}
    ELSE {wrSet[t][i].valu : i \in {j \in 1 .. Len(wrSet[t]) :
              /\ wrSet[t][j].addr = a
              /\ \A k \in 1 .. j - 1 : wrSet[t][k].addr # a}}

Committed(a) ==
    LET saved == UNION {SavedBy(t, a) : t \in Threads}
    IN IF saved = {} THEN memory[a] ELSE CHOOSE v \in saved : TRUE

PendingOf(t, a) ==
    IF pc[t] \notin {"drop", "undo", "restore"} /\ a \in Written(t)
    THEN memory[a] ELSE NoAddr

AM == INSTANCE AtomicMemory
          WITH NoEntry <- NoAddr,
               store   <- [a \in Addrs |-> Committed(a)],
               pending <- [t \in Threads |-> [a \in Addrs |-> PendingOf(t, a)]]

\* Committed memory changes by whole transactions only: neither the stores
\* in place, nor rollbacks, nor locks given back one by one show in it.
TL2Atomic == AM!Spec
=============================================================================
