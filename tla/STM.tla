-------------------------------- MODULE STM --------------------------------
(***************************************************************************)
(* The software transactional memory of lib/TxDescriptor.hpp, lib/stm.hpp  *)
(* and lib/tmalloc.hpp: eager (in-place) writes under versioned write      *)
(* locks, an undo log, a read log validated at commit, allocations and     *)
(* frees tied to the outcome of the transaction.                           *)
(*                                                                         *)
(* Every access to the lock table (LockVar) happens under one process-wide *)
(* mutex, meta_mutex.  The memory words themselves are read and written    *)
(* OUTSIDE it: STM::Load returns *addr and STM::Store copies the value     *)
(* after open_for_read / open_for_write released the mutex, and reset()    *)
(* puts old values back word by word while the other threads may be        *)
(* reading them.  Hence a Load or a Store is two steps here, and an abort  *)
(* is one step per undo entry.                                             *)
(*                                                                         *)
(* The transaction body is the client's: between TxBegin and TxCommit a    *)
(* thread may issue any operation on any word it may legally touch.        *)
(*                                                                         *)
(* The operators named Bad... are slips of the code nearby: no action uses *)
(* them, they stand for what the checks must notice.                       *)
(***************************************************************************)
EXTENDS Naturals

CONSTANTS
    Threads,    \* the thread identifiers tid
    Addrs,      \* memory words, each the target of some TxLoad / TxStore
    Heap,       \* the words malloc may hand out, one-word blocks
    Vals,       \* what a word may hold
    Locks,      \* the entries of VersionedWriteLock's table
    LockOf,     \* AddrToLockVar
    MaxTx,      \* bound: transactions begun, over all the threads
    MaxDepth,   \* bound: nesting of TxBegin
    NoEntry,    \* "not in the log"
    NoVal,      \* the value of a log entry of size 0
    NoAddr,     \* no operation in flight
    NoThread    \* meta_mutex is free

ASSUME LockOfAssumption == LockOf \in [Addrs -> Locks]
ASSUME HeapAssumption == Heap \subseteq Addrs
ASSUME BoundAssumption == MaxTx \in Nat /\ MaxDepth \in Nat \ {0}
ASSUME NullAssumption ==
    /\ NoEntry \notin Vals \cup {NoVal}
    /\ NoVal \notin Vals
    /\ NoAddr \notin Addrs
    /\ NoThread \notin Threads

\* A LockVar: write bit and timestamp, one machine word in the code.
Word == [bit : BOOLEAN, ver : Nat]

\* What absent log entries are must differ from every lock word.
ASSUME NoEntryAssumption == NoEntry \notin Word

VARIABLES
    mem,          \* the words
    meta,         \* the lock table
    mutex,        \* who holds meta_mutex across steps
    live,         \* heap words malloc has handed out and nobody freed
    pc,           \* where each thread is
    target,       \* the word of the Load or Store in flight
    value,        \* the value of the Store in flight
    readSet,      \* old_version of every address in the read log
    writeSet,     \* saved value of every address in the undo log
    allocations,  \* blocks to free if the transaction aborts
    frees,        \* blocks to free if the transaction commits
    depth,        \* nesting depth
    begun         \* transactions begun, for the bound MaxTx

logs   == <<readSet, writeSet, allocations, frees>>
shared == <<mem, meta, mutex, live>>
vars   == <<shared, pc, target, value, logs, depth, begun>>

-----------------------------------------------------------------------------
(* The logs *)

ReadBy(t)    == {a \in Addrs : readSet[t][a] # NoEntry}
WrittenBy(t) == {a \in Addrs : writeSet[t][a] # NoEntry}

\* Some entry of t's write log refers to the same metadata as l.
Owns(t, l) == \E a \in WrittenBy(t) : LockOf[a] = l

\* The client touches words that exist: static data, blocks it allocated
\* itself or blocks some committed transaction published, and nothing that
\* it has itself freed in this transaction.
Usable(t, a) ==
    /\ a \notin frees[t]
    /\ a \in Heap => /\ a \in live
                     /\ \A u \in Threads \ {t} : a \notin allocations[u]

MutexFree == mutex = NoThread

EmptyLog == [a \in Addrs |-> NoEntry]

-----------------------------------------------------------------------------
\* The heap may hold blocks already: the program built its data before it
\* went parallel.
Init ==
    /\ mem \in [Addrs -> Vals]
    /\ meta = [l \in Locks |-> [bit |-> FALSE, ver |-> 0]]
    /\ mutex = NoThread
    /\ live \in SUBSET Heap
    /\ pc = [t \in Threads |-> "idle"]
    /\ target = [t \in Threads |-> NoAddr]
    /\ value = [t \in Threads |-> NoVal]
    /\ readSet = [t \in Threads |-> EmptyLog]
    /\ writeSet = [t \in Threads |-> EmptyLog]
    /\ allocations = [t \in Threads |-> {}]
    /\ frees = [t \in Threads |-> {}]
    /\ depth = [t \in Threads |-> 0]
    /\ begun = 0

Goto(t, where) == pc' = [pc EXCEPT ![t] = where]

-----------------------------------------------------------------------------
(* TxBegin, TxCommit below the outermost level, TxAbort *)

Begin(t) ==
    /\ pc[t] = "idle"
    /\ begun < MaxTx
    /\ begun' = begun + 1
    /\ depth' = [depth EXCEPT ![t] = @ + 1]
    /\ Goto(t, "body")
    /\ UNCHANGED <<shared, target, value, logs>>

BeginNested(t) ==
    /\ pc[t] = "body"
    /\ depth[t] < MaxDepth
    /\ depth' = [depth EXCEPT ![t] = @ + 1]
    /\ UNCHANGED <<shared, pc, target, value, logs, begun>>

\* The test for the outermost level forgotten.
BadCommitNested(t) ==
    /\ pc[t] = "body"
    /\ depth' = [depth EXCEPT ![t] = @ - 1]
    /\ UNCHANGED <<shared, pc, target, value, logs, begun>>

CommitNested(t) ==
    /\ pc[t] = "body"
    /\ depth[t] > 1
    /\ depth' = [depth EXCEPT ![t] = @ - 1]
    /\ UNCHANGED <<shared, pc, target, value, logs, begun>>

\* STM::Abort, and any other throw of inter_tx_exception: to the handler of
\* the innermost TxBegin.
Throw(t) ==
    /\ Goto(t, "catch")
    /\ UNCHANGED <<shared, readSet, writeSet, allocations, depth, begun>>

Abort(t) ==
    /\ pc[t] = "body"
    /\ Throw(t)
    /\ UNCHANGED <<target, value, frees>>

-----------------------------------------------------------------------------
(* STM::Load: open_for_read, then *addr *)

\* The word is in one of the two logs: no check at all.
OpenReadHit(t, a) ==
    /\ a \in ReadBy(t) \cup WrittenBy(t)
    /\ UNCHANGED readSet

OpenReadLog(t, a) ==
    /\ a \notin ReadBy(t) \cup WrittenBy(t)
    /\ MutexFree
    /\ ~meta[LockOf[a]].bit \/ Owns(t, LockOf[a])
    /\ readSet' = [readSet EXCEPT ![t][a] = meta[LockOf[a]]]

OpenReadRefused(t, a) ==
    /\ a \notin ReadBy(t) \cup WrittenBy(t)
    /\ MutexFree
    /\ meta[LockOf[a]].bit /\ ~Owns(t, LockOf[a])

OpenRead(t, a) ==
    /\ pc[t] = "body"
    /\ Usable(t, a)
    /\ OpenReadHit(t, a) \/ OpenReadLog(t, a)
    /\ target' = [target EXCEPT ![t] = a]
    /\ Goto(t, "read")
    /\ UNCHANGED <<shared, value, writeSet, allocations, frees, depth, begun>>

LoadRefused(t, a) ==
    /\ pc[t] = "body"
    /\ Usable(t, a)
    /\ OpenReadRefused(t, a)
    /\ Throw(t)
    /\ UNCHANGED <<target, value, frees>>

\* return *addr, with no lock held; the client gets mem[target[t]].
ReadValue(t) ==
    /\ pc[t] = "read"
    /\ target' = [target EXCEPT ![t] = NoAddr]
    /\ Goto(t, "body")
    /\ UNCHANGED <<shared, value, logs, depth, begun>>

-----------------------------------------------------------------------------
(* open_for_write, shared by STM::Store and STM::Free *)

\* Any set bit taken for one of t's own.
BadOpenWriteHit(t, a) ==
    /\ a \in WrittenBy(t) \/ (MutexFree /\ meta[LockOf[a]].bit)
    /\ UNCHANGED <<meta, writeSet>>

\* True without a new log entry: this address is logged, or the write bit is
\* set on behalf of another address of t's log.
OpenWriteHit(t, a) ==
    /\ \/ a \in WrittenBy(t)
       \/ MutexFree /\ meta[LockOf[a]].bit /\ Owns(t, LockOf[a])
    /\ UNCHANGED <<meta, writeSet>>

\* The version check left to validate().
BadVersionOk(t, a) == TRUE

\* The version must be the one an earlier Load of this very address saw.
VersionOk(t, a) == a \in ReadBy(t) => readSet[t][a] = meta[LockOf[a]]

\* SetWriteBit moves the timestamp.
BadOpenWriteLog(t, a, saved) ==
    /\ a \notin WrittenBy(t)
    /\ MutexFree
    /\ ~meta[LockOf[a]].bit
    /\ VersionOk(t, a)
    /\ meta' = [meta EXCEPT ![LockOf[a]] = [bit |-> TRUE, ver |-> @.ver + 1]]
    /\ writeSet' = [writeSet EXCEPT ![t][a] = saved]

\* SetWriteBit forgotten.
BadOpenWriteUnlocked(t, a, saved) ==
    /\ a \notin WrittenBy(t)
    /\ MutexFree
    /\ ~meta[LockOf[a]].bit
    /\ VersionOk(t, a)
    /\ writeSet' = [writeSet EXCEPT ![t][a] = saved]
    /\ UNCHANGED meta

OpenWriteLog(t, a, saved) ==
    /\ a \notin WrittenBy(t)
    /\ MutexFree
    /\ ~meta[LockOf[a]].bit
    /\ VersionOk(t, a)
    /\ meta' = [meta EXCEPT ![LockOf[a]].bit = TRUE]
    /\ writeSet' = [writeSet EXCEPT ![t][a] = saved]

OpenWriteRefused(t, a) ==
    /\ a \notin WrittenBy(t)
    /\ MutexFree
    /\ IF meta[LockOf[a]].bit THEN ~Owns(t, LockOf[a]) ELSE ~VersionOk(t, a)

-----------------------------------------------------------------------------
(* STM::Store: open_for_write, then memcpy to *addr *)

OpenWrite(t, a, v) ==
    /\ pc[t] = "body"
    /\ Usable(t, a)
    /\ OpenWriteHit(t, a) \/ OpenWriteLog(t, a, mem[a])
    /\ target' = [target EXCEPT ![t] = a]
    /\ value' = [value EXCEPT ![t] = v]
    /\ Goto(t, "write")
    /\ UNCHANGED <<mem, mutex, live, readSet, allocations, frees, depth, begun>>

StoreRefused(t, a) ==
    /\ pc[t] = "body"
    /\ Usable(t, a)
    /\ OpenWriteRefused(t, a)
    /\ Throw(t)
    /\ UNCHANGED <<target, value, frees>>

WriteValue(t) ==
    /\ pc[t] = "write"
    /\ mem' = [mem EXCEPT ![target[t]] = value[t]]
    /\ target' = [target EXCEPT ![t] = NoAddr]
    /\ value' = [value EXCEPT ![t] = NoVal]
    /\ Goto(t, "body")
    /\ UNCHANGED <<meta, mutex, live, logs, depth, begun>>

-----------------------------------------------------------------------------
(* STM::Alloc and STM::Free *)

\* malloc returns some block that is not in use, holding anything; what the
\* client stores into its new block without TxStore is part of v.
Alloc(t, a, v) ==
    /\ pc[t] = "body"
    /\ a \in Heap \ live
    /\ live' = live \cup {a}
    /\ mem' = [mem EXCEPT ![a] = v]
    /\ allocations' = [allocations EXCEPT ![t] = @ \cup {a}]
    /\ UNCHANGED <<meta, mutex, pc, target, value, readSet, writeSet, frees,
                   depth, begun>>

\* malloc returned NULL: AbortStatus::Allocation.
AllocFails(t) ==
    /\ pc[t] = "body"
    /\ Heap # {}
    /\ Throw(t)
    /\ UNCHANGED <<target, value, frees>>

Free(t, a) ==
    /\ pc[t] = "body"
    /\ a \in Heap /\ Usable(t, a)
    /\ OpenWriteHit(t, a) \/ OpenWriteLog(t, a, NoVal)
    /\ frees' = [frees EXCEPT ![t] = @ \cup {a}]
    /\ UNCHANGED <<mem, mutex, live, pc, target, value, readSet, allocations,
                   depth, begun>>

\* The block is appended to frees before open_for_write is tried.
FreeRefused(t, a) ==
    /\ pc[t] = "body"
    /\ a \in Heap /\ Usable(t, a)
    /\ OpenWriteRefused(t, a)
    /\ frees' = [frees EXCEPT ![t] = @ \cup {a}]
    /\ Throw(t)
    /\ UNCHANGED <<target, value>>

-----------------------------------------------------------------------------
(* The end of the outermost transaction: validate(), reset(true) *)

\* A changed word is excused when it refers to the same metadata as an
\* entry of the write log.
ReadsValid(t) ==
    \A a \in ReadBy(t) :
        meta[LockOf[a]] = readSet[t][a] \/ Owns(t, LockOf[a])

ValidateOk(t) ==
    /\ pc[t] = "body"
    /\ depth[t] = 1
    /\ MutexFree
    /\ ReadsValid(t)
    /\ Goto(t, "commit")
    /\ UNCHANGED <<shared, target, value, logs, depth, begun>>

ValidateFails(t) ==
    /\ pc[t] = "body"
    /\ depth[t] = 1
    /\ MutexFree
    /\ ~ReadsValid(t)
    /\ Throw(t)
    /\ UNCHANGED <<target, value, frees>>

\* free(): the block leaves the heap and its contents are malloc's.
Release(blocks) ==
    /\ live' = live \ blocks
    /\ \E junk \in [blocks -> Vals] :
           mem' = [a \in Addrs |-> IF a \in blocks THEN junk[a] ELSE mem[a]]

\* allocations.clear() forgotten.
BadClearLogs(t) ==
    /\ readSet' = [readSet EXCEPT ![t] = EmptyLog]
    /\ writeSet' = [writeSet EXCEPT ![t] = EmptyLog]
    /\ frees' = [frees EXCEPT ![t] = {}]
    /\ UNCHANGED allocations

ClearLogs(t) ==
    /\ readSet' = [readSet EXCEPT ![t] = EmptyLog]
    /\ writeSet' = [writeSet EXCEPT ![t] = EmptyLog]
    /\ allocations' = [allocations EXCEPT ![t] = {}]
    /\ frees' = [frees EXCEPT ![t] = {}]

\* reset(true): nothing of what its loop does under meta_mutex can be seen
\* before the mutex is released, so it is one step.
ResetCommit(t) ==
    /\ pc[t] = "commit"
    /\ MutexFree
    /\ meta' = [l \in Locks |-> IF Owns(t, l)
                                THEN [bit |-> FALSE, ver |-> meta[l].ver + 1]
                                ELSE meta[l]]
    /\ Release(frees[t])
    /\ ClearLogs(t)
    /\ depth' = [depth EXCEPT ![t] = @ - 1]
    /\ Goto(t, "idle")
    /\ UNCHANGED <<mutex, target, value, begun>>

-----------------------------------------------------------------------------
(* reset(false), called by the handler of the innermost TxBegin *)

ResetAbort(t) ==
    /\ pc[t] = "catch"
    /\ MutexFree
    /\ mutex' = t
    /\ Goto(t, "undo")
    /\ UNCHANGED <<mem, meta, live, target, value, logs, depth, begun>>

\* ClearWriteBit forgotten.
BadUndoLocked(t, a) ==
    /\ pc[t] = "undo"
    /\ a \in WrittenBy(t)
    /\ mem' = IF writeSet[t][a] = NoVal
              THEN mem ELSE [mem EXCEPT ![a] = writeSet[t][a]]
    /\ writeSet' = [writeSet EXCEPT ![t][a] = NoEntry]
    /\ UNCHANGED <<meta, mutex, live, pc, target, value, readSet, allocations,
                   frees, depth, begun>>

\* The memcpy of the saved value forgotten.
BadUndo(t, a) ==
    /\ pc[t] = "undo"
    /\ a \in WrittenBy(t)
    /\ meta' = [meta EXCEPT ![LockOf[a]].bit = FALSE]
    /\ writeSet' = [writeSet EXCEPT ![t][a] = NoEntry]
    /\ UNCHANGED <<mem, mutex, live, pc, target, value, readSet, allocations,
                   frees, depth, begun>>

\* One iteration of the loop over writeSet.  A processed entry is dropped
\* here: nothing looks at it again before writeSet.clear().
Undo(t, a) ==
    /\ pc[t] = "undo"
    /\ a \in WrittenBy(t)
    /\ mem' = IF writeSet[t][a] = NoVal
              THEN mem ELSE [mem EXCEPT ![a] = writeSet[t][a]]
    /\ meta' = [meta EXCEPT ![LockOf[a]].bit = FALSE]
    /\ writeSet' = [writeSet EXCEPT ![t][a] = NoEntry]
    /\ UNCHANGED <<mutex, live, pc, target, value, readSet, allocations, frees,
                   depth, begun>>

\* The wrong list released.
BadRetry(t) ==
    /\ pc[t] = "undo"
    /\ WrittenBy(t) = {}
    /\ Release(frees[t])
    /\ ClearLogs(t)
    /\ mutex' = NoThread
    /\ Goto(t, "body")
    /\ UNCHANGED <<meta, target, value, depth, begun>>

\* The body of the INNERMOST transaction starts again: depth is not touched.
Retry(t) ==
    /\ pc[t] = "undo"
    /\ WrittenBy(t) = {}
    /\ Release(allocations[t])
    /\ ClearLogs(t)
    /\ mutex' = NoThread
    /\ Goto(t, "body")
    /\ UNCHANGED <<meta, target, value, depth, begun>>

-----------------------------------------------------------------------------
Step(t) ==
    \/ Begin(t) \/ BeginNested(t) \/ CommitNested(t) \/ Abort(t)
    \/ \E a \in Addrs : OpenRead(t, a) \/ LoadRefused(t, a)
    \/ ReadValue(t)
    \/ \E a \in Addrs, v \in Vals : OpenWrite(t, a, v)
    \/ \E a \in Addrs : StoreRefused(t, a)
    \/ WriteValue(t)
    \/ \E a \in Addrs, v \in Vals : Alloc(t, a, v)
    \/ AllocFails(t)
    \/ \E a \in Addrs : Free(t, a) \/ FreeRefused(t, a)
    \/ ValidateOk(t) \/ ValidateFails(t) \/ ResetCommit(t)
    \/ ResetAbort(t) \/ (\E a \in Addrs : Undo(t, a)) \/ Retry(t)

\* Every thread has run its transactions: the program ends here.
Finished ==
    /\ begun = MaxTx
    /\ \A t \in Threads : pc[t] = "idle"
    /\ UNCHANGED vars

Next == Finished \/ \E t \in Threads : Step(t)

Spec == Init /\ [][Next]_vars

-----------------------------------------------------------------------------
(* Properties *)

\* Every variable stays in its domain; in particular a Load or Store in
\* flight always has a word to work on.
TypeOK ==
    /\ mem \in [Addrs -> Vals]
    /\ meta \in [Locks -> Word]
    /\ mutex \in Threads \cup {NoThread}
    /\ live \subseteq Heap
    /\ pc \in [Threads -> {"idle", "body", "read", "write", "commit", "catch",
                           "undo"}]
    /\ target \in [Threads -> Addrs \cup {NoAddr}]
    /\ value \in [Threads -> Vals \cup {NoVal}]
    /\ readSet \in [Threads -> [Addrs -> Word \cup {NoEntry}]]
    /\ writeSet \in [Threads -> [Addrs -> Vals \cup {NoVal, NoEntry}]]
    /\ allocations \in [Threads -> SUBSET Heap]
    /\ frees \in [Threads -> SUBSET Heap]
    /\ depth \in [Threads -> Nat]
    /\ begun \in 0..MaxTx
    /\ \A t \in Threads : pc[t] \in {"read", "write"} => target[t] \in Addrs
    /\ \A t \in Threads : pc[t] = "write" => value[t] \in Vals
    /\ \A t \in Threads : depth[t] = 0 <=> pc[t] = "idle"
    /\ \A t \in Threads : pc[t] = "commit" => depth[t] = 1

\* A write bit is set exactly while some undo log holds an address behind it.
BitsMatchLogs ==
    \A l \in Locks : meta[l].bit <=> \E t \in Threads : Owns(t, l)

\* No two log entries, of one thread or of two, share a lock.
LogsDisjoint ==
    \A t, u \in Threads : \A a \in WrittenBy(t), b \in WrittenBy(u) :
        LockOf[a] = LockOf[b] => t = u /\ a = b

\* A Store in flight (open_for_write has returned, the value is not copied
\* yet) is behind a lock of its own transaction.
StoresOwned ==
    \A t \in Threads : pc[t] = "write" => Owns(t, LockOf[target[t]])

\* Write bits and undo logs tell the same story at every instant, between
\* any two steps of a rollback too: a set bit stands for exactly one entry
\* of exactly one log.  It is what lets reset() clear and count each word
\* without looking at who owns it, and what keeps two threads from storing
\* behind one lock.
LocksMatchLogs == BitsMatchLogs /\ LogsDisjoint /\ StoresOwned

\* Memory changes only behind a write lock: a word of static data whose
\* lock's write bit is clear keeps its value in every step, whoever takes it
\* (STM::Store, the rollback, a release).
UnlockedWordsStable ==
    [][\A a \in Addrs \ Heap : ~meta[LockOf[a]].bit => mem'[a] = mem[a]]_vars

\* A lock word's timestamp never goes back, and only the step that releases
\* a write lock for good moves it: a reader that logged the old word will
\* see the difference, unless the transaction aborted.
TimestampsMonotone ==
    [][\A l \in Locks :
           meta[l].ver # meta'[l].ver =>
               /\ meta'[l].ver = meta[l].ver + 1
               /\ meta[l].bit /\ ~meta'[l].bit]_vars

-----------------------------------------------------------------------------
(* Liveness *)

\* An operation of the client's body, of those that go through.
Operates(t) ==
    \/ BeginNested(t)
    \/ \E a \in Addrs : \/ OpenRead(t, a) \/ Free(t, a)
                        \/ \E v \in Vals : OpenWrite(t, a, v) \/ Alloc(t, a, v)

\* The body returns or is abandoned.
BodyEnds(t) == pc[t] = "body" /\ pc'[t] \in {"commit", "catch"}

\* A scheduled thread takes its steps; a thread that has nothing left but a
\* step under meta_mutex gets the mutex in the end (strong, because other
\* threads come and go through it); and no execution of the client's body
\* goes on for ever.  Nothing is assumed of the outcome of validation.
Fairness ==
    \A t \in Threads :
        /\ WF_vars(\/ ReadValue(t) \/ WriteValue(t) \/ Retry(t)
                   \/ \E a \in Addrs : Undo(t, a))
        /\ SF_vars(\/ ResetCommit(t) \/ ResetAbort(t) \/ CommitNested(t)
                   \/ ValidateOk(t) \/ ValidateFails(t))
        /\ <>[][~Operates(t)]_vars \/ []<><<BodyEnds(t)>>_vars

FairSpec == Spec /\ Fairness

\* A transaction never waits for a lock, it aborts: so a write lock, once
\* taken, is released whatever the other threads do.
LocksReleased == \A l \in Locks : meta[l].bit ~> ~meta[l].bit
=============================================================================
