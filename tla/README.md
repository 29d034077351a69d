# stamp-cpp: a verification development

TLA+ modules for the core of stamp-cpp (a C++ port of the STAMP benchmark
*vacation* with its own software transactional memory), the TLC configurations
that check them on small instances, and TLAPS proofs for every value of their
constants. Paths below are relative to `src/src/` of the repository.

To check a run: `tlc -config MCSTM_atomic.cfg MCSTM`; to check proofs: `tlapm
STMProofs.tla`.

## 1. Inventory

| Part | Code | State | Operations |
|---|---|---|---|
| Transactional memory (STM) | `lib/TxDescriptor.hpp`, `lib/stm.hpp`, `lib/tmalloc.hpp` | the words of memory; a table of lock words (write bit, timestamp); one mutex over the table; per thread a read log, an undo log, lists of allocated and freed blocks, a nesting depth | TxBegin, TxLoad, TxStore, TxAlloc, TxFree, TxAbort, TxCommit (validate, then reset(true)); on an exception reset(false) and another attempt |
| Write-set filter | `lib/BloomFilter.hpp` | bits | Add, Contains, Clear |
| Thread pool | `lib/thread.c` | per barrier node a count, a lock, two condition variables; function pointer, shutdown flag | startup, start, shutdown, the barrier |
| Reservation tables | `vacation/manager.c`, `reservation.c`, `customer.c` | three tables of items (used, free, total, price), a table of customers, each with a list of what it reserved | add, resize and delete items; reserve, cancel; add, delete customers; query |
| Clients and main | `vacation/client.c`, `vacation.c` | per thread the local variables of a task; how far main has come | fill the tables (`initializeManager`); make a reservation, delete a customer, update the tables; look at what is left (`checkTables`) |
| Red-black tree, list | `lib/rbtree.hpp`, `lib/list.c` | nodes and pointers | insert, delete, find, iterate |
| Queue, heap, memory pool | `lib/queue.c`, `heap.c`, `memory.c` | arrays with indexes and capacities | push, pop, clear, shuffle; insert, remove; get |
| TL2 excerpt | `lib/tl2-foredit.c` (compiled by no makefile) | a table of versioned locks, a global clock; per thread a read set, an undo log, two versions | TxStart, TxLoad, TxStore, TxCommit, TxAbort |
| The rest | `lib/pair.c`, `random.c`, `mt19937ar.c`, `MurmurHash3.cpp`, `timer.h`, test mains, profiler output | | |

How they interact: `vacation.c` fills the tables, `thread_start` runs
`client_run` in every thread of the pool; a client calls the manager inside
TM_BEGIN/TM_END; manager, reservation, customer, tree and list reach shared
words through TxLoad and TxStore only, and allocate through TxAlloc/TxFree.
Threads meet in the lock table, in the words themselves, and in the barrier. An
abort is a C++ exception from any of these calls to the innermost TxBegin. TL2
is an alternative to the STM with the same interface; there, an abort is a
longjmp.

What is hard:

* memory is read and written outside the mutex that guards the lock words, and
  a rollback runs word by word next to readers (section 3.1);
* a lock covers every word that hashes to it;
* an exception unwinds to the innermost TxBegin, but the descriptor is the
  thread's, not the transaction's;
* the barrier is re-entered at once, and waits on condition variables;
* the manager's operations change several records, and local variables outlive
  an aborted attempt;
* the sequential parts assert what the concurrent part must have left true;
* TL2 has no mutex at all: a reader looks at a lock, a word and the lock again,
  while versions are shared, drawn before validation and given back one by one.

`PROJECT.json` lists each of these, and more, under `hazards`, at its line.
What makes each part correct: for the STM, that a transaction is atomic
(writes: all or nothing; reads: committed values) and that locks are given
back; for the filter, no false negatives; for the pool, that its tree is a
barrier that nobody passes early and nobody stays behind in; for the tables,
that items and customers agree, from the empty tables until `checkTables` takes
them apart; for TL2, that the writes of a transaction are atomic, that what it reads of
words nobody has locked belongs to one version, and that a lock is given back by its
owner.

## 2. Plan

Order of work, the most important first; sections 3 and 4 describe what is
there.

1. `STM`, `AtomicMemory`, `STMAtomic` (refinement), `STMHistory`: done.
2. `STMProofs`: done.
3. `WriteSetFilter` and its proofs: done.
4. `ThreadPool` against `Rendezvous`: done.
5. `Vacation` on top of atomic transactions, `VacationProgram` (main around the
   clients), and their proofs: done.
6. `RBTree` and `LinkedList` against `SortedMap`, `Queue` against `FifoQueue`,
   `Heap` against `PriorityQueue`, `MemoryPool`: done.
7. `TL2` against `AtomicMemory`, and the proofs about its locks: done.
8. The proofs about data: `TL2AtomicProofs`, `STMHistoryProofs`,
   `ContainerProofs` (filter, queue, pool, list, heap), `RBTreeProofs`, the clients'
   choice in `VacationProofs`: done.
9. `ThreadPoolProofs`, the barrier for any power of two of threads: done.

Two modules were considered and dropped. Blocks of several words (`STM::Free`
locks the first word only): an access to a block after free() is undefined
behaviour, about which a model of memory words has nothing to say. A mutex per
translation unit (`meta_mutex` is a `static` of a header): nothing orders the
accesses to the lock table any more, and every property would have to be given
up. Both are among the hazards.

## 3. Modules

### 3.1 STM

`STM.tla` models one process. A lock word (`LockVar`) is a record `[bit, ver]`;
`meta` is the lock table, `LockOf` the hash of an address into it. The logs are
functions from addresses: `readSet[t][a]` is the logged lock word or `NoEntry`,
`writeSet[t][a]` the saved value, `NoVal` for the entry of size 0 that
`STM::Free` makes. The two-stage search (Bloom filter, then a scan) is
membership: `WriteSetFilter` shows that it is.

Granularity follows the code. All that `open_for_read`, `open_for_write`,
`validate` and `reset(true)` do, they do under `meta_mutex`, so each is one
step that needs the mutex free. What the code does outside is a step of its
own: `ReadValue` (`return *addr`) and `WriteValue` (the memcpy of Store).
`reset(false)` copies values back while others may read them, so it takes the
mutex (`ResetAbort`), undoes one entry per step (`Undo`) and ends in `Retry`.
In `reset(true)` nothing written before the mutex is released can be seen,
apart from free(), whose effect on freed words others cannot observe legally.

| Code | Action |
|---|---|
| TxBegin, TxCommit of a nested block | `Begin`, `BeginNested`, `CommitNested` |
| STM::Load | `OpenRead` then `ReadValue`, or `LoadRefused` |
| STM::Store | `OpenWrite` then `WriteValue`, or `StoreRefused` |
| STM::Alloc, STM::Free | `Alloc`, `AllocFails`, `Free`, `FreeRefused` |
| TxCommit | `ValidateOk` or `ValidateFails`; `ResetCommit` |
| STM::Abort, every throw | `Abort`, `Throw` |
| the handler, reset(false) | `ResetAbort`, `Undo`..., `Retry` |

The client is arbitrary: any operation on any word it may use, in any order.
`Usable` is the one assumption about it: it touches static words, blocks some
committed transaction published or it allocated itself, and no block it has
freed in the same transaction.

`AtomicMemory.tla` is what TM_BEGIN promises about writes: a store that changes
by whole transactions. `STMAtomic.tla` gives the mapping: a word in the undo log
of a transaction that is not validated yet still is its saved value; the
linearisation point is the success of `validate()`.

`STMHistory.tla` adds a record of what the client read and stored, one frame per
open TxBegin, to state the read side: at `ValidateOk`, what was read is what is
committed. It holds with exceptions, and the exceptions are the findings:

* `CommittedReadsCurrent` fails (`history_dirty`): the value is loaded after the
  mutex is released and an abort restores the very lock word that was logged,
  so a value that is rolled back can be read and pass validation;
* `GuardedReadsCurrent` excludes just those words (`unguarded`) and those of
  enclosing bodies after a nested abort (`lost`). It holds with a lock per word
  and would not with shared ones: `validate()` excuses a changed lock word when
  any entry of the write log refers to it (`lib/TxDescriptor.hpp:120`), also when
  another transaction committed to the word read before this one took the lock;
* `QuiescentMemoryKept` (nothing half-done is left in memory, apart from the
  words of `lost`) holds with a lock per word;
* `QuiescentMemoryCommitted` (nothing half-done is left in memory) holds with a
  lock per word and no nesting, but fails with shared locks
  (`history_alias_undo`: no undo entry) and with nesting (`history_nested`).

`MCSTMPrograms` puts two programs over `STMHistory` into one run; the variable
`words` says which words its transactions touch: two static ones, flat, or a
heap block, nested two deep by one transaction at a time.

### 3.2 WriteSetFilter

`BloomFilter` and the write set behind it. The hash is a pair of constants
`HashA`, `HashB` (the halves of MurmurHash3, external code); `nthHash` wraps at
`WordSize` as uint64_t does.

### 3.3 ThreadPool

`thread.c`, from `thread_startup` with `thread_barrier_init` to
`thread_shutdown`, with its logarithmic barrier (no SIMULATOR is defined). `site` is
where the barrier was called from, `i`, `base` and `count` are the code's. Each
section between lock and unlock of a node's `countLock` is one step;
`pthread_cond_signal` wakes some waiter of that node if there is one, and a
woken thread runs in a later step. `SpuriousAt` says which waits may end without
a signal, as POSIX allows. `Rendezvous.tla` is the barrier's contract: nobody
leaves for the k-th time before everybody has entered for the k-th time; the
history variables `entered` and `left` count.

### 3.4 Vacation

The manager's operations, named as in the code, on functions from items and
customers, and the clients' tasks around them. The model takes a transaction to
be atomic: one client is inside one at a time, and `TxAbort` may strike after
any call and puts the tables back (`before`). It does not put back local
variables, and neither does the code. `reserve` and `cancel` are complete calls in
the order of the code: count on the item, then ask the customer's list, and when
that refuses count back (`Unreserve`, `Uncancel`). Where the code calls TM_RESTART
because counting back failed, or because a customer's reservation cannot be
cancelled, the call is disabled and `TxAbort` is what is left. A task's local variables are
forgotten when it ends (`Forget`): the next task sets its own. Prices are
natural numbers, as in the code's uses. `BooksBalance` says what
`checkReservation` asserts of one item, and that the items agree with the
customers' lists.

`VacationProgram` is main() around that. `phase` is "populate" while
`initializeManager` fills the empty tables, "run" while the clients run (`Next`
of `Vacation`), "check" during `checkTables`, then "done". The loops over the
ids take them in any order, since the code shuffles them. These parts use the
`_seq` operations, which assert what the transactional ones test: `Accepts` is
the conjunction of the assertions on the way, `Sound` is `checkReservation_seq`,
and a failing assertion ends the program (phase "aborted", which `NoAssertFails`
excludes). The plain MAP_REMOVE answers FALSE also when it removed something
(`RBTree::Delete`, section 3.5): hence checkTables leaves its inner block, with
the assertions in it, alone, although the entry is gone, and an `addReservation_seq` that empties an entry
would fail its assertion. The clients never leave such an entry, which is what
`NoAssertFails` is about. So `checkTables` empties the tables: first the one of
customers (its loop covers the ids the clients draw from), without taking back what
they hold, then, each validated once more, the items. From the first customer it takes out
the books cannot balance any more, hence `BooksBalanceForClients`: until then.

`MCVacation` has two scenes, as the variable `scene` says: in `Choice` a client
chooses between two flights with one seat each, the first of which has two
possible prices; in `Trip` it may want a car and a flight, of which there are up
to two each, at one price. It asks for no item twice.

### 3.5 Containers

`lib/queue.c`, `heap.c`, `list.c`, `memory.c` and `rbtree.hpp` are sequential:
one action per call, the whole call in one step. Inside transactions that is
what the STM promises; the plain versions are for one thread. Each module has an
abstract one that knows nothing of arrays, links or colours, and the mapping
between them; the last call and its answer (`queueCall`, `treeCall`, ...) are
part of both, so an answer that fits another call does not pass.

| Module | State | Contract |
|---|---|---|
| `Queue` | `[pop, push, capacity, elements]` | `FifoQueue` |
| `Heap` | `[elements, size, capacity]` | `PriorityQueue` |
| `LinkedList` | `next` and `data` of the nodes, `size`, which nodes are allocated | `SortedMap` |
| `RBTree` | `root` and the fields of the nodes, which nodes are allocated | `SortedMap` |
| `MemoryPool` | per thread its blocks, `nextCapacity` | `ChunksApart`, `BlocksWithinCapacity` |

The code comes in up to three versions (plain, `P...`, `TM...`), the same
algorithm on other allocators and accessors; a definition stands for all of
them. The tree spells out every case for left and right; the model has the side
as a parameter, `T[d][n]`. The loops are recursive functions of where the loop
stands: `LoopStates` for the heap, the node for `findPrevious`, `LookUp` and `Successor`,
the tree and the node (`LoopTurns`) for the two loops that mend a red-black tree. A
failed malloc leaves everything as it was in the code and is no step, except in
`LinkedList`, where `list_insert` answers FALSE. The list and the tree compare keys by their
difference, which is taken not to overflow: vacation's keys are small ids.

The sequential `RBTree::Delete` (`lib/rbtree.hpp:88`) sets its pointer to null
before it returns it, so it answers false also when it deleted. The model has
`TxDelete`, which does not; `VacationProgram` has what follows from it.

`MCContainers` is one program per container: the variable `under` says which.

### 3.6 TL2

`tl2-foredit.c` with eager locking and the clock GV4. An entry of `LockTab` is
`[by, n]`: a free lock has `by = NoThread` and its version in `n`; a locked one
has its owner and the index of the entry of the owner's write set it points to,
0 for `tmpLockEntry`. There is no mutex, so each step makes one access to what
threads share; `StoreRecord` makes a second one, to a word that its own lock
covers.

| Code | Action |
|---|---|
| TxStart | `TxStart` |
| TxLoad | `TxLoad` (first look at the lock), `LoadValue`, `LoadCheck` (second look); `LoadRefused`, `LoadFails` |
| TrackLoad, when the list of the read set is full | `ReadSetCoherentPessimistic`..., `TrackLoad` |
| TxStore | `StoreLock` (the CAS) or `StoreOwn`, then `StoreRecord`, `StoreValue`; `StoreRefused` |
| TxCommit | `CommitReadOnly`; `GVGenerate`, `GVSwap`, `ReadSetCoherent`..., `Validated`, `DropLocks`... |
| TxAbort | `WriteBackReverse`..., `RestoreLocks`...; `Restart` when the client asks for it |

Three dots stand for one step per entry. `seen` and `committed` are history:
the words a transaction was told of, and what was committed to each word with
which version. `StoresTo` and `Again` restrict the client: which words a thread
may store to, and behind which locks a transaction may store twice, which is
where the excerpt has a fault. A second store behind a lock of one's own makes a
second entry; both `DropLocks` and `RestoreLocks` write the lock once per entry,
and between the two somebody may have taken it (`tl2_again`). With one thread
storing twice only, or none, the properties hold.

TL2 means that all a transaction loads, from its first load to its last, is the memory
at its version `rv`, so that a read-only transaction may commit without another
look. The code keeps this for loads that read the word while its lock was free
(`FreeLoadsSnapshot`), and not in general: when the word was locked by another
thread at the moment of `LoadValue`, that thread may have rolled back by the time
of the second look, and `RestoreLocks` has put back the version of the first. The second
look then accepts a value that was never committed, and the body works on it, on a
mixture, and may commit without having written: look at the lock, another thread's
store, read the word, the other thread's rollback, look again. It is the fault that `history_dirty`
shows of the STM; the condition at `lib/tl2-foredit.c:663` does not say what the comment
above it says, that nobody has written the word or is going to. `TL2Atomic`, which is about writes only, is the refinement of `AtomicMemory`, the same
contract the STM has; `Validated` is the commit point, and a word whose lock is
held still counts as its first saved value before it.

## 4. Runs

| Run | Instance | Shows |
|---|---|---|
| `stm_atomic` | 2 threads, a static word and a heap block, a lock each, 2 transactions, depth 2 | writes are atomic, blocks are owned |
| `stm_locks` | 2 threads, 2 words behind one lock, 3 transactions, fair | lock words match logs, memory stable behind clear bits, timestamps monotone, every lock is released |
| `history_programs` | 2 threads, a lock each, 2 transactions; 2 words flat, or a heap block with depth 2 | reads guarded, memory at rest is committed outside `lost`, with nesting, allocation and reuse |
| `history_dirty`, `history_alias_undo`, `history_nested` | 2 threads, 2 words; their own locks, one lock, depth 2 | three findings |
| `containers` | queue of 3 items from capacities 2 and 3; heap of 6 from capacities 1 and 3; list of 4 nodes, 5 keys; tree of 9 nodes, 9 keys; pool of 2 blocks; filter with 8 keys, 11 bits, 3 hashes, words of 4 bits | each is what it promises to be |
| `pool_four` | 4 threads, 2 sections, spurious wake-ups of the pairwise wait, fair | barrier, sections complete, clean end |
| `pool_spurious` | 2 threads, spurious wake-ups everywhere | finding |
| `vacation` | 2 clients, 2 customers, 2 offers; 2 flights with a seat each (one of them at either price), or a car and a flight with up to two each; from empty tables to the end | books balance until `checkTables` takes the tables apart, deletion possible, no assertion fails, also when a retry starts with stale local variables; best offer at a first attempt |
| `tl2_eager` | 2 threads, 2 words with a lock each, write sets of 2; one thread only writes and may store twice to one word, the other reads twice and writes the other word; read-set lists of 1 entry that grow | writes are atomic, reads under a free lock are a snapshot, a free lock vouches for its word, locks point to their entries |
| `tl2_again` | 2 threads, both may store twice | finding |

Why the bounds are enough. In the STM two threads and two words already make
every conflict between a reader, a writer and a rollback; a transaction is
unbounded in length, and aborted attempts do not count against `MaxTx`, so an
arbitrary number of retries is explored. Values 0 and 1 tell a saved value from
a stored one. Three or four transactions are needed where a timestamp must move
under a reader that started before. The proofs of section 5 remove the bounds
for what they cover. In the barrier, 4 threads make the first tree with an inner
node; 2 sections
and a shutdown enter the barrier five times in a row, which is where counts of
one round could leak into the next. In vacation transactions are serial, so a second
client matters only between two attempts of the first; then it may change what
the first has seen. At most one client is between two attempts
(`NobodyRetries`), since such clients only ever meet the tables. `Batch` is 1
where the code uses 100. One seat on each of two flights is the smallest stock
at which there is a choice and items run out, are held, cannot be deleted and
disappear; that one of them has either price gives ties, differences and prices
that change while the item is gone, and its rival may be asked for before or
after it. Asking for an item twice in one transaction finds the same price, so
the second look changes nothing. Two seats and two types of item let both customers hold the same item
and one customer hold two. Larger stocks, more customers and more clients are
what the proofs of section 5 cover.

In TL2 a clock of 2 lets a second transaction commit at the version of the first
(GV4) and a third one be ahead of a reader; a write set of 2 entries is enough
to undo or release half of it; a read set of 2 entries, with room for 1, grows
once and is validated while it does. The thread that only writes begins nothing
when the clock has reached its bound (`MCSpec` of `MCTL2`): it could not commit
any more.

In the containers, arrays grow twice and indexes wrap around. Nine nodes make
the smallest tree in which a deletion first recolours on a lower level and then
rotates on a higher one. States of the tree that differ only in which node is
which count as one (`MCView`): no action tells nodes apart.

Deadlock is checked in every run; programs end in `Finished` or in idle clients.
Symmetry is used over threads, clients and customers, in safety runs only.

Fairness. `stm_locks` assumes that a thread inside a Load, a Store or a rollback
goes on (weak: it holds what it needs and is scheduled), that a thread whose
next step is under `meta_mutex` gets the mutex in the end (strong: others come
and go, the mutex is free again and again), and that no execution of a client's
body goes on for ever: a thread that performs operations without end also ends
bodies without end, by their return or by an exception. The bodies in the
repository are loops over bounded lists. It does not assume that a transaction
commits: with the backoff as it is (`__retries` starts at 0 in every attempt)
nothing in the code ensures that.
`pool_four` assumes that each runnable thread runs (weak); a thread in a wait is
not runnable, so lost signals would show.

The operators called `Bad...` in the modules are plausible slips of the
definitions that follow them; no action uses them. For each checked property
`PROJECT.json` names one that makes the run fail.

## 5. Proofs

All theorems hold for any values of the constants that satisfy the ASSUMEs.

* `STMProofs`: `TypeCorrect`, `LocksCorrect`, `UnlockedStable`, `TimestampsGrow`,
  whatever words share locks. The inductive invariant is `TypeOK` with the three
  parts of `LocksMatchLogs` and the facts about control that they need: a set
  write bit stands for exactly one entry of exactly one log, a Store in flight is
  behind a lock of its own. Shared locks make it delicate: two words of one
  transaction behind one lock have one entry between them.
  `BlocksCorrect` and `WritesAreAtomic` hold under `LockPerWord`
  (`LockOf` is injective): behind a shared lock a second store has no undo
  entry, `history_alias_undo`. The invariant adds `BlocksOwned` and `LogShape`; the theorem is
  the refinement of `AtomicMemory`, one step lemma per action: which steps
  stutter (in-place stores become private updates), that `ValidateOk` is the
  abstract commit and `ResetAbort` the abstract abort.
* `STMHistoryProofs`: `HistoryTypeCorrect`, however words share locks; under
  `LockPerWord`, `MemoryKept` and `ReadsCurrent`. The invariant `HistoryInv`
  adds to that of `WritesAreAtomic`: `ValuesKept` (a word nobody has logged
  holds what was committed, and a log entry saves that; between the two stands
  only a store of the body that runs), `StoresInPlace` (what a frame of a
  running body wrote is in memory, the innermost one winning) and `ReadsGuarded`
  (a value a frame has seen is the committed one as long as the lock of its word
  is as the read log says). The last needs that a lock which looks as it did has not
  moved, so that no commit went by: `LockSteps`. Words in `lost` and `unguarded`
  are those the findings are about. Without `LockPerWord` the second word behind
  a lock has no entry, and memory at rest may be wrong:
  `history_alias_undo`.
* `ContainerProofs`: `FilterExact`, `NoFalseNegatives`, for every hash function
  and size. `IndexesNeverMeet` and `BufferIsFifo`, for any initial capacity and
  any elements: the invariant `QueueInv` says that the two indexes are apart in the
  array (`Ring`) and that every slot between them holds an element (`RingFilled`),
  which makes the contents a sequence of elements; each operation is then a step of
  `FifoQueue`, the copy of a full array included. `BlocksNeverOverfull` and
  `ChunksNeverOverlap`, for any growth factor and any requests: `PoolInv`, of
  which `ChunksApart` is a part. It is inductive because the chunks of a block
  end where the taken part of the block ends; the seven spare bytes are the
  lemma `AlignedUp`. The loops of the list and of the heap are functions that are
  defined by their next turn; that such a function exists and that a property which
  every turn keeps holds where the loop stops is `LoopExists` and `LoopEnds`, by
  well-founded induction on a measure that gets smaller (for the list the number of
  nodes that are still ahead, for the heap the index or what is left below it).
  `ListStaysWellFormed`: `ListInv` says that the nodes in use are in the order of
  their keys and that each points to the next one (`PointsAtNext`), which is what the
  loop of `findPrevious` needs to find the place; `ListImplementsMap` then reads a map
  off the nodes, so that each call is a step of `SortedMap`. `HeapStaysValid`: the
  invariant of a turn of `siftUp` (`RisesOnce`) is that only the element that rises may be
  greater than its parent, and that its children are below its parent; of `heapify`
  (`FallsOnce`), the same downwards. `ArrayIsPriorityQueue`: every turn is a swap, which
  leaves the number of times each key occurs alone; the root is the greatest
  (`RootGreatest`).
* `RBTreeProofs`: `TreeStaysBalanced`, `TreeLosesNoNode` and `TreeImplementsMap`, for
  any nodes, keys and data. The properties are recursive (`Nodes`, `BlackHeight`), and
  nothing about a recursive definition can be proved by induction over trees here.
  So the invariant `TreeInv` says the same through witnesses: there are a function
  `sub`, the nodes below each node, and a function `bh`, its black height, such that
  every node agrees with its children (`Sound`). What it takes is local, so a
  rotation has to be looked at for the nodes it moves only (`Turned`,
  `TurnKeepsShape`). `NodesAre` and `HeightsAre` lead from the witnesses back to the
  recursive functions, by well-founded induction on the size of `sub`. TLC checks
  what the invariant says in its recursive form, as `TreeBalanced` and
  `TreeKeepsNodes`.
  Within a call the tree is not sound. In the loop of an insertion the node x is red
  and may have a red parent, nothing else is wrong (`Reddened`). In the
  loop of a deletion every way down through x has one black node too few
  (`Short`), x itself being, when it has no child, the leaf that is going to be
  unlinked after the loop. Each turn of the first loop but the last leaves one red node
  fewer, each of the second one black node fewer; the two facts about loops are those
  of `ContainerProofs`. Unlinking is `Cut`. When a node with two children is deleted,
  the entry of its successor moves into it before the successor goes, and in between one
  key is there twice: therefore the order of the nodes (`pos` in `Shape`) is not
  the keys, and `Reordered` brings the two together again.
* `VacationProofs`: `TypeCorrect`, `BooksAlwaysBalance`, `DeletionNeverRestarts`,
  for any number of clients, customers and items and any sizes. The invariant
  `IInv`: the books are good, at most one transaction is open, and the books it
  found when it began were good too (that is what an abort brings back). Each
  operation of the manager has a lemma: it takes good books to good books, also where a
  call takes back what it began (`RecountGood`); the
  counting is in `HolderAdded` and `HolderRemoved`. `FirstChoiceBest`: the loop over
  the queries has, after each of them, the best of those so far (`BestSoFar`),
  and only inside a transaction, where nobody else moves (`LoneStep`). What it leaves
  out are retried attempts (`retried`), which start from stale local variables.
  `ProgramAssertsHold`, `ProgramBooksBalance`, `ProgramDeletes` and
  `ProgramChoosesBest` say the same of the whole program. Their invariant adds
  that what `initializeManager` has not come to is not in the tables
  (`NotYetThere`) and that clients work between StartClients and JoinClients only
  (`Sequential`). Good books are what every assertion asks for. While `checkTables`
  takes the tables apart, `PInv` keeps less (`WhatIsLeft`): the entries that are left are
  consistent, which is what their validation rests on, and as long as a customer is
  left they balance against all lists, those of customers already out included
  (`ItemsBalance`), which is what the deletion of a customer rests on; the books themselves balance until then (`WholeBooks`).
* `TL2Proofs`: `LocksPointToEntries`, for any words, locks and hash function and
  any client, one that stores twice included; `OwnLocksOnly`, under `SoleStorer`:
  behind a lock where a transaction may store twice (`Again`) only one thread
  stores. That something of the kind is needed is what `tl2_again` shows: a
  second store makes a second entry for one lock, the first of the two gives the
  lock back, and if another thread takes it before the second entry is reached, that
  thread loses it. `SoleStorer` says no more than that there is no other thread
  to take it. The first theorem rests on `HeldBy`: while a thread
  releases, the locks it still has are those of the entries it has not come to, so
  none is left behind when its log is emptied. The second adds the converse,
  `Kept`: every entry not yet given back has its lock.
* `TL2AtomicProofs`, all under `SoleStorer`: `VersionsBelowClock`,
  `FreeWordsAreCommitted`, `FreeLoadsAreASnapshot`, `TL2WritesAreAtomic`. The
  invariant `DInv` has three parts on top of the locks. `VInv`, the versions:
  none is ahead of the clock, and a lock will have at least the version its words
  were committed at whenever it is free again (`AtLeast`, a bound on the lock
  and on every version somebody is going to give it; that is what makes it stable
  when an abort puts an old version back). `MInv`, the values: the first entry
  for a word saves its committed value, and a word that nobody is writing has it.
  `RInv`, a load in flight: the value read while the lock was free is the
  committed one, or the lock will never again be free at the version first
  looked at, so the second look fails; and whoever is about to commit to a word that
  another thread was told of has drawn a version above that thread's. This last
  fact is where the clock that several transactions draw the same value from
  (GV4) could go wrong.

* `ThreadPoolProofs`: `TypeCorrect`, `EverybodyHasRun` and `TreeIsBarrier`, for any power of two of threads. `PoolAssumption` says "power of
  two" by divisors (no odd one but 1), since the prover has no exponents; that the sizes
  of the blocks of threads, the divisors of N, then form a chain in which each
  is twice the one before (`Doubled`, `Halved`, `SmallerDivides`) is proved from
  it by well-founded induction (`HasLeast`). All three theorems assume that
  `"allWait"` is not in `SpuriousAt`: the wait for the whole tree returns on a
  signal only. `pool_spurious` shows that the barrier is none otherwise; the
  pairwise wait may return by itself. The invariant `TreeInv` says where a thread
  of `Size` s is (`Place`: it is the first of a block of s threads, and at the node
  its local variables give), that the rest of its block sleeps below it in its
  round (`Won`), and that a node counts exactly those who have come to it and are not
  let go yet (`Counts`), so that the signal on the way down finds one thread, the
  right one. `Rounds` compares two threads: whoever is let go has been
  waited for by all; whoever sleeps at a node sleeps in the round of the thread above
  that has still to come down to it, and in the next round if that thread has been
  there already, a barrier being entered again before it is empty. `PoolInv` ties the rounds to the functions,
  two rounds for each, and the last one to the shutdown.

Only model-checked: liveness (`LocksReleased`, `PoolEnds`), which rests on fairness
and ENABLED and is out of the prover's reach. Every other property of a passing run is
stated by a theorem; where the theorem has a condition that is not an ASSUME
(`LockPerWord`, `SoleStorer`, the wake-ups of `ThreadPoolProofs`), the instance of the
run satisfies it, and a finding shows what goes wrong without it.

## 6. Not modelled

Backoff (a busy loop on private data), statistics and output; option parsing
and the random generator (choices are nondeterministic); hash functions; the
SIMULATOR and OTM variants of `thread.c` and `tm.h`; the skeletons
`PhaseTMStar.hpp` and `tl2-eager.hpp`, whose classes are empty; pairs, timers,
test mains and profiler output. Of the TL2 excerpt: `maxv` (kept up to date, but
GV4 does not look at it), TxAlloc, TxFree and txSterilize (their lists come from
a `tmalloc.h` that is not in the repository), TxStoreLocal (memory of one
thread), the signal handlers and statistics.
`STM_WRITE_P` (`lib/stm.hpp:117`)
expands to a call of TxLoad with two arguments; no code uses it.

Where the code and its comments differ without a run: `RBTree::Delete` returns
false although it deletes, so `addReservation_seq` would fail its own
`assert(status)` if it took the last items away (`vacation/manager.c:239`; no
caller does, which `NoAssertFails` rests on), and
`checkTables` skips its test for unique ids (`vacation/vacation.c:365`, `377`);
`heap.c` and `queue.c` have no user in the repository;
`client_run` sets
`maxPrices`, `maxIds` and `isFound` before TM_BEGIN (`vacation/client.c:187-197`),
so a retried attempt compares with what the aborted one saw, and may settle on an
item that has become cheap or is gone; hence `~retried` in `BestAtFirst`.
`manager_deleteCustomer`
returns FALSE when there is no such customer (`vacation/manager.c:443-445`, and
the tests there expect it), while its comment says that it "returns success"
(line 429).
