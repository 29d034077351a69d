----------------------------- MODULE ThreadPool -----------------------------
(***************************************************************************)
(* The thread pool of lib/thread.c and its logarithmic barrier.            *)
(*                                                                         *)
(* A node of the barrier tree is touched under its countLock only, and the *)
(* lock is never held while a thread does anything else than wait, so each *)
(* critical section is one step; pthread_cond_wait ends the step, and the  *)
(* signalled thread, which takes the lock again before it goes on, is a    *)
(* step of its own.  The threads 1..N-1 run threadWait for ever; thread 0  *)
(* is the program, which calls thread_start MaxStarts times and then       *)
(* thread_shutdown.                                                        *)
(***************************************************************************)
EXTENDS Naturals

CONSTANTS
    N,           \* numThread
    MaxStarts,   \* bound: calls of thread_start
    SpuriousAt   \* the waits that may return although nobody signalled

\* The assertions of thread_barrier_alloc: numThread is a power of two, that
\* is, it has no odd divisor but 1.
ASSUME PoolAssumption ==
    /\ N \in Nat \ {0}
    /\ \A d \in 2 .. N : N % d = 0 => d % 2 = 0
    /\ MaxStarts \in Nat
    /\ SpuriousAt \subseteq {"pairWait", "allWait"}

Threads == 0 .. N - 1
Nodes   == 0 .. N - 1

VARIABLES
    pc,          \* where each thread is
    site,        \* which call of THREAD_BARRIER it is in
    i, base,     \* the local variables of thread_barrier
    count,       \* per node
    doShutdown,  \* global_doShutdown
    func,        \* global_funcPtr: the number of the thread_start call
    ran,         \* the functions each thread has run
    entered,     \* history: calls of THREAD_BARRIER, and returns from it
    left,
    freed        \* THREAD_BARRIER_FREE

barrier == <<i, base, count>>
pool    == <<doShutdown, func, ran, freed>>
vars    == <<pc, site, barrier, pool, entered, left>>

Goto(t, where) == pc' = [pc EXCEPT ![t] = where]

index(t) == base[t] + t \div i[t]

-----------------------------------------------------------------------------
(* thread_barrier *)

\* The call, from the given place; a pool of one has nobody to wait
\* for and returns at once.
Enter(t, where) ==
    /\ entered' = [entered EXCEPT ![t] = @ + 1]
    /\ site' = [site EXCEPT ![t] = where]
    /\ i' = [i EXCEPT ![t] = 2]
    /\ base' = [base EXCEPT ![t] = 0]
    /\ Goto(t, IF N < 2 THEN "down" ELSE "up")
    /\ UNCHANGED <<count, left>>

\* The do loop's step to the next level of the tree.
Ascend(t) ==
    /\ base' = [base EXCEPT ![t] = @ + N \div i[t]]
    /\ i' = [i EXCEPT ![t] = @ * 2]
    /\ Goto(t, IF i[t] * 2 <= N THEN "up" ELSE "down")

\* One of those waiting on a condition variable of node n gets the signal,
\* if there are any.
Signal(n, wait, woken, others) ==
    LET waiting == {u \in Threads : pc[u] = wait /\ index(u) = n}
    IN IF waiting = {} THEN pc' = others
       ELSE \E u \in waiting : pc' = [others EXCEPT ![u] = woken]

\* The left child of a node counts itself and waits for its sibling.
ArriveFirst(t) ==
    /\ pc[t] = "up"
    /\ t % i[t] = 0
    /\ count' = [count EXCEPT ![index(t)] = @ + 1]
    /\ IF count'[index(t)] < 2
       THEN Goto(t, "pairWait") /\ UNCHANGED <<i, base>>
       ELSE Ascend(t)
    /\ UNCHANGED <<site, pool, entered, left>>

\* The wait without the loop around it.
BadWakePair(t) ==
    /\ pc[t] = "pairWoken"
    /\ Ascend(t)
    /\ UNCHANGED <<site, count, pool, entered, left>>

\* ... and looks again when woken.
WakePair(t) ==
    /\ pc[t] = "pairWoken"
    /\ IF count[index(t)] < 2
       THEN Goto(t, "pairWait") /\ UNCHANGED <<i, base>>
       ELSE Ascend(t)
    /\ UNCHANGED <<site, count, pool, entered, left>>

\* The right child waits without waking its sibling.
BadArriveSecond(t) ==
    /\ pc[t] = "up"
    /\ t % i[t] # 0
    /\ count' = [count EXCEPT ![index(t)] = @ + 1]
    /\ Goto(t, "allWait")
    /\ UNCHANGED <<site, i, base, pool, entered, left>>

\* The right child counts itself, wakes its sibling and waits for the
\* whole tree.
ArriveSecond(t) ==
    /\ pc[t] = "up"
    /\ t % i[t] # 0
    /\ count' = [count EXCEPT ![index(t)] = @ + 1]
    /\ LET waits == [pc EXCEPT ![t] = "allWait"]
       IN IF count'[index(t)] = 2
          THEN Signal(index(t), "pairWait", "pairWoken", waits)
          ELSE pc' = waits
    /\ UNCHANGED <<site, i, base, pool, entered, left>>

\* pthread_cond_wait returned 0: the loop around it tests nothing else.
WakeAll(t) ==
    /\ pc[t] = "allWoken"
    /\ Goto(t, "down")
    /\ UNCHANGED <<site, barrier, pool, entered, left>>

\* POSIX lets pthread_cond_wait return without a signal.
Spurious(t) ==
    /\ pc[t] \in SpuriousAt
    /\ Goto(t, IF pc[t] = "pairWait" THEN "pairWoken" ELSE "allWoken")
    /\ UNCHANGED <<site, barrier, pool, entered, left>>

\* The count left as it is.
BadDescend(t) ==
    /\ pc[t] = "down" /\ i[t] \div 2 > 1
    /\ LET j == i[t] \div 2
           b == base[t] - N \div j
       IN /\ i' = [i EXCEPT ![t] = j]
          /\ base' = [base EXCEPT ![t] = b]
          /\ Signal(b + t \div j, "allWait", "allWoken", pc)
    /\ UNCHANGED <<site, count, pool, entered, left>>

\* The way down: reset the count of each node won and let its loser go.
Descend(t) ==
    /\ pc[t] = "down" /\ i[t] \div 2 > 1
    /\ LET j == i[t] \div 2
           b == base[t] - N \div j
           n == b + t \div j
       IN /\ i' = [i EXCEPT ![t] = j]
          /\ base' = [base EXCEPT ![t] = b]
          /\ count' = [count EXCEPT ![n] = 0]
          /\ Signal(n, "allWait", "allWoken", pc)
    /\ UNCHANGED <<site, pool, entered, left>>

\* thread_barrier returns.
Leave(t, where) ==
    /\ pc[t] = "down" /\ i[t] \div 2 <= 1
    /\ left' = [left EXCEPT ![t] = @ + 1]
    /\ Goto(t, where)
    /\ UNCHANGED <<site, barrier, entered>>

-----------------------------------------------------------------------------
(* threadWait, thread_start, thread_shutdown *)

\* Nobody has arrived anywhere.
thread_barrier_init == count = [n \in Nodes |-> 0]

\* thread_startup has created the pool; every thread but 0 starts there.
Init ==
    /\ pc = [t \in Threads |-> IF t = 0 THEN "main" ELSE "wait"]
    /\ site = [t \in Threads |-> "start"]
    /\ i = [t \in Threads |-> 2]
    /\ base = [t \in Threads |-> 0]
    /\ thread_barrier_init
    /\ doShutdown = FALSE
    /\ func = 0
    /\ ran = [t \in Threads |-> {}]
    /\ entered = [t \in Threads |-> 0]
    /\ left = [t \in Threads |-> 0]
    /\ freed = FALSE

\* thread_start stores funcPtr, then runs threadWait itself.
thread_start ==
    /\ pc[0] = "main"
    /\ func < MaxStarts
    /\ func' = func + 1
    /\ Enter(0, "start")
    /\ UNCHANGED <<doShutdown, ran, freed>>

\* A secondary thread at the head of the loop of threadWait.
WaitStart(t) ==
    /\ pc[t] = "wait"
    /\ Enter(t, "start")
    /\ UNCHANGED pool

\* Past the first barrier: break on shutdown, else run the function.
Started(t) ==
    /\ site[t] = "start"
    /\ Leave(t, IF doShutdown THEN "exited" ELSE "run")
    /\ UNCHANGED pool

\* global_funcPtr(global_argPtr), then the second barrier.
Run(t) ==
    /\ pc[t] = "run"
    /\ ran' = [ran EXCEPT ![t] = @ \cup {func}]
    /\ Enter(t, "end")
    /\ UNCHANGED <<doShutdown, func, freed>>

\* Past the second barrier: the primary thread returns to its caller.
Ended(t) ==
    /\ site[t] = "end"
    /\ Leave(t, IF t = 0 THEN "main" ELSE "wait")
    /\ UNCHANGED pool

thread_shutdown ==
    /\ pc[0] = "main"
    /\ func = MaxStarts /\ ~doShutdown
    /\ doShutdown' = TRUE
    /\ Enter(0, "stop")
    /\ UNCHANGED <<func, ran, freed>>

Stopped ==
    /\ site[0] = "stop"
    /\ Leave(0, "join")
    /\ UNCHANGED pool

\* THREAD_JOIN of everybody, then the barrier is freed.
Join ==
    /\ pc[0] = "join"
    /\ \A t \in Threads \ {0} : pc[t] = "exited"
    /\ freed' = TRUE
    /\ Goto(0, "exited")
    /\ UNCHANGED <<site, barrier, doShutdown, func, ran, entered, left>>

Step(t) ==
    \/ ArriveFirst(t) \/ WakePair(t) \/ ArriveSecond(t) \/ WakeAll(t)
    \/ Descend(t) \/ WaitStart(t) \/ Started(t) \/ Run(t) \/ Ended(t)

Primary == thread_start \/ thread_shutdown \/ Stopped \/ Join

Finished == freed /\ UNCHANGED vars

Next ==
    \/ Primary
    \/ \E t \in Threads : Step(t) \/ Spurious(t)
    \/ Finished

Spec == Init /\ [][Next]_vars

\* Every runnable thread runs.
FairSpec == Spec /\ WF_vars(Primary) /\ \A t \in Threads : WF_vars(Step(t))

-----------------------------------------------------------------------------
(* Properties *)

\* The nodes a thread works on are entries of the array, and a node never
\* counts more than the two threads that meet there.
TypeOK ==
    /\ pc \in [Threads -> {"main", "wait", "up", "pairWait", "pairWoken",
                           "allWait", "allWoken", "down", "run", "join",
                           "exited"}]
    /\ site \in [Threads -> {"start", "end", "stop"}]
    /\ \A t \in Threads : pc[t] \in {"up", "pairWait", "allWait"} =>
                              index(t) \in Nodes
    /\ count \in [Nodes -> 0 .. 2]
    /\ func \in 0 .. MaxStarts
    /\ ran \in [Threads -> SUBSET (1 .. MaxStarts)]

\* When thread_start has returned, every thread has run every function
\* handed to the pool, and while a thread runs one nobody has replaced it.
EverybodyRan ==
    /\ pc[0] = "main" => \A t \in Threads : ran[t] = 1 .. func
    /\ \A t \in Threads : pc[t] = "run" => ran[t] = 1 .. func - 1

R == INSTANCE Rendezvous

\* The tree of nodes is a barrier, for every call of it in a row.
IsBarrier == R!Spec

\* The pool comes to an end: no signal is ever lost, no thread is left
\* behind in a barrier.
PoolEnds == <>freed
=============================================================================
