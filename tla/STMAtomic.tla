----------------------------- MODULE STMAtomic ------------------------------
(***************************************************************************)
(* STM implements AtomicMemory.  A word in the undo log of a transaction   *)
(* that has not been validated yet still "is" its saved value; the update  *)
(* becomes part of the store when validate() succeeds, before reset(true)  *)
(* gives the locks back.                                                   *)
(***************************************************************************)
EXTENDS STM

\* t has passed validate(): its updates are the store's.
Validated(t) == pc[t] = "commit"

\* The word exists for everybody.
Allocated(a) ==
    a \in Heap =>
        /\ a \in live
        /\ \A t \in Threads : a \in allocations[t] => Validated(t)
        /\ \A t \in Threads : a \in frees[t] => ~Validated(t)

\* The undo log entry that stands for a's committed value, if any.
Saved(a) == {writeSet[t][a] : t \in {u \in Threads : ~Validated(u)}} \cap Vals

StoreOf(a) ==
    IF ~Allocated(a) THEN NoVal
    ELSE IF Saved(a) # {} THEN CHOOSE v \in Saved(a) : TRUE
    ELSE mem[a]

\* The updates of a body in progress: what the words it locked or allocated
\* hold now, and the blocks it freed.
InBody(t) == pc[t] \in {"body", "read", "write"}

PendingOf(t, a) ==
    IF ~InBody(t) THEN NoEntry
    ELSE IF a \in frees[t] THEN NoVal
    ELSE IF a \in WrittenBy(t) \cup allocations[t] THEN mem[a]
    ELSE NoEntry

\* Every block has at most one transaction working on its existence: an
\* undo log never refers to a block that is gone or that another transaction
\* is still creating, so a rollback restores the words of live blocks only
\* (one-word blocks: STM::Free locks just the first word of a longer one).
BlocksOwned ==
    \A t \in Threads :
        /\ \A a \in allocations[t] :
               a \in live /\ \A u \in Threads \ {t} : a \notin allocations[u]
        /\ \A a \in WrittenBy(t) \cap Heap :
               a \in live /\ \A u \in Threads \ {t} : a \notin allocations[u]
        /\ InBody(t) \/ Validated(t) => frees[t] \subseteq WrittenBy(t)

\* What an undo log holds beyond saved values, and where a Store may land.
LogShape ==
    \A t \in Threads :
        /\ pc[t] = "idle" =>
               WrittenBy(t) = {} /\ allocations[t] = {} /\ frees[t] = {}
        /\ \A a \in Addrs : writeSet[t][a] = NoVal => a \in frees[t]
        /\ pc[t] = "write" => target[t] \notin frees[t]

AM == INSTANCE AtomicMemory
          WITH store   <- [a \in Addrs |-> StoreOf(a)],
               pending <- [t \in Threads |-> [a \in Addrs |-> PendingOf(t, a)]]

\* Committed memory is written by committing transactions only, each all at
\* once: the rollback of reset(false) and the in-place writes of STM::Store
\* never show in it.
WritesAtomic == AM!Spec
=============================================================================
