---------------------------- MODULE AtomicMemory ----------------------------
(***************************************************************************)
(* What TM_BEGIN ... TM_END promises about writes (lib/tm.h calls them an  *)
(* "atomic block / transaction"): the store changes only when some thread  *)
(* commits, and then by all of its pending updates at once.  A pending     *)
(* update is private: no other thread has one on the same word, and an     *)
(* abort forgets it.  Allocating and freeing a block are updates too: a    *)
(* word that does not exist holds NoVal.                                   *)
(***************************************************************************)
CONSTANTS Threads, Addrs, Vals, NoVal, NoEntry

VARIABLES
    store,    \* the committed contents of every word
    pending   \* per thread, the updates of its transaction

vars == <<store, pending>>

Nothing == [a \in Addrs |-> NoEntry]

Init ==
    /\ store \in [Addrs -> Vals \cup {NoVal}]
    /\ pending = [t \in Threads |-> Nothing]

\* t's transaction updates a word nobody else is updating.
Put(t, a, v) ==
    /\ \A u \in Threads \ {t} : pending[u][a] = NoEntry
    /\ pending' = [pending EXCEPT ![t][a] = v]
    /\ UNCHANGED store

Commit(t) ==
    /\ store' = [a \in Addrs |-> IF pending[t][a] # NoEntry
                                 THEN pending[t][a] ELSE store[a]]
    /\ pending' = [pending EXCEPT ![t] = Nothing]

Abort(t) ==
    /\ pending' = [pending EXCEPT ![t] = Nothing]
    /\ UNCHANGED store

Next == \E t \in Threads :
            \/ \E a \in Addrs, v \in Vals \cup {NoVal} : Put(t, a, v)
            \/ Commit(t)
            \/ Abort(t)

Spec == Init /\ [][Next]_vars
=============================================================================
