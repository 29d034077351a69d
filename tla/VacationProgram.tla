-------------------------- MODULE VacationProgram ---------------------------
(***************************************************************************)
(* vacation's main(): initializeManager fills the tables, the clients run  *)
(* in the pool's threads, checkTables looks at what they left, and the     *)
(* program ends.  Only the middle part is concurrent; the other two use    *)
(* the _seq operations, which assert what the transactional ones check.    *)
(*                                                                         *)
(* Neither part depends on the order of the ids (initializeManager         *)
(* shuffles them), so each takes them in any order.  The plain MAP_REMOVE  *)
(* takes the entry out but returns FALSE (rbtree.hpp), so the assertions   *)
(* that checkTables puts behind it are never evaluated, and that of        *)
(* addReservation_seq would fail.                                          *)
(***************************************************************************)
EXTENDS Vacation

VARIABLES
    phase,          \* where main() is
    itemsLeft,      \* what the loop over the items and the one over the
    customersLeft   \* customers have not come to

main == <<phase, itemsLeft, customersLeft>>

\* Empty tables, and initializeManager about to fill in these items.
ProgramStart(its) ==
    /\ table = [it \in Items |-> NoReservation]
    /\ customers = {}
    /\ NothingDone
    /\ phase = "populate"
    /\ itemsLeft = its
    /\ customersLeft = Customers

ProgramInit == ProgramStart(Items)

\* assert(): the program ends at once.
Fail == phase' = "aborted" /\ UNCHANGED <<tables, itemsLeft, customersLeft>>

\* checkReservation_seq
Sound(r) ==
    /\ r.numUsed >= 0 /\ r.numFree >= 0 /\ r.numTotal >= 0
    /\ r.numUsed + r.numFree = r.numTotal
    /\ r.price >= 0

\* addReservation_seq returns TRUE, and none of the assertions on its way
\* fails; an entry that has become empty would have to be removed.
Accepts(it, num, price) ==
    IF ~Exists(it) THEN num >= 1 /\ price >= 0
    ELSE /\ table[it].numFree + num >= 0
         /\ table[it].numTotal + num # 0
         /\ Sound(Resized(table[it], num, price))

-----------------------------------------------------------------------------
(* initializeManager *)

PopulateItem(it, num, price) ==
    /\ phase = "populate" /\ it \in itemsLeft
    /\ IF Accepts(it, num, price)
       THEN /\ addReservation(it, num, price)
            /\ itemsLeft' = itemsLeft \ {it}
            /\ UNCHANGED <<phase, customersLeft>>
       ELSE Fail
    /\ UNCHANGED <<before, pc, locals>>

\* The customers' table comes last.
PopulateCustomer(cu) ==
    /\ phase = "populate" /\ itemsLeft = {} /\ cu \in customersLeft
    /\ IF cu \notin customers
       THEN /\ manager_addCustomer(cu)
            /\ customersLeft' = customersLeft \ {cu}
            /\ UNCHANGED <<phase, itemsLeft>>
       ELSE Fail
    /\ UNCHANGED <<before, pc, locals>>

-----------------------------------------------------------------------------
(* main *)

\* initializeClients and thread_start: client_run in every thread.
StartClients ==
    /\ phase = "populate" /\ itemsLeft = {} /\ customersLeft = {}
    /\ phase' = "run"
    /\ UNCHANGED <<vars, itemsLeft, customersLeft>>

Run == phase = "run" /\ Next /\ UNCHANGED main

\* thread_start returns when every client has run its operations, however
\* many they were.
JoinClients ==
    /\ phase = "run" /\ \A c \in Clients : pc[c] = "idle"
    /\ phase' = "check"
    /\ itemsLeft' = Items /\ customersLeft' = Customers
    /\ UNCHANGED vars

-----------------------------------------------------------------------------
(* checkTables takes every customer and every item out of its map.  The    *)
(* customer stays allocated, out of reach, with what it holds.             *)

CheckCustomer(cu) ==
    /\ phase = "check" /\ cu \in customersLeft
    /\ customers' = customers \ {cu}
    /\ customersLeft' = customersLeft \ {cu}
    /\ UNCHANGED <<table, holds, before, pc, locals, phase, itemsLeft>>

\* An item found is validated first, by adding nothing to it; the price of
\* nothing that it is given goes out with it.
CheckItem(it) ==
    /\ phase = "check" /\ customersLeft = {} /\ it \in itemsLeft
    /\ IF Exists(it) /\ ~Accepts(it, 0, 0) THEN Fail
       ELSE /\ table' = [table EXCEPT ![it] = NoReservation]
            /\ itemsLeft' = itemsLeft \ {it}
            /\ UNCHANGED <<customers, holds, phase, customersLeft>>
    /\ UNCHANGED <<before, pc, locals>>

\* freeClients, manager_free, thread_shutdown
Shutdown ==
    /\ phase = "check" /\ customersLeft = {} /\ itemsLeft = {}
    /\ phase' = "done"
    /\ UNCHANGED <<vars, itemsLeft, customersLeft>>

Ended == phase = "done" /\ UNCHANGED <<vars, main>>

ProgramNext ==
    \/ \E it \in Items, k \in 1 .. MaxTotal \div Batch, price \in Offers :
           PopulateItem(it, k * Batch, price)
    \/ \E cu \in Customers : PopulateCustomer(cu)
    \/ StartClients \/ Run \/ JoinClients
    \/ \E cu \in Customers : CheckCustomer(cu)
    \/ \E it \in Items : CheckItem(it)
    \/ Shutdown \/ Ended

ProgramSpec == ProgramInit /\ [][ProgramNext]_<<vars, main>>

-----------------------------------------------------------------------------
(* Properties *)

\* No assertion of initializeManager, of checkTables or of the _seq
\* operations they call fails, whatever the clients did and whichever of
\* their transactions were aborted.  In particular no client leaves an entry
\* of nothing behind: the plain MAP_REMOVE would report that it could not
\* remove it.
NoAssertFails == phase # "aborted"

\* checkTables has come to a first customer or item.
Dismantling ==
    /\ phase \in {"check", "done"}
    /\ customersLeft # Customers \/ itemsLeft # Items

\* The books balance from the empty tables until checkTables takes them
\* apart, whichever calls of the manager had to undo what they had begun.
BooksBalanceForClients == ~Dismantling => BooksBalance
=============================================================================
