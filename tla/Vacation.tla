------------------------------ MODULE Vacation ------------------------------
(***************************************************************************)
(* The travel reservation system of vacation/: the tables of manager.c     *)
(* with the operations of reservation.c and customer.c, and the clients of *)
(* client.c that use them inside transactions.                             *)
(*                                                                         *)
(* A transaction is atomic here (one client at a time is inside one, and   *)
(* an abort puts the tables back): that is what TM_BEGIN promises and what *)
(* the modules STM... examine.  What an abort does NOT put back are the    *)
(* client's own local variables.  The maps are functions from keys, a      *)
(* customer's list of reservation_infos a function from the items it holds *)
(* to the prices agreed.                                                   *)
(***************************************************************************)
EXTENDS Integers, Sequences, FiniteSets, FiniteSetsExt

CONSTANTS
    Clients,
    Items,          \* (type, id) pairs: the keys of the three item tables
    TypeOf,         \* the table an item is in
    Customers,      \* customer ids
    Prices,         \* what an item may cost
    Offers,         \* the prices the program and its clients draw at random
    Batch,          \* how many an update adds or deletes, 100 in the code
    NumQuery,       \* numQueryPerTransaction
    MaxTotal,       \* bound: how many there are of an item
    NoReservation, NoInfo, NoItem, NoCustomer, NoBooks

\* In the order in which client_run reserves.
ReservationTypes == <<"car", "flight", "room">>

Types == {"car", "flight", "room"}

ASSUME VacationAssumption ==
    /\ TypeOf \in [Items -> Types]
    /\ Prices \subseteq Nat /\ Offers \subseteq Prices
    /\ Batch \in Nat \ {0} /\ NumQuery \in Nat \ {0} /\ MaxTotal \in Nat
    /\ NoInfo \notin Prices /\ NoItem \notin Items
    /\ IsFiniteSet(Customers)

Reservation == [numUsed : Nat, numFree : Nat, numTotal : Nat, price : Prices]

ASSUME NoReservationAssumption == NoReservation \notin Reservation

\* What the tables and lists may hold, consistent or not.
Books ==
    [Items -> Reservation \cup {NoReservation}]
        \X (SUBSET Customers)
        \X [Customers -> [Items -> Prices \cup {NoInfo}]]

ASSUME NoBooksAssumption == NoBooks \notin Books

VARIABLES
    table,      \* the car, flight and room tables
    customers,  \* the keys of the customer table
    holds,      \* each customer's reservationInfoList, while it is allocated
    before,     \* the tables as the running transaction found them
    pc,         \* what each client is doing
    n,          \* its loop index
    queries,    \* types[] and ids[]
    customer,   \* customerId
    maxIds, maxPrices, isFound,
    retried     \* history: this transaction has been aborted before

tables == <<table, customers, holds>>
locals == <<n, queries, customer, maxIds, maxPrices, isFound, retried>>
vars   == <<tables, before, pc, locals>>

Exists(it) == table[it] # NoReservation

NothingHeld == [it \in Items |-> NoInfo]

-----------------------------------------------------------------------------
(* reservation.c and manager.c, on the tables *)

\* reservation_alloc
NewReservation(num, price) ==
    [numUsed |-> 0, numFree |-> num, numTotal |-> num, price |-> price]

\* reservation_updatePrice: a negative price keeps the old one.
Priced(r, price) == [r EXCEPT !.price = IF price < 0 THEN @ ELSE price]

\* reservation_addToTotal, then the price.
Resized(r, num, price) ==
    Priced([r EXCEPT !.numFree = @ + num, !.numTotal = @ + num], price)

\* reservation_make, reservation_cancel
Made(r)      == [r EXCEPT !.numUsed = @ + 1, !.numFree = @ - 1]
Cancelled(r) == [r EXCEPT !.numUsed = @ - 1, !.numFree = @ + 1]

\* The empty entry kept.
BadAddReservation(it, num, price) ==
    /\ IF ~Exists(it)
       THEN IF num < 1 \/ price < 0 THEN UNCHANGED table
            ELSE table' = [table EXCEPT ![it] = NewReservation(num, price)]
       ELSE IF table[it].numFree + num < 0 THEN UNCHANGED table
            ELSE table' = [table EXCEPT ![it] = Resized(@, num, price)]
    /\ UNCHANGED <<customers, holds>>

\* addReservation: add a new entry, resize an old one, delete an empty one.
addReservation(it, num, price) ==
    /\ IF ~Exists(it)
       THEN IF num < 1 \/ price < 0 THEN UNCHANGED table
            ELSE table' = [table EXCEPT ![it] = NewReservation(num, price)]
       ELSE IF table[it].numFree + num < 0 THEN UNCHANGED table
            ELSE table' = [table EXCEPT ![it] =
                     IF @.numTotal + num = 0 THEN NoReservation
                     ELSE Resized(@, num, price)]
    /\ UNCHANGED <<customers, holds>>

\* The seats in use not looked at.
BadDeleteFlight(it) ==
    /\ Exists(it)
    /\ table' = [table EXCEPT ![it] = NoReservation]
    /\ UNCHANGED <<customers, holds>>

manager_deleteFlight(it) ==
    IF ~Exists(it) THEN UNCHANGED tables
    ELSE IF table[it].numUsed > 0 THEN UNCHANGED tables
    ELSE addReservation(it, -table[it].numTotal, -1)

\* manager_deleteCar, manager_deleteRoom and manager_deleteFlight
Delete(it) ==
    IF TypeOf[it] = "flight" THEN manager_deleteFlight(it)
    ELSE addReservation(it, -Batch, -1)

\* manager_addCar, manager_addRoom and manager_addFlight
Add(it, price) == addReservation(it, Batch, price)

\* The reservation_info on the customer's list, and taken off it.
customer_addReservationInfo(cu, it, price) ==
    holds' = [holds EXCEPT ![cu][it] = price]
customer_removeReservationInfo(cu, it) ==
    holds' = [holds EXCEPT ![cu][it] = NoInfo]

\* Nobody asks whether one is free.
BadAvailable(r) == r.numTotal >= 1

\* What RESERVATION_MAKE and RESERVATION_CANCEL ask before they count.
Available(r) == r.numFree >= 1
InUse(r)     == r.numUsed >= 1

\* The reservation made for a customer who holds the item already stays.
BadUnreserve(it, made) ==
    table' = [table EXCEPT ![it] = made] /\ UNCHANGED holds

\* The error path of reserve: the reservation just made is cancelled.  If
\* that failed the transaction would be restarted.
Unreserve(it, made) ==
    /\ InUse(made)
    /\ table' = [table EXCEPT ![it] = Cancelled(made)]
    /\ UNCHANGED holds

\* reserve: count first, then ask the customer's list.
reserve(cu, it) ==
    IF cu \in customers /\ Exists(it) /\ Available(table[it])
    THEN /\ LET made == Made(table[it])
            IN IF holds[cu][it] = NoInfo
               THEN /\ table' = [table EXCEPT ![it] = made]
                    /\ customer_addReservationInfo(cu, it, made.price)
               ELSE Unreserve(it, made)
         /\ UNCHANGED customers
    ELSE UNCHANGED tables

\* The error path of cancel, likewise.
Uncancel(it, cancelled) ==
    /\ Available(cancelled)
    /\ table' = [table EXCEPT ![it] = Made(cancelled)]
    /\ UNCHANGED holds

cancel(cu, it) ==
    IF cu \in customers /\ Exists(it) /\ InUse(table[it])
    THEN /\ LET cancelled == Cancelled(table[it])
            IN IF holds[cu][it] # NoInfo
               THEN /\ table' = [table EXCEPT ![it] = cancelled]
                    /\ customer_removeReservationInfo(cu, it)
               ELSE Uncancel(it, cancelled)
         /\ UNCHANGED customers
    ELSE UNCHANGED tables

manager_addCustomer(cu) ==
    /\ customers' = customers \cup {cu}
    /\ UNCHANGED <<table, holds>>

\* customer_getBill: the prices agreed on, together.
customer_getBill(cu) ==
    MapThenSumSet(LAMBDA it : holds[cu][it],
                  {it \in Items : holds[cu][it] # NoInfo})

manager_queryCustomerBill(cu) ==
    IF cu \in customers THEN customer_getBill(cu) ELSE -1

\* manager_deleteCustomer restarts the transaction when it cannot cancel one
\* of the customer's reservations.
CanDelete(cu) ==
    \A it \in Items : holds[cu][it] # NoInfo =>
        Exists(it) /\ InUse(table[it])

manager_deleteCustomer(cu) ==
    IF cu \notin customers THEN UNCHANGED tables
    ELSE /\ CanDelete(cu)
         /\ table' = [it \in Items |-> IF holds[cu][it] # NoInfo
                                       THEN Cancelled(table[it]) ELSE table[it]]
         /\ holds' = [holds EXCEPT ![cu] = NothingHeld]
         /\ customers' = customers \ {cu}

-----------------------------------------------------------------------------
(* Transactions *)

\* What initializeManager leaves: every id of every table exists.
TablesFilled ==
    /\ table \in [Items -> {NewReservation(k * Batch, p) :
                                k \in 1 .. MaxTotal \div Batch, p \in Offers}]
    /\ customers = Customers

\* Nobody has reserved anything or begun a transaction.
NothingDone ==
    /\ holds = [cu \in Customers |-> NothingHeld]
    /\ before = NoBooks
    /\ pc = [c \in Clients |-> "idle"]
    /\ n = [c \in Clients |-> 1]
    /\ queries = [c \in Clients |-> << >>]
    /\ customer = [c \in Clients |-> NoCustomer]
    /\ maxIds = [c \in Clients |-> [t \in Types |-> NoItem]]
    /\ maxPrices = [c \in Clients |-> [t \in Types |-> -1]]
    /\ isFound = [c \in Clients |-> FALSE]
    /\ retried = [c \in Clients |-> FALSE]

Init == TablesFilled /\ NothingDone

Goto(c, where) == pc' = [pc EXCEPT ![c] = where]

\* Nobody is inside a transaction; the transaction that begins remembers
\* the tables.
TxBegin(c, where) ==
    /\ before = NoBooks
    /\ before' = tables
    /\ n' = [n EXCEPT ![c] = 1]
    /\ Goto(c, where)
    /\ UNCHANGED tables

\* The local variables die with the task: the next one sets its own.
Forget(c) ==
    /\ n' = [n EXCEPT ![c] = 1]
    /\ queries' = [queries EXCEPT ![c] = << >>]
    /\ customer' = [customer EXCEPT ![c] = NoCustomer]
    /\ maxIds' = [maxIds EXCEPT ![c] = [t \in Types |-> NoItem]]
    /\ maxPrices' = [maxPrices EXCEPT ![c] = [t \in Types |-> -1]]
    /\ isFound' = [isFound EXCEPT ![c] = FALSE]
    /\ retried' = [retried EXCEPT ![c] = FALSE]

TxEnd(c) ==
    /\ before' = NoBooks
    /\ Goto(c, "idle")
    /\ Forget(c)

InTx(c) == pc[c] \in {"query", "reserve", "delete", "update"}

\* At most one client at a time is between two attempts (a bound of the
\* model: others only ever meet the tables, not its local variables).
NobodyRetries == \A c \in Clients : pc[c] # "retry"

\* The transaction is rolled back.  Only MAKE_RESERVATION has local
\* variables that the next attempt does not set again.
TxAbort(c) ==
    /\ InTx(c)
    /\ table' = before[1] /\ customers' = before[2] /\ holds' = before[3]
    /\ before' = NoBooks
    /\ IF pc[c] \in {"query", "reserve"}
       THEN NobodyRetries /\ Goto(c, "retry") /\ UNCHANGED locals
       ELSE Goto(c, "idle") /\ Forget(c)

-----------------------------------------------------------------------------
(* client_run: ACTION_MAKE_RESERVATION *)

Lists == UNION {[1 .. k -> Items] : k \in 1 .. NumQuery}

\* maxPrices, maxIds and isFound are set before TM_BEGIN ...
BeginReservation(c, cu, qs) ==
    /\ pc[c] = "idle"
    /\ queries' = [queries EXCEPT ![c] = qs]
    /\ customer' = [customer EXCEPT ![c] = cu]
    /\ maxIds' = [maxIds EXCEPT ![c] = [t \in Types |-> NoItem]]
    /\ maxPrices' = [maxPrices EXCEPT ![c] = [t \in Types |-> -1]]
    /\ isFound' = [isFound EXCEPT ![c] = FALSE]
    /\ retried' = [retried EXCEPT ![c] = FALSE]
    /\ TxBegin(c, "query")

\* ... so the next attempt starts with what the last one left there.
RetryReservation(c) ==
    /\ pc[c] = "retry"
    /\ retried' = [retried EXCEPT ![c] = TRUE]
    /\ TxBegin(c, "query")
    /\ UNCHANGED <<queries, customer, maxIds, maxPrices, isFound>>

\* manager_queryX and manager_queryXPrice: -1 when there is no such item.
PriceOf(it) == IF Exists(it) THEN table[it].price ELSE -1

\* The last price wins.
BadQuery(c) ==
    /\ pc[c] = "query" /\ n[c] <= Len(queries[c])
    /\ LET it == queries[c][n[c]]
           t  == TypeOf[it]
       IN /\ maxPrices' = [maxPrices EXCEPT ![c][t] = PriceOf(it)]
          /\ maxIds' = [maxIds EXCEPT ![c][t] = it]
          /\ isFound' = [isFound EXCEPT ![c] = TRUE]
    /\ n' = [n EXCEPT ![c] = @ + 1]
    /\ UNCHANGED <<tables, before, pc, queries, customer, retried>>

Query(c) ==
    /\ pc[c] = "query" /\ n[c] <= Len(queries[c])
    /\ LET it == queries[c][n[c]]
           t  == TypeOf[it]
       IN IF PriceOf(it) > maxPrices[c][t]
          THEN /\ maxPrices' = [maxPrices EXCEPT ![c][t] = PriceOf(it)]
               /\ maxIds' = [maxIds EXCEPT ![c][t] = it]
               /\ isFound' = [isFound EXCEPT ![c] = TRUE]
          ELSE UNCHANGED <<maxPrices, maxIds, isFound>>
    /\ n' = [n EXCEPT ![c] = @ + 1]
    /\ UNCHANGED <<tables, before, pc, queries, customer, retried>>

AddCustomer(c) ==
    /\ pc[c] = "query" /\ n[c] > Len(queries[c])
    /\ IF isFound[c] THEN manager_addCustomer(customer[c])
       ELSE UNCHANGED tables
    /\ n' = [n EXCEPT ![c] = 1]
    /\ Goto(c, "reserve")
    /\ UNCHANGED <<before, queries, customer, maxIds, maxPrices, isFound,
                   retried>>

\* The three calls of manager_reserveX, one after the other.
Reserve(c) ==
    /\ pc[c] = "reserve" /\ n[c] <= Len(ReservationTypes)
    /\ LET it == maxIds[c][ReservationTypes[n[c]]]
       IN IF it # NoItem THEN reserve(customer[c], it) ELSE UNCHANGED tables
    /\ n' = [n EXCEPT ![c] = @ + 1]
    /\ UNCHANGED <<before, pc, queries, customer, maxIds, maxPrices, isFound,
                   retried>>

EndReservation(c) ==
    /\ pc[c] = "reserve" /\ n[c] > Len(ReservationTypes)
    /\ TxEnd(c)
    /\ UNCHANGED tables

-----------------------------------------------------------------------------
(* client_run: ACTION_DELETE_CUSTOMER, ACTION_UPDATE_TABLES *)

BeginDelete(c, cu) ==
    /\ pc[c] = "idle"
    /\ customer' = [customer EXCEPT ![c] = cu]
    /\ TxBegin(c, "delete")
    /\ UNCHANGED <<queries, maxIds, maxPrices, isFound, retried>>

DeleteCustomer(c) ==
    /\ pc[c] = "delete"
    /\ IF manager_queryCustomerBill(customer[c]) >= 0
       THEN manager_deleteCustomer(customer[c]) ELSE UNCHANGED tables
    /\ TxEnd(c)

BeginUpdate(c) ==
    /\ pc[c] = "idle"
    /\ TxBegin(c, "update")
    /\ UNCHANGED <<queries, customer, maxIds, maxPrices, isFound, retried>>

\* What ops[], types[], ids[] and prices[] hold at index n is chosen here:
\* another attempt would draw on the same values and find nothing changed.
AddItem(c, it, price) ==
    /\ pc[c] = "update" /\ n[c] <= NumQuery
    /\ Exists(it) => table[it].numTotal + Batch <= MaxTotal
    /\ Add(it, price)
    /\ n' = [n EXCEPT ![c] = @ + 1]
    /\ UNCHANGED <<before, pc, queries, customer, maxIds, maxPrices, isFound,
                   retried>>

DeleteItem(c, it) ==
    /\ pc[c] = "update" /\ n[c] <= NumQuery
    /\ Delete(it)
    /\ n' = [n EXCEPT ![c] = @ + 1]
    /\ UNCHANGED <<before, pc, queries, customer, maxIds, maxPrices, isFound,
                   retried>>

EndUpdate(c) ==
    /\ pc[c] = "update" /\ n[c] > 1
    /\ TxEnd(c)
    /\ UNCHANGED tables

\* manager_cancelX in a transaction of its own: no client of client.c does
\* it, the test program of manager.c does.
CancelItem(c, cu, it) ==
    /\ pc[c] = "idle" /\ before = NoBooks
    /\ cancel(cu, it)
    /\ UNCHANGED <<before, pc, locals>>

-----------------------------------------------------------------------------
Step(c) ==
    \/ \E cu \in Customers, qs \in Lists : BeginReservation(c, cu, qs)
    \/ RetryReservation(c) \/ Query(c) \/ AddCustomer(c) \/ Reserve(c)
    \/ EndReservation(c)
    \/ \E cu \in Customers : BeginDelete(c, cu)
    \/ DeleteCustomer(c)
    \/ BeginUpdate(c)
    \/ \E it \in Items, price \in Offers : AddItem(c, it, price)
    \/ \E it \in Items : DeleteItem(c, it)
    \/ EndUpdate(c)
    \/ \E cu \in Customers, it \in Items : CancelItem(c, cu, it)
    \/ TxAbort(c)

Next == \E c \in Clients : Step(c)

Spec == Init /\ [][Next]_vars

-----------------------------------------------------------------------------
(* Properties *)

TypeOK ==
    /\ tables \in Books
    /\ pc \in [Clients -> {"idle", "query", "reserve", "delete", "update",
                           "retry"}]
    /\ n \in [Clients -> Nat \ {0}]
    /\ queries \in [Clients -> Seq(Items)]
    /\ customer \in [Clients -> Customers \cup {NoCustomer}]
    /\ maxIds \in [Clients -> [Types -> Items \cup {NoItem}]]
    /\ maxPrices \in [Clients -> [Types -> Prices \cup {-1}]]
    /\ isFound \in [Clients -> BOOLEAN]
    /\ retried \in [Clients -> BOOLEAN]

Holders(hd, it) == {cu \in Customers : hd[cu][it] # NoInfo}

\* checkReservation, and no entry for an item there is nothing of.
Consistent(r) ==
    /\ r.numUsed + r.numFree = r.numTotal
    /\ r.numTotal > 0

\* The books balance: an item is reserved as often as there are customers
\* who hold it, what is reserved and what is free is what there is, no
\* customer holds an item that is gone, and nobody who is not a customer
\* holds anything.
Balanced(tb, cs, hd) ==
    /\ \A it \in Items :
           IF tb[it] = NoReservation THEN Holders(hd, it) = {}
           ELSE /\ Consistent(tb[it])
                /\ tb[it].numUsed = Cardinality(Holders(hd, it))
    /\ \A cu \in Customers \ cs : hd[cu] = NothingHeld

\* That is so inside a transaction, too, after each call of the manager.
BooksBalance == Balanced(table, customers, holds)

\* manager_deleteCustomer never finds a reservation it cannot cancel.  If it
\* did it would restart its transaction for ever.
DeletionPossible == \A cu \in customers : CanDelete(cu)

Asked(c, t) == {queries[c][k] : k \in {j \in 1 .. Len(queries[c]) :
                                         TypeOf[queries[c][j]] = t}}

\* When a client starts to reserve, it has found the dearest of the items of
\* each type it asked for, or found that there is none.
Best(c) ==
    \A t \in Types :
        LET there == {it \in Asked(c, t) : Exists(it)}
        IN IF there = {} THEN maxIds[c][t] = NoItem
           ELSE /\ maxIds[c][t] \in there
                /\ \A it \in there :
                       table[it].price <= table[maxIds[c][t]].price

Chosen(c) == pc[c] = "reserve" /\ n[c] = 1

\* So it is at a first attempt.  A retried one starts from the maxPrices and
\* maxIds of the aborted one and may settle on an item that has become cheap
\* or is gone: client_run sets them before TM_BEGIN.
BestAtFirst == \A c \in Clients : Chosen(c) /\ ~retried[c] => Best(c)
=============================================================================
