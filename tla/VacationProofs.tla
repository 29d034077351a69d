--------------------------- MODULE VacationProofs ---------------------------
(***************************************************************************)
(* The books of the reservation system, for any number of clients,         *)
(* customers and items and with any transaction aborted at any point.      *)
(*                                                                         *)
(* The argument: every operation of the manager takes good books to good   *)
(* books, and an abort brings back books that were good when the           *)
(* transaction began.  So the invariant says of the tables, and of what    *)
(* the running transaction found, that they are good books; and that there *)
(* is one running transaction at most, or its abort would bring back the   *)
(* books of another.                                                       *)
(*                                                                         *)
(* The same invariant carries over to the whole program, from the empty    *)
(* tables on: it does not ask for full ones.  What it lacks there is that  *)
(* initializeManager meets every id once: what it has not come to is not   *)
(* in the tables.  checkTables takes good books apart; the items left in   *)
(* them stay consistent, and as long as a customer is left they balance    *)
(* against all the lists (WhatIsLeft).                                     *)
(***************************************************************************)
EXTENDS VacationProgram, FiniteSetTheorems, TLAPS

GoodBooks(books) ==
    books \in Books /\ Balanced(books[1], books[2], books[3])

InReservation(c) == pc[c] \in {"query", "reserve", "retry"}

LocalsOK ==
    /\ pc \in [Clients -> {"idle", "query", "reserve", "delete", "update",
                           "retry"}]
    /\ n \in [Clients -> Nat \ {0}]
    /\ queries \in [Clients -> Seq(Items)]
    /\ customer \in [Clients -> Customers \cup {NoCustomer}]
    /\ maxIds \in [Clients -> [Types -> Items \cup {NoItem}]]
    /\ maxPrices \in [Clients -> [Types -> Prices \cup {-1}]]
    /\ isFound \in [Clients -> BOOLEAN]
    /\ retried \in [Clients -> BOOLEAN]
    /\ \A c \in Clients :
           InReservation(c) \/ pc[c] = "delete" => customer[c] \in Customers

\* One transaction at a time, on books that were good.
OneTx ==
    /\ \A c \in Clients : InTx(c) => before # NoBooks /\ GoodBooks(before)
    /\ \A c, d \in Clients : InTx(c) /\ InTx(d) => c = d

IInv == GoodBooks(tables) /\ LocalsOK /\ OneTx

-----------------------------------------------------------------------------
(* Holders *)

LEMMA HoldersFinite ==
  ASSUME NEW hd, NEW it
  PROVE  IsFiniteSet(Holders(hd, it)) /\ Cardinality(Holders(hd, it)) \in Nat
<1>1. Holders(hd, it) \in SUBSET Customers
  BY DEF Holders
<1>2. IsFiniteSet(Holders(hd, it))
  BY <1>1, FS_Subset, VacationAssumption
<1> QED
  BY <1>2, FS_CardinalityType

\* One more customer holds an item.
LEMMA HolderAdded ==
  ASSUME NEW hd \in [Customers -> [Items -> Prices \cup {NoInfo}]],
         NEW new \in [Customers -> [Items -> Prices \cup {NoInfo}]],
         NEW cu \in Customers, NEW it \in Items,
         hd[cu][it] = NoInfo, new[cu][it] # NoInfo,
         \A d \in Customers \ {cu} : new[d] = hd[d]
  PROVE  Cardinality(Holders(new, it)) = Cardinality(Holders(hd, it)) + 1
<1>1. Holders(new, it) = Holders(hd, it) \cup {cu}
  BY DEF Holders
<1>2. cu \notin Holders(hd, it)
  BY DEF Holders
<1> QED
  BY <1>1, <1>2, HoldersFinite, FS_AddElement

\* One customer less holds an item.
LEMMA HolderRemoved ==
  ASSUME NEW hd \in [Customers -> [Items -> Prices \cup {NoInfo}]],
         NEW new \in [Customers -> [Items -> Prices \cup {NoInfo}]],
         NEW cu \in Customers, NEW it \in Items,
         hd[cu][it] # NoInfo, new[cu][it] = NoInfo,
         \A d \in Customers \ {cu} : new[d] = hd[d]
  PROVE  Cardinality(Holders(new, it)) = Cardinality(Holders(hd, it)) - 1
<1>1. Holders(new, it) = Holders(hd, it) \ {cu}
  BY DEF Holders
<1>2. cu \in Holders(hd, it)
  BY DEF Holders
<1>3. IsFiniteSet(Holders(hd, it))
  BY HoldersFinite
<1>4. Cardinality(Holders(hd, it) \ {cu}) = Cardinality(Holders(hd, it)) - 1
  BY <1>2, <1>3, FS_RemoveElement
<1> QED
  BY <1>1, <1>4

\* The part of BooksBalance that is about the items.
ItemsBalance ==
    \A it \in Items :
        IF table[it] = NoReservation THEN Holders(holds, it) = {}
        ELSE /\ Consistent(table[it])
             /\ table[it].numUsed = Cardinality(Holders(holds, it))

\* Somebody holds an item: it exists and is in use.
LEMMA HeldIsUsed ==
  ASSUME tables \in Books, ItemsBalance,
         NEW cu \in Customers, NEW it \in Items, holds[cu][it] # NoInfo
  PROVE  Exists(it) /\ table[it] \in Reservation /\ table[it].numUsed >= 1
<1>1. cu \in Holders(holds, it)
  BY DEF Holders
<1>2. Cardinality(Holders(holds, it)) # 0
  BY <1>1, HoldersFinite, FS_EmptySet
<1>3. Exists(it) /\ table[it].numUsed = Cardinality(Holders(holds, it))
  BY <1>1 DEF ItemsBalance, Exists
<1>4. table[it] \in Reservation
  BY <1>3 DEF Exists, Books, tables
<1> QED
  BY <1>2, <1>3, <1>4, HoldersFinite

-----------------------------------------------------------------------------
(* Entries of a table *)

LEMMA UseChanged ==
  ASSUME NEW r \in Reservation, NEW x \in Nat, NEW y \in Nat
  PROVE  [r EXCEPT !.numUsed = x, !.numFree = y] \in Reservation
BY DEF Reservation

LEMMA TotalChanged ==
  ASSUME NEW r \in Reservation, NEW y \in Nat, NEW z \in Nat, NEW p \in Prices
  PROVE  [r EXCEPT !.numFree = y, !.numTotal = z, !.price = p] \in Reservation
BY DEF Reservation

\* A reservation made, cancelled, resized is still consistent.
LEMMA MadeGood ==
  ASSUME NEW r \in Reservation, Consistent(r), r.numFree >= 1
  PROVE  /\ Made(r) \in Reservation
         /\ Consistent(Made(r))
         /\ Made(r).numUsed = r.numUsed + 1
<1> DEFINE used == r.numUsed + 1
           free == r.numFree - 1
<1>1. used \in Nat /\ free \in Nat
  BY DEF Reservation
<1>2. Made(r) \in Reservation
  <2>1. Made(r) = [r EXCEPT !.numUsed = used, !.numFree = free]
    BY DEF Made
  <2> HIDE DEF used, free
  <2> QED
    BY <1>1, <2>1, UseChanged
<1>3. /\ Made(r).numUsed = r.numUsed + 1
      /\ Made(r).numFree = r.numFree - 1
      /\ Made(r).numTotal = r.numTotal
  BY DEF Made, Reservation
<1> QED
  BY <1>2, <1>3 DEF Consistent, Reservation

LEMMA CancelledGood ==
  ASSUME NEW r \in Reservation, Consistent(r), r.numUsed >= 1
  PROVE  /\ Cancelled(r) \in Reservation
         /\ Consistent(Cancelled(r))
         /\ Cancelled(r).numUsed = r.numUsed - 1
<1> DEFINE used == r.numUsed - 1
           free == r.numFree + 1
<1>1. used \in Nat /\ free \in Nat
  BY DEF Reservation
<1>2. Cancelled(r) \in Reservation
  <2>1. Cancelled(r) = [r EXCEPT !.numUsed = used, !.numFree = free]
    BY DEF Cancelled
  <2> HIDE DEF used, free
  <2> QED
    BY <1>1, <2>1, UseChanged
<1>3. /\ Cancelled(r).numUsed = r.numUsed - 1
      /\ Cancelled(r).numFree = r.numFree + 1
      /\ Cancelled(r).numTotal = r.numTotal
  BY DEF Cancelled, Reservation
<1> QED
  BY <1>2, <1>3 DEF Consistent, Reservation

LEMMA ResizedGood ==
  ASSUME NEW r \in Reservation, Consistent(r),
         NEW num \in Int, NEW price \in Prices \cup {-1},
         r.numFree + num >= 0, r.numTotal + num # 0
  PROVE  /\ Resized(r, num, price) \in Reservation
         /\ Consistent(Resized(r, num, price))
         /\ Resized(r, num, price).numUsed = r.numUsed
<1> DEFINE p     == IF price < 0 THEN r.price ELSE price
           free  == r.numFree + num
           total == r.numTotal + num
<1>1. free \in Nat /\ total \in Nat /\ p \in Prices
  BY VacationAssumption DEF Reservation, Consistent
<1>2. Resized(r, num, price) =
          [r EXCEPT !.numFree = free, !.numTotal = total, !.price = p]
  BY DEF Resized, Priced, Reservation
<1>3. Resized(r, num, price) \in Reservation
  <2> HIDE DEF p, free, total
  <2>1. [r EXCEPT !.numFree = free, !.numTotal = total, !.price = p]
            \in Reservation
    BY <1>1, TotalChanged
  <2> QED
    BY <1>2, <2>1
<1>4. /\ Resized(r, num, price).numUsed = r.numUsed
      /\ Resized(r, num, price).numFree = r.numFree + num
      /\ Resized(r, num, price).numTotal = r.numTotal + num
  BY <1>2 DEF Reservation
<1> QED
  BY <1>1, <1>3, <1>4 DEF Consistent, Reservation
-----------------------------------------------------------------------------
(* The operations of the manager *)

\* Removing an entry needs nobody to hold the item, so numUsed = 0 and
\* nothing is free.
LEMMA AddReservationGood ==
  ASSUME GoodBooks(tables), NEW it \in Items, NEW num \in Int,
         NEW price \in Prices \cup {-1}, addReservation(it, num, price)
  PROVE  GoodBooks(tables')
<1>1. /\ table \in [Items -> Reservation \cup {NoReservation}]
      /\ customers \in SUBSET Customers
      /\ holds \in [Customers -> [Items -> Prices \cup {NoInfo}]]
      /\ Balanced(table, customers, holds)
  BY DEF GoodBooks, Books, tables
<1>2. customers' = customers /\ holds' = holds
  BY DEF addReservation
<1> SUFFICES /\ table' \in [Items -> Reservation \cup {NoReservation}]
             /\ Balanced(table', customers, holds)
  BY <1>1, <1>2 DEF GoodBooks, Books, tables
<1>3. CASE UNCHANGED table
  BY <1>1, <1>3
<1>4. CASE /\ ~Exists(it) /\ ~(num < 1 \/ price < 0)
           /\ table' = [table EXCEPT ![it] = NewReservation(num, price)]
  <2>1. price \in Prices /\ num \in Nat /\ num > 0
    BY <1>4, VacationAssumption
  <2>2. NewReservation(num, price) \in Reservation
    BY <2>1 DEF NewReservation, Reservation
  <2>3. /\ NewReservation(num, price) # NoReservation
        /\ Consistent(NewReservation(num, price))
        /\ NewReservation(num, price).numUsed = 0
    BY <2>1, <2>2, NoReservationAssumption DEF NewReservation, Consistent
  <2>4. Holders(holds, it) = {}
    BY <1>1, <1>4 DEF Balanced, Exists
  <2> QED
    BY <1>1, <1>4, <2>2, <2>3, <2>4, FS_EmptySet DEF Balanced
<1>5. CASE /\ Exists(it) /\ table[it].numFree + num >= 0
           /\ table' = [table EXCEPT ![it] =
                  IF @.numTotal + num = 0 THEN NoReservation
                  ELSE Resized(@, num, price)]
  <2>1. table[it] \in Reservation /\ Consistent(table[it])
    BY <1>1, <1>5 DEF Exists, Balanced
  <2>2. /\ table[it].numUsed \in Nat /\ table[it].numFree \in Nat
        /\ table[it].numTotal \in Nat /\ table[it].price \in Prices
        /\ table[it].numUsed + table[it].numFree = table[it].numTotal
    BY <2>1 DEF Reservation, Consistent
  <2>3. CASE table[it].numTotal + num = 0
    <3>1. table[it].numUsed = 0
      BY <1>5, <2>2, <2>3
    <3>2. Cardinality(Holders(holds, it)) = 0
      BY <1>1, <1>5, <3>1 DEF Balanced, Exists
    <3>3. Holders(holds, it) = {}
      BY <3>2, HoldersFinite, FS_EmptySet
    <3>4. table' = [table EXCEPT ![it] = NoReservation]
      BY <1>5, <2>3
    <3> QED
      BY <1>1, <3>3, <3>4 DEF Balanced
  <2>4. CASE table[it].numTotal + num # 0
    <3> DEFINE r == Resized(table[it], num, price)
    <3>1. r \in Reservation /\ Consistent(r) /\ r.numUsed = table[it].numUsed
      BY <1>5, <2>1, <2>4, ResizedGood
    <3>2. table' = [table EXCEPT ![it] = r]
      BY <1>5, <2>4
    <3> HIDE DEF r
    <3>3. r # NoReservation
      BY <3>1, NoReservationAssumption
    <3> QED
      BY <1>1, <1>5, <3>1, <3>2, <3>3 DEF Balanced, Exists
  <2> QED
    BY <2>3, <2>4
<1>6. num < 1 \/ price < 0 \/ ~(num < 1 \/ price < 0)
  OBVIOUS
<1>7. Exists(it) => table[it].numFree \in Int
  BY <1>1 DEF Exists, Reservation
<1> QED
  BY <1>3, <1>4, <1>5, <1>7 DEF addReservation

LEMMA DeleteGood ==
  ASSUME GoodBooks(tables), NEW it \in Items, Delete(it)
  PROVE  GoodBooks(tables')
<1>1. Exists(it) => table[it].numTotal \in Nat
  BY DEF GoodBooks, Books, tables, Exists, Reservation
<1>2. CASE UNCHANGED tables
  BY <1>2
<1>3. CASE Exists(it) /\ addReservation(it, -table[it].numTotal, -1)
  BY <1>1, <1>3, AddReservationGood
<1>4. CASE addReservation(it, -Batch, -1)
  BY <1>4, AddReservationGood, VacationAssumption
<1> QED
  BY <1>2, <1>3, <1>4 DEF Delete, manager_deleteFlight

\* A call that undoes what it has counted leaves good books.
LEMMA RecountGood ==
  ASSUME GoodBooks(tables), NEW it \in Items, Exists(it),
         NEW r \in Reservation, Consistent(r), r.numUsed = table[it].numUsed,
         table' = [table EXCEPT ![it] = r], UNCHANGED <<customers, holds>>
  PROVE  GoodBooks(tables')
<1>1. /\ table \in [Items -> Reservation \cup {NoReservation}]
      /\ customers \in SUBSET Customers
      /\ holds \in [Customers -> [Items -> Prices \cup {NoInfo}]]
      /\ Balanced(table, customers, holds)
  BY DEF GoodBooks, Books, tables
<1>2. /\ \A x \in Items \ {it} : table'[x] = table[x]
      /\ table'[it] = r /\ r # NoReservation
      /\ table' \in [Items -> Reservation \cup {NoReservation}]
  BY <1>1, NoReservationAssumption
<1>3. r.numUsed = Cardinality(Holders(holds, it))
  BY <1>1 DEF Balanced, Exists
<1>4. Balanced(table', customers', holds')
  BY <1>1, <1>2, <1>3 DEF Balanced
<1> QED
  BY <1>1, <1>2, <1>4 DEF GoodBooks, Books, tables

LEMMA ReserveGood ==
  ASSUME GoodBooks(tables), NEW cu \in Customers, NEW it \in Items,
         reserve(cu, it)
  PROVE  GoodBooks(tables')
<1>1. /\ table \in [Items -> Reservation \cup {NoReservation}]
      /\ customers \in SUBSET Customers
      /\ holds \in [Customers -> [Items -> Prices \cup {NoInfo}]]
      /\ Balanced(table, customers, holds)
  BY DEF GoodBooks, Books, tables
<1>2. CASE UNCHANGED tables
  BY <1>2
<1>3. CASE /\ cu \in customers /\ Exists(it) /\ table[it].numFree >= 1
           /\ holds[cu][it] = NoInfo
           /\ table' = [table EXCEPT ![it] = Made(table[it])]
           /\ holds' = [holds EXCEPT ![cu][it] = Made(table[it]).price]
           /\ UNCHANGED customers
  <2> DEFINE r == Made(table[it])
  <2>1. table[it] \in Reservation /\ Consistent(table[it])
    BY <1>1, <1>3 DEF Exists, Balanced
  <2>2. /\ r \in Reservation /\ Consistent(r)
        /\ r.numUsed = table[it].numUsed + 1
    BY <1>3, <2>1, MadeGood
  <2>3. /\ table' = [table EXCEPT ![it] = r] /\ r.price \in Prices
        /\ holds' = [holds EXCEPT ![cu][it] = r.price]
    BY <1>3, <2>2 DEF Reservation
  <2> HIDE DEF r
  <2>4. r # NoReservation
    BY <2>2, NoReservationAssumption
  <2>5. /\ holds' \in [Customers -> [Items -> Prices \cup {NoInfo}]]
        /\ Cardinality(Holders(holds', it)) = Cardinality(Holders(holds, it)) + 1
        /\ \A x \in Items \ {it} : Holders(holds', x) = Holders(holds, x)
    <3>1. /\ holds' \in [Customers -> [Items -> Prices \cup {NoInfo}]]
          /\ holds[cu][it] = NoInfo /\ holds'[cu][it] # NoInfo
          /\ \A d \in Customers \ {cu} : holds'[d] = holds[d]
          /\ \A x \in Items \ {it} : holds'[cu][x] = holds[cu][x]
      BY <1>1, <1>3, <2>3, VacationAssumption
    <3>2. Cardinality(Holders(holds', it)) = Cardinality(Holders(holds, it)) + 1
      BY <1>1, <3>1, HolderAdded
    <3> QED
      BY <3>1, <3>2 DEF Holders
  <2>6. \A x \in Customers \ customers : holds'[x] = NothingHeld
    BY <1>1, <1>3 DEF Balanced
  <2>7. table[it].numUsed = Cardinality(Holders(holds, it))
    BY <1>1, <1>3 DEF Balanced, Exists
  <2>8. \A x \in Items \ {it} : table'[x] = table[x]
    BY <1>1, <2>3
  <2>9. table'[it] = r
    BY <1>1, <2>3
  <2>10. table' \in [Items -> Reservation \cup {NoReservation}]
    BY <1>1, <2>2, <2>3
  <2>11. \A x \in Items :
             IF table'[x] = NoReservation THEN Holders(holds', x) = {}
             ELSE /\ Consistent(table'[x])
                  /\ table'[x].numUsed = Cardinality(Holders(holds', x))
    BY <1>1, <2>2, <2>4, <2>5, <2>7, <2>8, <2>9 DEF Balanced
  <2> QED
    BY <1>1, <1>3, <2>5, <2>6, <2>10, <2>11, ZenonT(60)
    DEF GoodBooks, Books, tables, Balanced
<1>4. CASE /\ Exists(it) /\ table[it].numFree >= 1
           /\ table' = [table EXCEPT ![it] = Cancelled(Made(table[it]))]
           /\ UNCHANGED <<customers, holds>>
  <2>1. table[it] \in Reservation /\ Consistent(table[it])
    BY <1>1, <1>4 DEF Exists, Balanced
  <2>2. /\ Made(table[it]) \in Reservation /\ Consistent(Made(table[it]))
        /\ Made(table[it]).numUsed = table[it].numUsed + 1
    BY <1>4, <2>1, MadeGood
  <2>3. table[it].numUsed \in Nat
    BY <2>1 DEF Reservation
  <2> DEFINE made == Made(table[it])
             r    == Cancelled(made)
  <2>4. /\ r \in Reservation /\ Consistent(r)
        /\ r.numUsed = made.numUsed - 1
    <3> HIDE DEF made
    <3> QED
      BY <2>2, <2>3, CancelledGood DEF made
  <2>5. r.numUsed = table[it].numUsed
    BY <2>2, <2>3, <2>4
  <2>6. table' = [table EXCEPT ![it] = r]
    BY <1>4
  <2> HIDE DEF r
  <2> QED
    BY <1>4, <2>4, <2>5, <2>6, RecountGood
<1> QED
  BY <1>2, <1>3, <1>4
  DEF reserve, Available, Unreserve, customer_addReservationInfo

LEMMA CancelGood ==
  ASSUME GoodBooks(tables), NEW cu \in Customers, NEW it \in Items,
         cancel(cu, it)
  PROVE  GoodBooks(tables')
<1>1. /\ table \in [Items -> Reservation \cup {NoReservation}]
      /\ customers \in SUBSET Customers
      /\ holds \in [Customers -> [Items -> Prices \cup {NoInfo}]]
      /\ Balanced(table, customers, holds)
  BY DEF GoodBooks, Books, tables
<1>2. CASE UNCHANGED tables
  BY <1>2
<1>3. CASE /\ cu \in customers /\ Exists(it) /\ table[it].numUsed >= 1
           /\ holds[cu][it] # NoInfo
           /\ table' = [table EXCEPT ![it] = Cancelled(table[it])]
           /\ holds' = [holds EXCEPT ![cu][it] = NoInfo]
           /\ UNCHANGED customers
  <2> DEFINE r == Cancelled(table[it])
  <2>1. table[it] \in Reservation /\ Consistent(table[it])
    BY <1>1, <1>3 DEF Exists, Balanced
  <2>2. /\ r \in Reservation /\ Consistent(r)
        /\ r.numUsed = table[it].numUsed - 1
    BY <1>3, <2>1, CancelledGood
  <2>3. table' = [table EXCEPT ![it] = r]
    BY <1>3
  <2> HIDE DEF r
  <2>4. r # NoReservation
    BY <2>2, NoReservationAssumption
  <2>5. /\ holds' \in [Customers -> [Items -> Prices \cup {NoInfo}]]
        /\ holds[cu][it] # NoInfo /\ holds'[cu][it] = NoInfo
        /\ \A d \in Customers \ {cu} : holds'[d] = holds[d]
    BY <1>1, <1>3
  <2>6. Cardinality(Holders(holds', it)) = Cardinality(Holders(holds, it)) - 1
    BY <1>1, <2>5, HolderRemoved
  <2>7. \A x \in Items \ {it} : Holders(holds', x) = Holders(holds, x)
    BY <1>1, <1>3 DEF Holders
  <2>8. \A x \in Customers \ customers : holds'[x] = NothingHeld
    BY <1>1, <1>3 DEF Balanced
  <2>9. table[it].numUsed = Cardinality(Holders(holds, it))
    BY <1>1, <1>3 DEF Balanced, Exists
  <2>10. /\ \A x \in Items \ {it} : table'[x] = table[x]
         /\ table'[it] = r
         /\ table' \in [Items -> Reservation \cup {NoReservation}]
    BY <1>1, <2>2, <2>3
  <2>11. \A x \in Items :
             IF table'[x] = NoReservation THEN Holders(holds', x) = {}
             ELSE /\ Consistent(table'[x])
                  /\ table'[x].numUsed = Cardinality(Holders(holds', x))
    BY <1>1, <2>2, <2>4, <2>6, <2>7, <2>9, <2>10 DEF Balanced
  <2> QED
    BY <1>1, <1>3, <2>5, <2>8, <2>10, <2>11, ZenonT(60)
    DEF GoodBooks, Books, tables, Balanced
<1>4. CASE /\ Exists(it) /\ table[it].numUsed >= 1
           /\ table' = [table EXCEPT ![it] = Made(Cancelled(table[it]))]
           /\ UNCHANGED <<customers, holds>>
           /\ Cancelled(table[it]).numFree >= 1
  <2>1. table[it] \in Reservation /\ Consistent(table[it])
    BY <1>1, <1>4 DEF Exists, Balanced
  <2>2. /\ Cancelled(table[it]) \in Reservation
        /\ Consistent(Cancelled(table[it]))
        /\ Cancelled(table[it]).numUsed = table[it].numUsed - 1
    BY <1>4, <2>1, CancelledGood
  <2>3. table[it].numUsed \in Nat
    BY <2>1 DEF Reservation
  <2> DEFINE cancelled == Cancelled(table[it])
             r         == Made(cancelled)
  <2>4. /\ r \in Reservation /\ Consistent(r)
        /\ r.numUsed = cancelled.numUsed + 1
    <3>1. cancelled.numFree >= 1
      BY <1>4
    <3> HIDE DEF cancelled
    <3> QED
      BY <2>2, <3>1, MadeGood DEF cancelled
  <2>5. r.numUsed = table[it].numUsed
    BY <2>2, <2>3, <2>4
  <2>6. table' = [table EXCEPT ![it] = r]
    BY <1>4
  <2> HIDE DEF r
  <2> QED
    BY <1>4, <2>4, <2>5, <2>6, RecountGood
<1> QED
  BY <1>2, <1>3, <1>4
  DEF cancel, InUse, Available, Uncancel, customer_removeReservationInfo

LEMMA AddCustomerGood ==
  ASSUME GoodBooks(tables), NEW cu \in Customers, manager_addCustomer(cu)
  PROVE  GoodBooks(tables')
BY DEF manager_addCustomer, GoodBooks, Books, tables, Balanced

LEMMA DeleteCustomerGood ==
  ASSUME GoodBooks(tables), NEW cu \in Customers, manager_deleteCustomer(cu)
  PROVE  GoodBooks(tables')
<1>1. /\ table \in [Items -> Reservation \cup {NoReservation}]
      /\ customers \in SUBSET Customers
      /\ holds \in [Customers -> [Items -> Prices \cup {NoInfo}]]
      /\ Balanced(table, customers, holds)
  BY DEF GoodBooks, Books, tables
<1>2. CASE UNCHANGED tables
  BY <1>2
<1>3. CASE /\ CanDelete(cu)
           /\ table' = [it \in Items |-> IF holds[cu][it] # NoInfo
                                         THEN Cancelled(table[it]) ELSE table[it]]
           /\ holds' = [holds EXCEPT ![cu] = NothingHeld]
           /\ customers' = customers \ {cu}
  <2>1. /\ holds' \in [Customers -> [Items -> Prices \cup {NoInfo}]]
        /\ \A it \in Items : holds'[cu][it] = NoInfo
        /\ \A d \in Customers \ {cu} : holds'[d] = holds[d]
    BY <1>1, <1>3 DEF NothingHeld
  <2>2. \A x \in Customers \ customers' : holds'[x] = NothingHeld
    BY <1>1, <1>3 DEF Balanced
  <2>3. ASSUME NEW it \in Items
        PROVE  /\ table'[it] \in Reservation \cup {NoReservation}
               /\ IF table'[it] = NoReservation THEN Holders(holds', it) = {}
                  ELSE /\ Consistent(table'[it])
                       /\ table'[it].numUsed = Cardinality(Holders(holds', it))
    <3>1. CASE holds[cu][it] = NoInfo
      <4>1. Holders(holds', it) = Holders(holds, it)
        BY <2>1, <3>1 DEF Holders
      <4>2. table'[it] = table[it]
        BY <1>3, <3>1
      <4> QED
        BY <1>1, <4>1, <4>2 DEF Balanced
    <3>2. CASE holds[cu][it] # NoInfo
      <4> DEFINE r == Cancelled(table[it])
      <4>1. /\ table[it] \in Reservation /\ Consistent(table[it])
            /\ table[it].numUsed >= 1
            /\ table[it].numUsed = Cardinality(Holders(holds, it))
        BY <1>1, <1>3, <3>2 DEF CanDelete, Exists, InUse, Balanced
      <4>2. /\ r \in Reservation /\ Consistent(r)
            /\ r.numUsed = table[it].numUsed - 1
        BY <4>1, CancelledGood
      <4>3. table'[it] = r
        BY <1>3, <3>2
      <4> HIDE DEF r
      <4>4. r # NoReservation
        BY <4>2, NoReservationAssumption
      <4>5. Cardinality(Holders(holds', it)) = Cardinality(Holders(holds, it)) - 1
        BY <1>1, <2>1, <3>2, HolderRemoved
      <4> QED
        BY <4>1, <4>2, <4>3, <4>4, <4>5
    <3> QED
      BY <3>1, <3>2
  <2>4. table' \in [Items -> Reservation \cup {NoReservation}]
    <3>1. table' = [it \in Items |-> table'[it]]
      BY <1>3
    <3> QED
      BY <2>3, <3>1
  <2> QED
    BY <1>1, <1>3, <2>1, <2>2, <2>3, <2>4
    DEF GoodBooks, Books, tables, Balanced
<1> QED
  BY <1>2, <1>3 DEF manager_deleteCustomer

-----------------------------------------------------------------------------
(* The invariant *)

LEMMA InitGood == Init => IInv
<1> SUFFICES ASSUME Init PROVE IInv
  OBVIOUS
<1>1. ASSUME NEW it \in Items
      PROVE  /\ table[it] \in Reservation /\ Consistent(table[it])
             /\ table[it].numUsed = 0
  <2>1. PICK k \in 1 .. MaxTotal \div Batch, p \in Offers :
            table[it] = NewReservation(k * Batch, p)
    BY DEF Init, TablesFilled
  <2>2. k * Batch \in Nat /\ k * Batch > 0
    BY VacationAssumption
  <2> QED
    BY <2>1, <2>2, VacationAssumption DEF NewReservation, Reservation, Consistent
<1>2. table \in [Items -> Reservation]
  <2>1. table = [it \in Items |-> table[it]]
    BY DEF Init, TablesFilled
  <2> QED
    BY <1>1, <2>1
<1>3. holds \in [Customers -> [Items -> Prices \cup {NoInfo}]]
  BY DEF Init, NothingDone, NothingHeld
<1>4. \A it \in Items : Holders(holds, it) = {}
  BY DEF Init, NothingDone, NothingHeld, Holders
<1>5. Balanced(table, customers, holds)
  BY <1>1, <1>4, FS_EmptySet, NoReservationAssumption DEF Balanced, Init, TablesFilled
<1>6. GoodBooks(tables)
  BY <1>2, <1>3, <1>5 DEF GoodBooks, Books, tables, Init, TablesFilled
<1>7. LocalsOK
  BY DEF Init, NothingDone, LocalsOK, InReservation
<1>8. OneTx
  BY DEF Init, NothingDone, OneTx, InTx
<1> QED
  BY <1>6, <1>7, <1>8 DEF IInv

\* The transaction that begins is the only one, and finds good books.
LEMMA BeginOneTx ==
  ASSUME IInv, NEW c \in Clients, NEW where \in {"query", "delete", "update"},
         TxBegin(c, where)
  PROVE  OneTx' /\ GoodBooks(tables)'
<1>1. GoodBooks(tables) /\ before' = tables /\ tables' = tables
  BY DEF IInv, TxBegin
<1>2. before' # NoBooks /\ GoodBooks(before)'
  BY <1>1, NoBooksAssumption DEF GoodBooks
<1>3. \A d \in Clients : ~InTx(d)
  BY DEF IInv, OneTx, TxBegin
<1>4. \A d \in Clients : InTx(d)' => d = c
  BY <1>3 DEF IInv, LocalsOK, TxBegin, Goto, InTx
<1> QED
  BY <1>1, <1>2, <1>4 DEF OneTx

\* When it ends, committed or aborted, nobody is inside one.
LEMMA EndOneTx ==
  ASSUME IInv, NEW c \in Clients, InTx(c), NEW where \in {"idle", "retry"},
         Goto(c, where)
  PROVE  OneTx'
<1>1. \A d \in Clients : InTx(d) => d = c
  BY DEF IInv, OneTx
<1>2. \A d \in Clients : ~InTx(d)'
  BY <1>1 DEF IInv, LocalsOK, Goto, InTx
<1> QED
  BY <1>2 DEF OneTx

\* In between the one that runs goes on.
LEMMA StayOneTx ==
  ASSUME IInv, NEW c \in Clients, UNCHANGED before,
         \/ UNCHANGED pc
         \/ InTx(c) /\ Goto(c, "reserve")
  PROVE  OneTx'
<1>1. \A d \in Clients : InTx(d)' => InTx(d)
  BY DEF IInv, LocalsOK, Goto, InTx
<1> QED
  BY <1>1 DEF IInv, OneTx

\* The local variables forgotten.
LEMMA ForgetLocals ==
  ASSUME LocalsOK, NEW c \in Clients, Forget(c), Goto(c, "idle")
  PROVE  LocalsOK'
BY VacationAssumption DEF LocalsOK, InReservation, Forget, Goto

LEMMA NextIInv ==
  ASSUME IInv, [Next]_vars
  PROVE  IInv'
<1>0. GoodBooks(tables) /\ LocalsOK /\ OneTx
  BY DEF IInv
<1>1. ASSUME NEW c \in Clients, NEW cu \in Customers, NEW qs \in Lists,
             BeginReservation(c, cu, qs)
      PROVE  IInv'
  <2>1. OneTx' /\ GoodBooks(tables)'
    BY <1>1, BeginOneTx DEF BeginReservation
  <2>2. qs \in Seq(Items)
    BY VacationAssumption DEF Lists
  <2>3. LocalsOK'
    BY <1>0, <1>1, <2>2
    DEF LocalsOK, InReservation, BeginReservation, TxBegin, Goto
  <2> QED
    BY <2>1, <2>3 DEF IInv
<1>2. ASSUME NEW c \in Clients, RetryReservation(c)
      PROVE  IInv'
  <2>1. OneTx' /\ GoodBooks(tables)'
    BY <1>2, BeginOneTx DEF RetryReservation
  <2>2. LocalsOK'
    BY <1>0, <1>2 DEF LocalsOK, InReservation, RetryReservation, TxBegin, Goto
  <2> QED
    BY <2>1, <2>2 DEF IInv
<1>3. ASSUME NEW c \in Clients, Query(c)
      PROVE  IInv'
  <2>1. OneTx'
    BY <1>3, StayOneTx DEF Query
  <2>2. GoodBooks(tables)'
    BY <1>0, <1>3 DEF Query
  <2>3. LocalsOK'
    <3> DEFINE it == queries[c][n[c]]
    <3>1. it \in Items /\ TypeOf[it] \in Types
      BY <1>0, <1>3, VacationAssumption DEF LocalsOK, Query
    <3>2. PriceOf(it) \in Prices \cup {-1}
      BY <1>0, <3>1
      DEF PriceOf, Exists, GoodBooks, Books, tables, Reservation
    <3> HIDE DEF it
    <3>3. /\ maxPrices' \in [Clients -> [Types -> Prices \cup {-1}]]
          /\ maxIds' \in [Clients -> [Types -> Items \cup {NoItem}]]
          /\ isFound' \in [Clients -> BOOLEAN]
      <4>1. CASE /\ maxPrices' = [maxPrices EXCEPT ![c][TypeOf[it]] = PriceOf(it)]
                 /\ maxIds' = [maxIds EXCEPT ![c][TypeOf[it]] = it]
                 /\ isFound' = [isFound EXCEPT ![c] = TRUE]
        BY <1>0, <3>1, <3>2, <4>1 DEF LocalsOK
      <4>2. CASE UNCHANGED <<maxPrices, maxIds, isFound>>
        BY <1>0, <4>2 DEF LocalsOK
      <4> QED
        BY <1>3, <4>1, <4>2 DEF Query, it
    <3>4. n' \in [Clients -> Nat \ {0}]
      BY <1>0, <1>3 DEF LocalsOK, Query
    <3> QED
      BY <1>0, <1>3, <3>3, <3>4 DEF LocalsOK, InReservation, Query
  <2> QED
    BY <2>1, <2>2, <2>3 DEF IInv
<1>4. ASSUME NEW c \in Clients, AddCustomer(c)
      PROVE  IInv'
  <2>1. customer[c] \in Customers
    BY <1>0, <1>4 DEF LocalsOK, InReservation, AddCustomer
  <2>2. GoodBooks(tables)'
    <3>1. CASE manager_addCustomer(customer[c])
      BY <1>0, <2>1, <3>1, AddCustomerGood
    <3>2. CASE UNCHANGED tables
      BY <1>0, <3>2
    <3> QED
      BY <1>4, <3>1, <3>2 DEF AddCustomer
  <2>3. OneTx'
    BY <1>4, StayOneTx DEF AddCustomer, InTx
  <2>4. LocalsOK'
    BY <1>0, <1>4, <2>1 DEF LocalsOK, InReservation, AddCustomer, Goto
  <2> QED
    BY <2>2, <2>3, <2>4 DEF IInv
<1>5. ASSUME NEW c \in Clients, Reserve(c)
      PROVE  IInv'
  <2>1. customer[c] \in Customers
    BY <1>0, <1>5 DEF LocalsOK, InReservation, Reserve
  <2>2. GoodBooks(tables)'
    <3> DEFINE it == maxIds[c][ReservationTypes[n[c]]]
    <3>1. it # NoItem => it \in Items
      <4>1. n[c] \in 1 .. 3
        BY <1>0, <1>5 DEF LocalsOK, Reserve, ReservationTypes
      <4>2. ReservationTypes[n[c]] \in Types
        BY <4>1 DEF ReservationTypes, Types
      <4> QED
        BY <1>0, <4>2 DEF LocalsOK
    <3> HIDE DEF it
    <3>2. CASE it # NoItem /\ reserve(customer[c], it)
      BY <1>0, <2>1, <3>1, <3>2, ReserveGood
    <3>3. CASE UNCHANGED tables
      BY <1>0, <3>3
    <3> QED
      BY <1>5, <3>2, <3>3 DEF Reserve, it
  <2>3. OneTx'
    BY <1>5, StayOneTx DEF Reserve
  <2>4. LocalsOK'
    BY <1>0, <1>5, <2>1 DEF LocalsOK, InReservation, Reserve
  <2> QED
    BY <2>2, <2>3, <2>4 DEF IInv
<1>6. ASSUME NEW c \in Clients, EndReservation(c)
      PROVE  IInv'
  <2>1. OneTx'
    BY <1>6, EndOneTx DEF EndReservation, TxEnd, InTx
  <2>2. LocalsOK'
    BY <1>0, <1>6, ForgetLocals DEF EndReservation, TxEnd
  <2>3. GoodBooks(tables)'
    BY <1>0, <1>6 DEF EndReservation
  <2> QED
    BY <2>1, <2>2, <2>3 DEF IInv
<1>7. ASSUME NEW c \in Clients, NEW cu \in Customers, BeginDelete(c, cu)
      PROVE  IInv'
  <2>1. OneTx' /\ GoodBooks(tables)'
    BY <1>7, BeginOneTx DEF BeginDelete
  <2>2. LocalsOK'
    BY <1>0, <1>7 DEF LocalsOK, InReservation, BeginDelete, TxBegin, Goto
  <2> QED
    BY <2>1, <2>2 DEF IInv
<1>8. ASSUME NEW c \in Clients, DeleteCustomer(c)
      PROVE  IInv'
  <2>1. OneTx'
    BY <1>8, EndOneTx DEF DeleteCustomer, TxEnd, InTx
  <2>2. LocalsOK'
    BY <1>0, <1>8, ForgetLocals DEF DeleteCustomer, TxEnd
  <2>3. customer[c] \in Customers
    BY <1>0, <1>8 DEF LocalsOK, DeleteCustomer
  <2>4. GoodBooks(tables)'
    BY <1>0, <1>8, <2>3, DeleteCustomerGood DEF DeleteCustomer
  <2> QED
    BY <2>1, <2>2, <2>4 DEF IInv
<1>9. ASSUME NEW c \in Clients, BeginUpdate(c)
      PROVE  IInv'
  <2>1. OneTx' /\ GoodBooks(tables)'
    BY <1>9, BeginOneTx DEF BeginUpdate
  <2>2. LocalsOK'
    BY <1>0, <1>9 DEF LocalsOK, InReservation, BeginUpdate, TxBegin, Goto
  <2> QED
    BY <2>1, <2>2 DEF IInv
<1>10. ASSUME NEW c \in Clients, NEW it \in Items, NEW price \in Offers,
              AddItem(c, it, price)
       PROVE  IInv'
  <2>1. OneTx'
    BY <1>10, StayOneTx DEF AddItem
  <2>2. LocalsOK'
    BY <1>0, <1>10 DEF LocalsOK, InReservation, AddItem
  <2>3. GoodBooks(tables)'
    <3>1. price \in Prices \cup {-1} /\ Batch \in Int
      BY <1>10, VacationAssumption
    <3> QED
      BY <1>0, <1>10, <3>1, AddReservationGood DEF AddItem, Add
  <2> QED
    BY <2>1, <2>2, <2>3 DEF IInv
<1>11. ASSUME NEW c \in Clients, NEW it \in Items, DeleteItem(c, it)
       PROVE  IInv'
  <2>1. OneTx'
    BY <1>11, StayOneTx DEF DeleteItem
  <2>2. LocalsOK'
    BY <1>0, <1>11 DEF LocalsOK, InReservation, DeleteItem
  <2>3. GoodBooks(tables)'
    BY <1>0, <1>11, DeleteGood DEF DeleteItem
  <2> QED
    BY <2>1, <2>2, <2>3 DEF IInv
<1>12. ASSUME NEW c \in Clients, EndUpdate(c)
       PROVE  IInv'
  <2>1. OneTx'
    BY <1>12, EndOneTx DEF EndUpdate, TxEnd, InTx
  <2>2. LocalsOK'
    BY <1>0, <1>12, ForgetLocals DEF EndUpdate, TxEnd
  <2>3. GoodBooks(tables)'
    BY <1>0, <1>12 DEF EndUpdate
  <2> QED
    BY <2>1, <2>2, <2>3 DEF IInv
<1>13. ASSUME NEW c \in Clients, NEW cu \in Customers, NEW it \in Items,
              CancelItem(c, cu, it)
       PROVE  IInv'
  <2>1. OneTx'
    BY <1>13, StayOneTx DEF CancelItem
  <2>2. LocalsOK'
    BY <1>0, <1>13 DEF LocalsOK, InReservation, CancelItem, locals
  <2>3. GoodBooks(tables)'
    BY <1>0, <1>13, CancelGood DEF CancelItem
  <2> QED
    BY <2>1, <2>2, <2>3 DEF IInv
<1>14. ASSUME NEW c \in Clients, TxAbort(c)
       PROVE  IInv'
  <2>1. OneTx'
    BY <1>14, EndOneTx DEF TxAbort
  <2>2. LocalsOK'
    <3>1. CASE /\ pc[c] \in {"query", "reserve"}
               /\ Goto(c, "retry") /\ UNCHANGED locals
      BY <1>0, <3>1 DEF LocalsOK, InReservation, Goto, locals
    <3>2. CASE Goto(c, "idle") /\ Forget(c)
      BY <1>0, <3>2, ForgetLocals
    <3> QED
      BY <1>14, <3>1, <3>2 DEF TxAbort
  <2>3. GoodBooks(before) /\ tables' = <<before[1], before[2], before[3]>>
    BY <1>0, <1>14 DEF OneTx, TxAbort, tables
  <2>4. tables' = before
    BY <2>3 DEF GoodBooks, Books
  <2> QED
    BY <2>1, <2>2, <2>3, <2>4 DEF IInv
<1>15. CASE UNCHANGED vars
  <2>1. tables' = tables /\ LocalsOK' /\ OneTx'
    BY <1>0, <1>15
    DEF vars, locals, LocalsOK, InReservation, OneTx, InTx
  <2> QED
    BY <1>0, <2>1 DEF IInv
<1> QED
  BY <1>1, <1>2, <1>3, <1>4, <1>5, <1>6, <1>7, <1>8, <1>9, <1>10, <1>11,
     <1>12, <1>13, <1>14, <1>15
  DEF Next, Step

LEMMA Inductive == Spec => []IInv
BY InitGood, NextIInv, PTL DEF Spec

\* The tables, the lists and the clients hold what they may hold.
THEOREM TypeCorrect == Spec => []TypeOK
<1>1. IInv => TypeOK
  BY DEF IInv, GoodBooks, LocalsOK, TypeOK
<1> QED
  BY Inductive, <1>1, PTL

\* The books balance after every call of the manager, whatever transactions
\* ran before and whichever of them were aborted.
THEOREM BooksAlwaysBalance == Spec => []BooksBalance
<1>1. IInv => BooksBalance
  BY DEF IInv, GoodBooks, BooksBalance, tables
<1> QED
  BY Inductive, <1>1, PTL

\* Customers can be deleted as long as the items' side of the books is good.
LEMMA CanAlwaysDelete ==
  ASSUME tables \in Books, customers # {} => ItemsBalance
  PROVE  DeletionPossible
<1> SUFFICES ASSUME NEW cu \in customers PROVE CanDelete(cu)
  BY DEF DeletionPossible
<1>1. ItemsBalance /\ cu \in Customers
  BY DEF Books, tables
<1> QED
  BY <1>1, HeldIsUsed DEF CanDelete, InUse

\* manager_deleteCustomer can cancel all that the customer holds, so it never
\* restarts its transaction.
THEOREM DeletionNeverRestarts == Spec => []DeletionPossible
<1>1. IInv => DeletionPossible
  BY CanAlwaysDelete DEF IInv, GoodBooks, Balanced, ItemsBalance, tables
<1> QED
  BY Inductive, <1>1, PTL

-----------------------------------------------------------------------------
(* What a client chooses *)

\* What c has found in the first n[c] - 1 of its queries.
BestSoFar(c) ==
    \A t \in Types :
        /\ maxIds[c][t] = NoItem => maxPrices[c][t] = -1
        /\ maxIds[c][t] # NoItem =>
               /\ \E k \in 1 .. n[c] - 1 : queries[c][k] = maxIds[c][t]
               /\ TypeOf[maxIds[c][t]] = t /\ Exists(maxIds[c][t])
               /\ maxPrices[c][t] = table[maxIds[c][t]].price
        /\ \A k \in 1 .. n[c] - 1 :
               TypeOf[queries[c][k]] = t =>
                   PriceOf(queries[c][k]) <= maxPrices[c][t]

Searches(c) ==
    /\ n[c] - 1 <= Len(queries[c])
    /\ ~retried[c] => BestSoFar(c)

\* What makes BestAtFirst inductive is what the loop over the queries has
\* found so far.
ChoiceOK(c) ==
    /\ pc[c] = "query" => Searches(c)
    /\ Chosen(c) /\ ~retried[c] => Best(c)

CInv == IInv /\ \A c \in Clients : ChoiceOK(c)

\* Nobody else takes a step while a client is inside its transaction.
LEMMA LoneStep ==
  ASSUME IInv, NEW c \in Clients, NEW d \in Clients, InTx(c), Step(d)
  PROVE  d = c
<1>1. before # NoBooks /\ (InTx(d) => d = c)
  BY DEF IInv, OneTx
<1> QED
  BY <1>1
  DEF Step, BeginReservation, RetryReservation, Query, AddCustomer, Reserve,
      EndReservation, BeginDelete, DeleteCustomer, BeginUpdate, AddItem,
      DeleteItem, EndUpdate, CancelItem, TxAbort, TxBegin, InTx

\* A client that is not inside a transaction stays where it is while
\* another takes a step.
LEMMA OthersStay ==
  ASSUME IInv, NEW c \in Clients, NEW d \in Clients, c # d, Step(d)
  PROVE  pc'[c] = pc[c]
BY DEF IInv, LocalsOK, Step, BeginReservation, RetryReservation, Query,
       AddCustomer, Reserve, EndReservation, BeginDelete, DeleteCustomer,
       BeginUpdate, AddItem, DeleteItem, EndUpdate, CancelItem, TxAbort,
       TxBegin, TxEnd, Goto, locals

LEMMA PriceType ==
  ASSUME tables \in Books, NEW it \in Items
  PROVE  /\ PriceOf(it) \in Int
         /\ Exists(it) => PriceOf(it) = table[it].price /\ PriceOf(it) >= 0
         /\ ~Exists(it) => PriceOf(it) = -1
<1>1. Exists(it) => table[it] \in Reservation
  BY DEF Exists, Books, tables
<1>2. Exists(it) => table[it].price \in Prices
  BY <1>1 DEF Reservation
<1>3. Exists(it) => table[it].price \in Nat
  BY <1>2, VacationAssumption
<1>4. CASE Exists(it)
  <2>1. PriceOf(it) = table[it].price
    BY <1>4 DEF PriceOf
  <2> QED
    BY <1>3, <1>4, <2>1
<1>5. CASE ~Exists(it)
  <2>1. PriceOf(it) = -1
    BY <1>5 DEF PriceOf
  <2> QED
    BY <1>5, <2>1
<1> QED
  BY <1>4, <1>5

\* One more query.
LEMMA QuerySearches ==
  ASSUME IInv, NEW c \in Clients, Searches(c), Query(c)
  PROVE  Searches(c)'
<1> DEFINE it == queries[c][n[c]]
           ty == TypeOf[it]
<1>1. /\ n[c] \in Nat \ {0} /\ queries[c] \in Seq(Items)
      /\ Len(queries[c]) \in Nat /\ n[c] <= Len(queries[c])
      /\ maxIds \in [Clients -> [Types -> Items \cup {NoItem}]]
      /\ maxPrices \in [Clients -> [Types -> Prices \cup {-1}]]
      /\ tables \in Books
  BY DEF Query, IInv, LocalsOK, GoodBooks
<1>2. n[c] \in 1 .. Len(queries[c])
  BY <1>1
<1>3. it \in Items /\ ty \in Types /\ it # NoItem
  BY <1>1, <1>2, VacationAssumption
<1>4. /\ n'[c] = n[c] + 1 /\ queries' = queries /\ retried' = retried
      /\ table' = table
  BY DEF Query, IInv, LocalsOK, tables
<1>5. n'[c] - 1 <= Len(queries'[c])
  BY <1>1, <1>4
<1>6. ASSUME ~retried[c]
      PROVE  BestSoFar(c)'
  <2>1. BestSoFar(c)
    BY <1>6 DEF Searches
  <2> SUFFICES ASSUME NEW t \in Types
               PROVE  /\ maxIds'[c][t] = NoItem => maxPrices'[c][t] = -1
                      /\ maxIds'[c][t] # NoItem =>
                             /\ \E k \in 1 .. n[c] :
                                    queries[c][k] = maxIds'[c][t]
                             /\ TypeOf[maxIds'[c][t]] = t
                             /\ Exists(maxIds'[c][t])
                             /\ maxPrices'[c][t] = table[maxIds'[c][t]].price
                      /\ \A k \in 1 .. n[c] :
                             TypeOf[queries[c][k]] = t =>
                                 PriceOf(queries[c][k]) <= maxPrices'[c][t]
    <3>1. n'[c] - 1 = n[c]
      BY <1>1, <1>4
    <3> QED
      BY <1>4, <3>1 DEF BestSoFar, Exists, PriceOf
  <2>2. /\ n[c] \in 1 .. n[c]
        /\ \A k \in 1 .. n[c] : k \in 1 .. n[c] - 1 \/ k = n[c]
        /\ \A k \in 1 .. n[c] - 1 : k \in 1 .. n[c]
        /\ \A k \in 1 .. n[c] : queries[c][k] \in Items
    <3>1. \A k \in 1 .. n[c] : k \in 1 .. Len(queries[c])
      BY <1>1
    <3> QED
      BY <1>1, <3>1
  <2>3. maxPrices[c][t] \in Int /\ maxPrices[c][t] >= -1
    <3>1. maxPrices[c][t] \in Prices \cup {-1}
      BY <1>1
    <3>2. maxPrices[c][t] \in Nat \/ maxPrices[c][t] = -1
      BY <3>1, VacationAssumption
    <3> QED
      BY <3>2
  <2>4. PriceOf(it) \in Int
        /\ \A k \in 1 .. n[c] : PriceOf(queries[c][k]) \in Int
    BY <1>1, <1>3, <2>2, PriceType
  <2> HIDE DEF it, ty
  <2>5. CASE t # ty \/ ~(PriceOf(it) > maxPrices[c][ty])
    <3>1. maxIds'[c][t] = maxIds[c][t] /\ maxPrices'[c][t] = maxPrices[c][t]
      <4>1. CASE /\ maxPrices' = [maxPrices EXCEPT ![c][ty] = PriceOf(it)]
                 /\ maxIds' = [maxIds EXCEPT ![c][ty] = it]
                 /\ PriceOf(it) > maxPrices[c][ty]
        BY <1>1, <2>5, <4>1
      <4> QED
        BY <4>1 DEF Query, it, ty
    <3>2. TypeOf[queries[c][n[c]]] = t => PriceOf(queries[c][n[c]]) <= maxPrices[c][t]
      BY <2>3, <2>4, <2>5 DEF it, ty
    <3> QED
      BY <2>1, <2>2, <3>1, <3>2 DEF BestSoFar
  <2>6. CASE t = ty /\ PriceOf(it) > maxPrices[c][ty]
    <3>1. maxIds'[c][t] = it /\ maxPrices'[c][t] = PriceOf(it)
      BY <1>1, <2>6 DEF Query, it, ty
    <3>2. Exists(it) /\ PriceOf(it) = table[it].price
      BY <1>1, <1>3, <2>3, <2>6, PriceType
    <3>3. ASSUME NEW k \in 1 .. n[c], TypeOf[queries[c][k]] = t
          PROVE  PriceOf(queries[c][k]) <= PriceOf(it)
      <4>1. CASE k = n[c]
        BY <2>4, <4>1 DEF it
      <4>2. CASE k \in 1 .. n[c] - 1
        <5>1. PriceOf(queries[c][k]) <= maxPrices[c][t]
          BY <2>1, <3>3, <4>2 DEF BestSoFar
        <5> QED
          BY <2>3, <2>4, <2>6, <5>1
      <4> QED
        BY <2>2, <4>1, <4>2
    <3>4. queries[c][n[c]] = it /\ TypeOf[it] = t
      BY <2>6 DEF it, ty
    <3> QED
      BY <1>3, <2>2, <3>1, <3>2, <3>3, <3>4
  <2> QED
    BY <2>5, <2>6
<1> QED
  BY <1>4, <1>5, <1>6 DEF Searches

\* The loop is done: what was found so far is the best there is.
LEMMA FoundBest ==
  ASSUME IInv, NEW c \in Clients, Searches(c), ~retried[c],
         n[c] > Len(queries[c])
  PROVE  Best(c)
<1>1. /\ n[c] \in Nat \ {0} /\ Len(queries[c]) \in Nat
      /\ queries[c] \in Seq(Items) /\ tables \in Books
      /\ maxPrices \in [Clients -> [Types -> Prices \cup {-1}]]
  BY DEF IInv, LocalsOK, GoodBooks
<1>2. n[c] - 1 = Len(queries[c]) /\ BestSoFar(c)
  <2>1. n[c] - 1 <= Len(queries[c]) /\ BestSoFar(c)
    BY Zenon DEF Searches
  <2>2. \A j, k \in Nat : j > k /\ j - 1 <= k => j - 1 = k
    OBVIOUS
  <2>3. n[c] \in Nat /\ n[c] > Len(queries[c])
    BY <1>1
  <2> QED
    BY <1>1, <2>1, <2>2, <2>3, Zenon
<1> SUFFICES ASSUME NEW t \in Types
             PROVE  LET there == {it \in Asked(c, t) : Exists(it)}
                    IN IF there = {} THEN maxIds[c][t] = NoItem
                       ELSE /\ maxIds[c][t] \in there
                            /\ \A it \in there : table[it].price <=
                                   table[maxIds[c][t]].price
  BY DEF Best
<1> DEFINE there == {it \in Asked(c, t) : Exists(it)}
<1>3. maxIds[c][t] # NoItem => maxIds[c][t] \in there
  BY <1>2 DEF BestSoFar, Asked
<1>4. ASSUME NEW it \in there
      PROVE  /\ maxIds[c][t] # NoItem
             /\ table[it].price <= table[maxIds[c][t]].price
  <2>1. PICK k \in 1 .. Len(queries[c]) :
            queries[c][k] = it /\ TypeOf[it] = t
    BY <1>4 DEF Asked
  <2>2. it \in Items /\ Exists(it)
    BY <1>1, <1>4, <2>1
  <2>3. PriceOf(it) = table[it].price /\ PriceOf(it) \in Int /\ PriceOf(it) >= 0
    BY <1>1, <2>2, PriceType
  <2>4. PriceOf(it) <= maxPrices[c][t]
    BY <1>2, <2>1 DEF BestSoFar
  <2>5. maxPrices[c][t] # -1
    BY <2>3, <2>4
  <2> QED
    BY <1>2, <2>3, <2>4, <2>5 DEF BestSoFar
<1> QED
  BY <1>3, <1>4

\* A step of c itself.
LEMMA OwnChoice ==
  ASSUME CInv, NEW c \in Clients, Step(c)
  PROVE  ChoiceOK(c)'
<1>1. IInv /\ ChoiceOK(c) /\ pc[c] \in {"idle", "query", "reserve", "delete",
                                        "update", "retry"}
      /\ n[c] \in Nat \ {0} /\ Len(queries[c]) \in Nat
  BY DEF CInv, IInv, LocalsOK
<1>2. ASSUME NEW cu \in Customers, NEW qs \in Lists,
             BeginReservation(c, cu, qs)
      PROVE  ChoiceOK(c)'
  <2>1. /\ pc'[c] = "query" /\ n'[c] = 1 /\ Len(queries'[c]) \in Nat
        /\ \A t \in Types : maxIds'[c][t] = NoItem /\ maxPrices'[c][t] = -1
    <3>1. qs \in Seq(Items)
      BY VacationAssumption DEF Lists
    <3> QED
      BY <1>2, <3>1
      DEF CInv, IInv, LocalsOK, BeginReservation, TxBegin, Goto
  <2>2. BestSoFar(c)' /\ n'[c] - 1 <= Len(queries'[c])
    BY <2>1 DEF BestSoFar
  <2> QED
    BY <2>1, <2>2 DEF ChoiceOK, Searches, Chosen
<1>3. CASE RetryReservation(c)
  <2>1. /\ pc'[c] = "query" /\ n'[c] = 1 /\ queries' = queries /\ retried'[c]
    BY <1>3 DEF CInv, IInv, LocalsOK, RetryReservation, TxBegin, Goto
  <2> QED
    BY <1>1, <2>1 DEF ChoiceOK, Searches, Chosen
<1>4. CASE Query(c)
  <2>1. pc[c] = "query" /\ pc' = pc
    BY <1>4 DEF Query
  <2>2. Searches(c)'
    BY <1>1, <1>4, <2>1, QuerySearches DEF ChoiceOK
  <2> QED
    BY <2>1, <2>2 DEF ChoiceOK, Chosen
<1>5. CASE AddCustomer(c)
  <2>1. /\ pc[c] = "query" /\ pc'[c] = "reserve" /\ n[c] > Len(queries[c])
        /\ UNCHANGED <<table, queries, maxIds, retried>>
    BY <1>5
    DEF CInv, IInv, LocalsOK, AddCustomer, Goto, manager_addCustomer, tables
  <2>2. ~retried[c] => Best(c)
    BY <1>1, <2>1, FoundBest DEF ChoiceOK
  <2>3. Best(c) => Best(c)'
    BY <2>1 DEF Best, Asked, Exists
  <2> QED
    BY <2>1, <2>2, <2>3 DEF ChoiceOK
<1>6. CASE Reserve(c)
  <2>1. pc'[c] = "reserve" /\ n'[c] # 1
    BY <1>1, <1>6 DEF CInv, IInv, LocalsOK, Reserve
  <2> QED
    BY <2>1 DEF ChoiceOK, Chosen
<1>7. CASE \/ EndReservation(c) \/ DeleteCustomer(c) \/ BeginUpdate(c)
           \/ EndUpdate(c) \/ TxAbort(c)
           \/ \E cu \in Customers : BeginDelete(c, cu)
           \/ \E it \in Items, price \in Offers : AddItem(c, it, price)
           \/ \E it \in Items : DeleteItem(c, it)
           \/ \E cu \in Customers, it \in Items : CancelItem(c, cu, it)
  <2>1. pc'[c] \notin {"query", "reserve"}
    BY <1>7
    DEF CInv, IInv, LocalsOK, EndReservation, DeleteCustomer, BeginUpdate,
        EndUpdate, TxAbort, BeginDelete, AddItem, DeleteItem, CancelItem,
        TxBegin, TxEnd, Goto
  <2> QED
    BY <2>1 DEF ChoiceOK, Chosen
<1> QED
  BY <1>2, <1>3, <1>4, <1>5, <1>6, <1>7 DEF Step

LEMMA NextCInv ==
  ASSUME CInv, [Next]_vars
  PROVE  CInv'
<1>1. IInv'
  BY NextIInv DEF CInv
<1>2. ASSUME NEW d \in Clients, Step(d), NEW c \in Clients
      PROVE  ChoiceOK(c)'
  <2>1. CASE c = d
    BY <1>2, <2>1, OwnChoice
  <2>2. CASE c # d
    <3>1. ~InTx(c) /\ pc'[c] = pc[c]
      BY <1>2, <2>2, LoneStep, OthersStay DEF CInv
    <3> QED
      BY <3>1 DEF InTx, ChoiceOK, Chosen
  <2> QED
    BY <2>1, <2>2
<1>3. CASE UNCHANGED vars
  <2>1. UNCHANGED <<table, pc, n, queries, maxIds, maxPrices, retried>>
    BY <1>3 DEF vars, tables, locals
  <2> QED
    BY <1>1, <2>1, SMTT(30) DEF CInv, ChoiceOK, Chosen, Searches, BestSoFar, Best,
                      Asked, Exists, PriceOf
<1> QED
  BY <1>1, <1>2, <1>3 DEF CInv, Next

\* At a first attempt a client reserves the dearest of the items it asked
\* for, whatever the other clients do in between.
THEOREM FirstChoiceBest == Spec => []BestAtFirst
<1>1. Init => CInv
  BY InitGood DEF CInv, ChoiceOK, Chosen, Init, NothingDone
<1>2. CInv /\ [Next]_vars => CInv'
  BY NextCInv
<1>3. CInv => BestAtFirst
  BY DEF CInv, ChoiceOK, BestAtFirst
<1> QED
  BY <1>1, <1>2, <1>3, PTL DEF Spec

-----------------------------------------------------------------------------
(* The whole program *)

\* What initializeManager has not come to is not there.
NotYetThere ==
    phase = "populate" =>
        /\ \A it \in Items : it \in itemsLeft => ~Exists(it)
        /\ \A cu \in Customers : cu \in customersLeft => cu \notin customers

\* What checkTables rests on while it takes the books apart: the entries that
\* are left are consistent, and the items go when no customer is left.
WhatIsLeft ==
    /\ \A it \in Items : Exists(it) => Consistent(table[it])
    /\ customers # {} => ItemsBalance
    /\ phase \in {"check", "done"} => customers \subseteq customersLeft

PInv ==
    /\ tables \in Books /\ LocalsOK /\ OneTx
    /\ NotYetThere /\ NoAssertFails
    /\ BooksBalanceForClients /\ WhatIsLeft

\* Until checkTables begins to take the books apart, all of IInv holds.
LEMMA WholeBooks == PInv /\ ~Dismantling => IInv
BY DEF PInv, IInv, GoodBooks, BooksBalanceForClients, BooksBalance, tables

\* Empty tables are good books.
LEMMA ProgramInitGood == ProgramInit => PInv
<1> SUFFICES ASSUME ProgramInit PROVE PInv
  OBVIOUS
<1>1. /\ table = [it \in Items |-> NoReservation] /\ customers = {}
      /\ holds = [cu \in Customers |-> NothingHeld]
  BY DEF ProgramInit, ProgramStart, NothingDone
<1>2. tables \in Books
  BY <1>1 DEF tables, Books, NothingHeld
<1>3. Balanced(table, customers, holds)
  BY <1>1 DEF Balanced, Holders, NothingHeld
<1>4. LocalsOK
  BY DEF ProgramInit, ProgramStart, NothingDone, LocalsOK, InReservation
<1>5. OneTx
  BY DEF ProgramInit, ProgramStart, NothingDone, OneTx, InTx
<1>6. NotYetThere /\ NoAssertFails
  BY <1>1 DEF ProgramInit, ProgramStart, NotYetThere, NoAssertFails, Exists
<1>7. BooksBalanceForClients
  BY <1>3 DEF BooksBalanceForClients, BooksBalance
<1>8. WhatIsLeft
  BY <1>1 DEF WhatIsLeft, Exists
<1> QED
  BY <1>2, <1>4, <1>5, <1>6, <1>7, <1>8 DEF PInv

\* What the sequential parts do to the tables leaves the clients alone.
LEMMA OnlyTables ==
  ASSUME LocalsOK, OneTx, UNCHANGED <<before, pc, locals>>
  PROVE  LocalsOK' /\ OneTx'
<1>1. LocalsOK'
  BY DEF LocalsOK, InReservation, locals
<1>2. OneTx'
  BY DEF OneTx, InTx
<1> QED
  BY <1>1, <1>2

\* A consistent entry passes checkTables.
LEMMA EntryAccepted ==
  ASSUME tables \in Books, NEW it \in Items, Exists(it), Consistent(table[it])
  PROVE  Accepts(it, 0, 0)
<1>1. table[it] \in Reservation
  BY DEF Books, tables, Exists
<1>2. /\ table[it].numUsed \in Nat /\ table[it].numFree \in Nat
      /\ table[it].numTotal \in Nat /\ table[it].numTotal > 0
      /\ table[it].numUsed + table[it].numFree = table[it].numTotal
  BY <1>1 DEF Reservation, Consistent
<1>3. /\ Resized(table[it], 0, 0).numUsed = table[it].numUsed
      /\ Resized(table[it], 0, 0).numFree = table[it].numFree + 0
      /\ Resized(table[it], 0, 0).numTotal = table[it].numTotal + 0
      /\ Resized(table[it], 0, 0).price = 0
  BY <1>1 DEF Resized, Priced, Reservation
<1> QED
  BY <1>2, <1>3 DEF Accepts, Sound

-----------------------------------------------------------------------------
LEMMA ProgramNextPInv ==
  ASSUME PInv, [ProgramNext]_<<vars, main>>
  PROVE  PInv'
<1>0. /\ tables \in Books /\ LocalsOK /\ OneTx
      /\ NotYetThere /\ NoAssertFails /\ WhatIsLeft
      /\ ~Dismantling => IInv
  BY WholeBooks DEF PInv
\* As long as nothing has been taken out, good books are enough.
<1>1. ASSUME IInv', NotYetThere', NoAssertFails',
             phase' \notin {"check", "done"}
      PROVE  PInv'
  <2>1. /\ tables' \in Books /\ LocalsOK' /\ OneTx'
        /\ Balanced(table', customers', holds')
    BY <1>1 DEF IInv, GoodBooks, tables
  <2>2. BooksBalanceForClients'
    BY <2>1 DEF BooksBalanceForClients, BooksBalance
  <2>3. /\ ItemsBalance'
        /\ \A it \in Items : Exists(it)' => Consistent(table'[it])
    BY <2>1 DEF Balanced, ItemsBalance, Exists
  <2>4. WhatIsLeft'
    BY <1>1, <2>3 DEF WhatIsLeft
  <2> QED
    BY <1>1, <2>1, <2>2, <2>4 DEF PInv
<1>2. ASSUME NEW it \in Items, NEW k \in 1 .. MaxTotal \div Batch,
             NEW price \in Offers, PopulateItem(it, k * Batch, price)
      PROVE  PInv'
  <2>1. k * Batch \in Int /\ k * Batch >= 1 /\ price \in Prices /\ price >= 0
    BY VacationAssumption
  <2>2. ~Exists(it) /\ phase = "populate" /\ IInv
    BY <1>0, <1>2 DEF NotYetThere, PopulateItem, Dismantling
  <2>3. Accepts(it, k * Batch, price)
    BY <2>1, <2>2 DEF Accepts
  <2>4. /\ addReservation(it, k * Batch, price)
        /\ itemsLeft' = itemsLeft \ {it}
        /\ UNCHANGED <<phase, customersLeft, before, pc, locals>>
    BY <1>2, <2>3 DEF PopulateItem
  <2>5. IInv'
    <3>1. GoodBooks(tables')
      BY <2>1, <2>2, <2>4, AddReservationGood DEF IInv
    <3> QED
      BY <1>0, <2>4, <3>1, OnlyTables DEF IInv
  <2>6. /\ customers' = customers
        /\ \A other \in Items : other # it => table'[other] = table[other]
    BY <1>0, <2>4 DEF addReservation, Books, tables
  <2>7. NotYetThere' /\ NoAssertFails'
    BY <1>0, <2>4, <2>6 DEF NotYetThere, NoAssertFails, Exists
  <2> QED
    BY <1>1, <2>2, <2>4, <2>5, <2>7
<1>3. ASSUME NEW cu \in Customers, PopulateCustomer(cu)
      PROVE  PInv'
  <2>1. cu \notin customers /\ phase = "populate" /\ IInv
    BY <1>0, <1>3 DEF NotYetThere, PopulateCustomer, Dismantling
  <2>2. /\ manager_addCustomer(cu)
        /\ customersLeft' = customersLeft \ {cu}
        /\ UNCHANGED <<phase, itemsLeft, before, pc, locals>>
    BY <1>3, <2>1 DEF PopulateCustomer
  <2>3. IInv'
    <3>1. GoodBooks(tables')
      BY <2>1, <2>2, AddCustomerGood DEF IInv
    <3> QED
      BY <1>0, <2>2, <3>1, OnlyTables DEF IInv
  <2>4. NotYetThere' /\ NoAssertFails'
    BY <1>0, <2>2
    DEF NotYetThere, NoAssertFails, Exists, manager_addCustomer
  <2> QED
    BY <1>1, <2>1, <2>2, <2>3, <2>4
<1>4. CASE Run
  <2>1. IInv' /\ phase' = "run"
    BY <1>0, <1>4, NextIInv DEF Run, Dismantling, main
  <2>2. NotYetThere' /\ NoAssertFails'
    BY <1>0, <1>4 DEF Run, main, NotYetThere, NoAssertFails
  <2> QED
    BY <1>1, <2>1, <2>2
<1>5. ASSUME UNCHANGED vars,
             \/ UNCHANGED main
             \/ phase = "populate" /\ phase' = "run"
             \/ /\ phase = "run" /\ phase' = "check"
                /\ itemsLeft' = Items /\ customersLeft' = Customers
             \/ /\ phase = "check" /\ phase' = "done"
                /\ UNCHANGED <<itemsLeft, customersLeft>>
      PROVE  PInv'
  <2>1. UNCHANGED <<table, customers, holds, before, pc, locals>>
    BY <1>5 DEF vars, tables
  <2>2. tables' \in Books /\ LocalsOK' /\ OneTx'
    BY <1>0, <2>1, OnlyTables DEF tables
  <2>3. NotYetThere' /\ NoAssertFails'
    BY <1>0, <1>5, <2>1 DEF NotYetThere, NoAssertFails, Exists, main
  <2>4. Dismantling => Dismantling'
    BY <1>5 DEF Dismantling, main
  <2>5. BooksBalanceForClients'
    <3>1. Dismantling \/ BooksBalance
      BY DEF PInv, BooksBalanceForClients
    <3>2. BooksBalance => BooksBalance'
      BY <2>1 DEF BooksBalance, Balanced
    <3> QED
      BY <2>4, <3>1, <3>2 DEF BooksBalanceForClients
  <2>6. phase' \in {"check", "done"} => customers' \subseteq customersLeft'
    BY <1>0, <1>5, <2>1 DEF WhatIsLeft, main, Books, tables
  <2>7. WhatIsLeft'
    BY <1>0, <2>1, <2>6 DEF WhatIsLeft, ItemsBalance, Exists
  <2> QED
    BY <2>2, <2>3, <2>5, <2>7 DEF PInv
<1>6. ASSUME NEW cu \in Customers, CheckCustomer(cu)
      PROVE  PInv'
  <2>1. /\ phase = "check" /\ customers' = customers \ {cu}
        /\ customersLeft' = customersLeft \ {cu}
        /\ UNCHANGED <<table, holds, before, pc, locals, phase, itemsLeft>>
    BY <1>6 DEF CheckCustomer
  <2>2. tables' \in Books /\ LocalsOK' /\ OneTx'
    BY <1>0, <2>1, OnlyTables DEF Books, tables
  <2>3. NotYetThere' /\ NoAssertFails'
    BY <2>1 DEF NotYetThere, NoAssertFails
  <2>4. Dismantling'
    BY <2>1 DEF Dismantling
  <2>5. WhatIsLeft'
    BY <1>0, <2>1 DEF WhatIsLeft, ItemsBalance, Exists
  <2> QED
    BY <2>2, <2>3, <2>4, <2>5 DEF PInv, BooksBalanceForClients
<1>7. ASSUME NEW it \in Items, CheckItem(it)
      PROVE  PInv'
  <2>1. Exists(it) => Accepts(it, 0, 0)
    BY <1>0, EntryAccepted DEF WhatIsLeft
  <2>2. /\ phase = "check" /\ customersLeft = {}
        /\ table' = [table EXCEPT ![it] = NoReservation]
        /\ itemsLeft' = itemsLeft \ {it}
        /\ UNCHANGED <<customers, holds, before, pc, locals, phase, customersLeft>>
    BY <1>7, <2>1 DEF CheckItem
  <2>3. customers' = {}
    BY <1>0, <2>2 DEF WhatIsLeft
  <2>4. tables' \in Books /\ LocalsOK' /\ OneTx'
    BY <1>0, <2>2, OnlyTables DEF Books, tables
  <2>5. NotYetThere' /\ NoAssertFails'
    BY <2>2 DEF NotYetThere, NoAssertFails
  <2>6. Dismantling'
    BY <2>2 DEF Dismantling
  <2>7. \A other \in Items : table'[other] \in {table[other], NoReservation}
    BY <1>0, <2>2 DEF Books, tables
  <2>8. WhatIsLeft'
    BY <1>0, <2>3, <2>7 DEF WhatIsLeft, Exists
  <2> QED
    BY <2>4, <2>5, <2>6, <2>8 DEF PInv, BooksBalanceForClients
<1>8. CASE StartClients
  BY <1>5, <1>8 DEF StartClients
<1>9. CASE JoinClients
  BY <1>5, <1>9 DEF JoinClients
<1>10. CASE Shutdown
  BY <1>5, <1>10 DEF Shutdown
<1>11. CASE UNCHANGED <<vars, main>>
  BY <1>5, <1>11
<1> QED
  BY <1>2, <1>3, <1>4, <1>6, <1>7, <1>8, <1>9, <1>10, <1>11
  DEF ProgramNext, Ended

LEMMA ProgramInductive == ProgramSpec => []PInv
BY ProgramInitGood, ProgramNextPInv, PTL DEF ProgramSpec

\* No assertion of initializeManager and checkTables fails, whatever the
\* clients did and whichever of their transactions were aborted.
THEOREM ProgramAssertsHold == ProgramSpec => []NoAssertFails
<1>1. PInv => NoAssertFails
  BY DEF PInv
<1> QED
  BY ProgramInductive, <1>1, PTL

\* The books balance from the first entry initializeManager makes until
\* checkTables takes the first one out.
THEOREM ProgramBooksBalance == ProgramSpec => []BooksBalanceForClients
<1>1. PInv => BooksBalanceForClients
  BY DEF PInv
<1> QED
  BY ProgramInductive, <1>1, PTL

\* No customer is ever on the books whom manager_deleteCustomer could not
\* delete, not even while checkTables takes the customers out.
THEOREM ProgramDeletes == ProgramSpec => []DeletionPossible
<1>1. PInv => DeletionPossible
  BY CanAlwaysDelete DEF PInv, WhatIsLeft
<1> QED
  BY ProgramInductive, <1>1, PTL

\* Only between StartClients and JoinClients is a client at work.
Sequential == phase # "run" => \A c \in Clients : pc[c] = "idle"

ChoiceInv == PInv /\ (\A c \in Clients : ChoiceOK(c)) /\ Sequential

LEMMA ProgramNextChoiceInv ==
  ASSUME ChoiceInv, [ProgramNext]_<<vars, main>>
  PROVE  ChoiceInv'
<1>1. PInv'
  BY ProgramNextPInv DEF ChoiceInv
<1>2. CASE Run
  <2>1. CInv
    BY <1>2, WholeBooks DEF ChoiceInv, CInv, Run, Dismantling
  <2>2. CInv' /\ Sequential'
    BY <1>2, <2>1, NextCInv DEF Run, main, Sequential
  <2> QED
    BY <1>1, <2>2 DEF ChoiceInv, CInv
<1>3. CASE UNCHANGED <<vars, main>>
  BY <1>1, <1>3, SMTT(30)
  DEF ChoiceInv, ChoiceOK, Searches, BestSoFar, PriceOf, Chosen, Best, Asked,
      Exists, Sequential, vars, tables, locals, main
\* Everything else happens while no client is at work.
<1>4. CASE pc' = pc /\ \A c \in Clients : pc[c] = "idle"
  BY <1>1, <1>4 DEF ChoiceInv, ChoiceOK, Chosen, Sequential
<1>5. ASSUME ProgramNext, ~Run, ~UNCHANGED <<vars, main>>
      PROVE  pc' = pc /\ \A c \in Clients : pc[c] = "idle"
  <2>1. pc' = pc
    BY <1>5
    DEF ProgramNext, PopulateItem, PopulateCustomer, StartClients, JoinClients,
        CheckCustomer, CheckItem, Shutdown, Ended, vars
  <2>2. phase # "run" \/ \A c \in Clients : pc[c] = "idle"
    BY <1>5
    DEF ProgramNext, PopulateItem, PopulateCustomer, StartClients, JoinClients,
        CheckCustomer, CheckItem, Shutdown, Ended
  <2> QED
    BY <2>1, <2>2 DEF ChoiceInv, Sequential
<1> QED
  BY <1>2, <1>3, <1>4, <1>5

\* In the whole program, too, a client reserves the dearest at its first
\* attempt.
THEOREM ProgramChoosesBest == ProgramSpec => []BestAtFirst
<1>1. ProgramInit => ChoiceInv
  BY ProgramInitGood
  DEF ChoiceInv, ChoiceOK, Chosen, Sequential, ProgramInit, ProgramStart,
      NothingDone
<1>2. ChoiceInv /\ [ProgramNext]_<<vars, main>> => ChoiceInv'
  BY ProgramNextChoiceInv
<1>3. ChoiceInv => BestAtFirst
  BY DEF ChoiceInv, ChoiceOK, BestAtFirst
<1> QED
  BY <1>1, <1>2, <1>3, PTL DEF ProgramSpec
=============================================================================
