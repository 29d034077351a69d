CONSTANTS
    c1 = c1
    c2 = c2
    anna = anna
    ben = ben
    Clients = {c1, c2}
    Items <- TwoFlightsAndACar
    TypeOf <- MCTypeOf
    Customers = {anna, ben}
    Prices = {1, 2}
    Offers = {1, 2}
    Batch = 1
    NumQuery = 2
    MaxTotal = 2
    NoReservation = NoReservation
    NoInfo = NoInfo
    NoItem = NoItem
    NoCustomer = NoCustomer
    NoBooks = NoBooks
SYMMETRY Symmetry
SPECIFICATION MCSpec
INVARIANTS TypeOK BooksBalanceForClients DeletionPossible BestAtFirst NoAssertFails
