--------------------------- MODULE PriorityQueue ---------------------------
(* What a heap promises: what is removed is a greatest of what is there.   *)
EXTENDS Integers

CONSTANTS Keys, Null

VARIABLES
    bag,     \* how many of each key there are
    call     \* the last call and what it returned

PrioInit == bag = [k \in Keys |-> 0] /\ call = << >>

PrioInsert(k) ==
    bag' = [bag EXCEPT ![k] = @ + 1] /\ call' = <<"insert", k>>

There == {k \in Keys : bag[k] > 0}

PrioRemove ==
    IF There = {} THEN call' = <<"remove", Null>> /\ UNCHANGED bag
    ELSE \E k \in There :
             /\ \A l \in There : l <= k
             /\ call' = <<"remove", k>>
             /\ bag' = [bag EXCEPT ![k] = @ - 1]

PrioNext == (\E k \in Keys : PrioInsert(k)) \/ PrioRemove

PrioSpec == PrioInit /\ [][PrioNext]_<<bag, call>>
=============================================================================
