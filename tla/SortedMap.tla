----------------------------- MODULE SortedMap -----------------------------
(* What the containers of keys promise, tree and list alike: a map.        *)
EXTENDS Integers, FiniteSets

CONSTANTS
    Pairs,      \* <<key, value>>: what may be inserted
    Capacity    \* how many keys there is memory for

VARIABLES
    map,      \* from the keys that are there to their values
    call      \* the last call and what it returned

Without(k) == [l \in DOMAIN map \ {k} |-> map[l]]

MapInit == map = << >> /\ call = << >>

\* A key that is there keeps its value.
MapInsert(k, v) ==
    \/ /\ call' = <<"insert", k, v, FALSE>>
       /\ k \in DOMAIN map \/ Cardinality(DOMAIN map) >= Capacity
       /\ UNCHANGED map
    \/ /\ call' = <<"insert", k, v, TRUE>>
       /\ k \notin DOMAIN map /\ Cardinality(DOMAIN map) < Capacity
       /\ map' = [l \in DOMAIN map \cup {k} |-> IF l = k THEN v ELSE map[l]]

MapDelete(k) ==
    \/ /\ call' = <<"delete", k, FALSE>>
       /\ k \notin DOMAIN map /\ UNCHANGED map
    \/ /\ call' = <<"delete", k, TRUE>>
       /\ k \in DOMAIN map /\ map' = Without(k)

MapClear == call' = <<"clear">> /\ map' = << >>

MapNext ==
    \/ \E p \in Pairs : MapInsert(p[1], p[2]) \/ MapDelete(p[1])
    \/ MapClear

MapSpec == MapInit /\ [][MapNext]_<<map, call>>
=============================================================================
