----------------------------- MODULE FifoQueue -----------------------------
(* What a queue promises: first in, first out, whatever it does inside.    *)
EXTENDS Integers, Sequences

CONSTANTS Items, Null

VARIABLES
    items,
    call     \* the last call and what it returned

FifoInit == items = << >> /\ call = << >>

FifoPush(d) == items' = Append(items, d) /\ call' = <<"push", d>>

FifoPop ==
    IF items = << >> THEN call' = <<"pop", Null>> /\ UNCHANGED items
    ELSE call' = <<"pop", Head(items)>> /\ items' = Tail(items)

FifoClear == items' = << >> /\ call' = <<"clear">>

\* Some order of the same items.
FifoShuffle ==
    /\ \E p \in [1 .. Len(items) -> 1 .. Len(items)] :
           /\ \A i, j \in DOMAIN p : p[i] = p[j] => i = j
           /\ items' = [i \in 1 .. Len(items) |-> items[p[i]]]
    /\ call' = <<"shuffle">>

FifoNext ==
    (\E d \in Items : FifoPush(d)) \/ FifoPop \/ FifoClear \/ FifoShuffle

FifoSpec == FifoInit /\ [][FifoNext]_<<items, call>>
=============================================================================
