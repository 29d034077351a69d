----------------------------- MODULE Rendezvous -----------------------------
(***************************************************************************)
(* What a barrier promises ("Synchronizes all threads to start/stop        *)
(* parallel section", lib/thread.c): nobody leaves it for the k-th time    *)
(* before everybody has entered it for the k-th time.                      *)
(***************************************************************************)
EXTENDS Naturals

CONSTANT Threads

VARIABLES entered, left   \* how often each thread has

vars == <<entered, left>>

Init ==
    /\ entered = [t \in Threads |-> 0]
    /\ left = [t \in Threads |-> 0]

Enter(t) ==
    /\ entered[t] = left[t]
    /\ entered' = [entered EXCEPT ![t] = @ + 1]
    /\ UNCHANGED left

Leave(t) ==
    /\ left[t] < entered[t]
    /\ \A u \in Threads : entered[u] >= entered[t]
    /\ left' = [left EXCEPT ![t] = @ + 1]
    /\ UNCHANGED entered

Next == \E t \in Threads : Enter(t) \/ Leave(t)

Spec == Init /\ [][Next]_vars
=============================================================================
