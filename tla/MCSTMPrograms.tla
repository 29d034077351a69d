--------------------------- MODULE MCSTMPrograms ----------------------------
(* Two programs over STMHistory: flat transactions on two static words, and *)
(* nested ones on a block of the heap.                                      *)
EXTENDS STMHistory, TLC

CONSTANTS t1, t2, x, y, h, u, v

\* Every word has a lock of its own.
MCLockPerWord == [a \in Addrs |-> a]

\* The words of the program.
VARIABLE words

Within == /\ live \subseteq words
          /\ \A t \in Threads : /\ target[t] \in words \cup {NoAddr}
                                /\ depth[t] = MaxDepth => words = Heap
          \* One transaction at a time is nested.
          /\ \A s, t \in Threads :
                 depth[s] = MaxDepth /\ depth[t] = MaxDepth => s = t

MCInit ==
    /\ words \in {Addrs \ Heap, Heap}
    /\ HInit /\ Within
    /\ \A a, b \in Addrs \ words : mem[a] = mem[b]

MCNext == UNCHANGED words /\ HNext /\ Within'

MCSpec == MCInit /\ [][MCNext]_<<vars, hvars, words>>

Symmetry ==
    {p @@ q @@ r : p \in Permutations(Threads), q \in Permutations(Addrs \ Heap),
                   r \in Permutations(Vals)}
=============================================================================
