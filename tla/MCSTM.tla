------------------------------- MODULE MCSTM --------------------------------
(* Instances of the transactional memory for TLC. *)
EXTENDS STMAtomic, TLC

CONSTANTS t1, t2, x, y, h

\* Every word has a lock of its own: the table's index function is injective
\* on the words in use.
MCLockPerWord == [a \in Addrs |-> a]

\* Every word hashes to the same entry of the table.
MCOneLock == [a \in Addrs |-> x]

Symmetry == Permutations(Threads)
=============================================================================
