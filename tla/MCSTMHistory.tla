---------------------------- MODULE MCSTMHistory ----------------------------
(* Instances of STMHistory for TLC. *)
EXTENDS STMHistory, TLC

CONSTANTS t1, t2, x, y, h

\* Every word has a lock of its own.
MCLockPerWord == [a \in Addrs |-> a]

\* Every word hashes to the same entry of the lock table.
MCOneLock == [a \in Addrs |-> x]

Symmetry == Permutations(Threads)
=============================================================================
