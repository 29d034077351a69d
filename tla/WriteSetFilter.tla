--------------------------- MODULE WriteSetFilter ---------------------------
(***************************************************************************)
(* The Bloom filter of lib/BloomFilter.hpp in front of a transaction's     *)
(* write set.  open_for_read and open_for_write scan the write set only    *)
(* when the filter says that it may hold the address; STM.tla takes that   *)
(* two-stage lookup for membership, and this module shows that it is.      *)
(***************************************************************************)
EXTENDS Naturals

CONSTANTS
    Keys,       \* the addresses
    HashA,      \* the halves of MurmurHash3_x64_128 of a key
    HashB,
    NumHashes,  \* numHashes_
    Size,       \* bits_.size()
    WordSize    \* 2^64, where uint64_t wraps

ASSUME FilterAssumption ==
    /\ NumHashes \in Nat
    /\ Size \in Nat \ {0}
    /\ WordSize \in Nat \ {0}
    /\ HashA \in [Keys -> Nat]
    /\ HashB \in [Keys -> Nat]

VARIABLES
    bits,      \* bits_
    writeSet   \* the addresses of the write set

filterVars == <<bits, writeSet>>

Positions == 0 .. Size - 1

nthHash(n, k) == ((HashA[k] + n * HashB[k]) % WordSize) % Size

\* The bits of a key.
Marks(k) == {nthHash(n, k) : n \in 0 .. NumHashes - 1}

\* One hash function more than Add uses.
BadContains(k) == \A n \in 0 .. NumHashes : bits[nthHash(n, k)]

Contains(k) == \A i \in Marks(k) : bits[i]

\* "Is the address logged?": filter first, then the scan.
Lookup(k) == Contains(k) /\ k \in writeSet

FilterInit ==
    /\ bits = [i \in Positions |-> FALSE]
    /\ writeSet = {}

\* open_for_write of an address that is not logged.
Log(k) ==
    /\ ~Lookup(k)
    /\ writeSet' = writeSet \cup {k}
    /\ bits' = [i \in Positions |-> bits[i] \/ i \in Marks(k)]

\* writeSet.clear() and no writeSetFilter.Clear().
BadReset == writeSet' = {} /\ UNCHANGED bits

\* reset()
Reset ==
    /\ writeSet' = {}
    /\ bits' = [i \in Positions |-> FALSE]

FilterNext == (\E k \in Keys : Log(k)) \/ Reset

FilterSpec == FilterInit /\ [][FilterNext]_filterVars

-----------------------------------------------------------------------------
\* The filter holds the marks of the logged addresses and of nothing else:
\* no mark of an earlier transaction survives reset().
BitsOfWriteSet ==
    /\ bits \in [Positions -> BOOLEAN]
    /\ writeSet \subseteq Keys
    /\ \A i \in Positions : bits[i] <=> \E k \in writeSet : i \in Marks(k)

\* No false negative: the filter never hides a logged address from the scan,
\* whatever the hash function does.
LookupExact == \A k \in Keys : Lookup(k) <=> k \in writeSet
=============================================================================
