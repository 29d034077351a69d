----------------------------- MODULE MemoryPool -----------------------------
(***************************************************************************)
(* The per-thread memory pools of lib/memory.c: blocks that are filled     *)
(* from the front, a new one when the current one has no room, never       *)
(* returned one by one.  Addresses are offsets into a block's contents,    *)
(* which malloc aligns.  A request whose malloc fails changes nothing and  *)
(* is no step here.                                                        *)
(***************************************************************************)
EXTENDS Integers, Sequences

CONSTANTS
    PoolThreads,    \* thread ids
    InitCapacity,   \* initBlockCapacity, the default already in place of 0
    GrowthFactor,   \* blockGrowthFactor, likewise
    Requests,       \* the sizes asked for
    MaxBlocks       \* bound: blocks of a pool

ASSUME PoolAssumption ==
    /\ InitCapacity \in Nat \ {0}
    /\ GrowthFactor \in Nat \ {0}
    /\ Requests \subseteq Nat
    /\ MaxBlocks \in Nat \ {0}

VARIABLES
    pools,   \* per thread: the blocks, current one last, and nextCapacity
    chunks   \* history: what was handed out, per thread

poolVars == <<pools, chunks>>

allocBlock(capacity) == [size |-> 0, capacity |-> capacity]

allocPool ==
    [blocks |-> <<allocBlock(InitCapacity)>>,
     nextCapacity |-> InitCapacity * GrowthFactor]

memory_init ==
    /\ pools = [t \in PoolThreads |-> allocPool]
    /\ chunks = [t \in PoolThreads |-> {}]

Current(p) == p.blocks[Len(p.blocks)]

\* The request not looked at.
BadAddBlock(p, numByte) ==
    [blocks |-> Append(p.blocks, allocBlock(p.nextCapacity)),
     nextCapacity |-> p.nextCapacity * GrowthFactor]

addBlockToPool(p, numByte) ==
    LET capacity == IF numByte > p.nextCapacity THEN numByte * GrowthFactor
                    ELSE p.nextCapacity
    IN [blocks |-> Append(p.blocks, allocBlock(capacity)),
        nextCapacity |-> capacity * GrowthFactor]

\* The pool with room for the request in its current block.
PoolWithRoom(p, numByte) ==
    IF Current(p).size + numByte > Current(p).capacity
    THEN addBlockToPool(p, numByte) ELSE p

Aligned(addr) == IF addr % 8 = 0 THEN addr ELSE addr + (8 - (addr % 8))

\* memory_destroy has not been called.
Usable(t) == pools[t].blocks # << >>

\* The seven bytes for the alignment forgotten.
BadMemoryGet(t, numByte) ==
    LET p == PoolWithRoom(pools[t], numByte)
        b == Len(p.blocks)
    IN /\ Usable(t) /\ b <= MaxBlocks
       /\ pools' = [pools EXCEPT
              ![t] = [p EXCEPT !.blocks[b].size = @ + numByte]]
       /\ chunks' = [chunks EXCEPT ![t] = @ \cup
              {[block |-> b, from |-> Aligned(Current(p).size),
                bytes |-> numByte]}]

memory_get(t, numByte) ==
    LET p == PoolWithRoom(pools[t], numByte + 7)
        b == Len(p.blocks)
    IN /\ Usable(t) /\ b <= MaxBlocks
       /\ pools' = [pools EXCEPT
              ![t] = [p EXCEPT !.blocks[b].size = @ + numByte + 7]]
       /\ chunks' = [chunks EXCEPT ![t] = @ \cup
              {[block |-> b, from |-> Aligned(Current(p).size),
                bytes |-> numByte]}]

\* freeBlocks, then the pool itself.
freePool == [blocks |-> << >>, nextCapacity |-> 0]

\* Nobody may use a chunk after this.
memory_destroy ==
    /\ \A t \in PoolThreads : Usable(t)
    /\ pools' = [t \in PoolThreads |-> freePool]
    /\ chunks' = [t \in PoolThreads |-> {}]

\* Nothing is left to hand out, or nothing left.
PoolsSpent ==
    /\ \A t \in PoolThreads, r \in Requests :
           Usable(t) => Len(PoolWithRoom(pools[t], r + 7).blocks) > MaxBlocks
    /\ UNCHANGED poolVars

PoolNext ==
    \/ \E t \in PoolThreads, r \in Requests : memory_get(t, r)
    \/ memory_destroy \/ PoolsSpent

PoolSpec == memory_init /\ [][PoolNext]_poolVars

-----------------------------------------------------------------------------
\* The assertion of getMemoryFromBlock, for every block there is: no block
\* is filled beyond its capacity, also not by a request larger than any
\* block so far.
BlocksWithinCapacity ==
    \A t \in PoolThreads : \A b \in 1 .. Len(pools[t].blocks) :
        pools[t].blocks[b].size \in 0 .. pools[t].blocks[b].capacity

\* What is handed out is aligned, lies within the part of its block that is
\* taken, and shares no byte with anything handed out before.
ChunksApart ==
    \A t \in PoolThreads : \A c \in chunks[t] :
        /\ c.from % 8 = 0
        /\ c.block \in 1 .. Len(pools[t].blocks)
        /\ c.from + c.bytes <= pools[t].blocks[c.block].size
        /\ \A d \in chunks[t] :
               c = d \/ c.block # d.block
                     \/ c.from + c.bytes <= d.from
                     \/ d.from + d.bytes <= c.from
=============================================================================
