--------------------------- MODULE ContainerProofs ---------------------------
(***************************************************************************)
(* The memory pools, the queue, the write-set filter, the linked list and  *)
(* the heap, for every size and every content.  The loops of the list and  *)
(* the heap are recursive functions: that such a function exists, and what *)
(* it comes to when an invariant holds and a measure falls, is LoopExists  *)
(* and LoopEnds.                                                           *)
(***************************************************************************)
EXTENDS MemoryPool, Queue, WriteSetFilter, LinkedList, Heap,
        SequenceTheorems, FiniteSetTheorems, FunctionTheorems,
        WellFoundedInduction, TLAPS

-----------------------------------------------------------------------------
(* The memory pools *)

Block == [size : Nat, capacity : Nat]
Chunk == [block : Nat, from : Nat, bytes : Nat]

Fits(bl) == bl.size <= bl.capacity

\* The blocks of a pool are not overfull.
SoundPool(p) ==
    /\ p \in [blocks : Seq(Block), nextCapacity : Nat]
    /\ \A b \in 1 .. Len(p.blocks) : Fits(p.blocks[b])

PoolsSound ==
    /\ pools \in [PoolThreads -> [blocks : Seq(Block), nextCapacity : Nat]]
    /\ chunks \in [PoolThreads -> SUBSET Chunk]
    /\ \A t \in PoolThreads : SoundPool(pools[t])

\* The inductive invariant of the pools: what is asked for next begins
\* behind all chunks of the current block.
PoolInv == PoolsSound /\ ChunksApart

\* Rounding up to a multiple of eight costs at most seven bytes.
LEMMA AlignedUp ==
  ASSUME NEW x \in Nat
  PROVE  /\ Aligned(x) \in Nat /\ Aligned(x) % 8 = 0
         /\ x <= Aligned(x) /\ Aligned(x) <= x + 7
  BY DEF Aligned

\* A factor of the growth never makes less of a size.
LEMMA GrowthGrows ==
  ASSUME NEW x \in Nat
  PROVE  x * GrowthFactor \in Nat /\ x * GrowthFactor >= x
<1>1. GrowthFactor \in Nat /\ GrowthFactor > 0
  BY PoolAssumption
<1> QED
  BY <1>1

LEMMA FreshPool == allocPool \in [blocks : Seq(Block), nextCapacity : Nat]
                   /\ SoundPool(allocPool)
<1>1. InitCapacity \in Nat /\ InitCapacity * GrowthFactor \in Nat
  BY PoolAssumption, GrowthGrows
<1>2. allocBlock(InitCapacity) \in Block /\ Fits(allocBlock(InitCapacity))
  BY <1>1 DEF allocBlock, Block, Fits
<1> QED
  BY <1>1, <1>2 DEF allocPool, SoundPool

\* PoolWithRoom leaves the old blocks where they are, and its current block
\* has room for the request.
LEMMA RoomMade ==
  ASSUME NEW p, SoundPool(p), Len(p.blocks) >= 1, NEW k \in Nat,
         NEW q, q = PoolWithRoom(p, k)
  PROVE  /\ SoundPool(q) /\ Len(q.blocks) \in Nat /\ Len(q.blocks) >= Len(p.blocks)
         /\ \A b \in 1 .. Len(p.blocks) : q.blocks[b] = p.blocks[b]
         /\ Current(q).size + k <= Current(q).capacity
         /\ Len(q.blocks) > Len(p.blocks) => Current(q).size = 0
<1>1. /\ p.blocks \in Seq(Block) /\ p.nextCapacity \in Nat
      /\ Len(p.blocks) \in Nat
  BY DEF SoundPool
<1>2. Current(p) \in Block
  BY <1>1, ElementOfSeq DEF Current
<1>3. CASE Current(p).size + k > Current(p).capacity
  <2> DEFINE c == IF k > p.nextCapacity THEN k * GrowthFactor
                  ELSE p.nextCapacity
  <2>1. c \in Nat /\ k <= c /\ c * GrowthFactor \in Nat
    <3>1. k * GrowthFactor \in Nat /\ k * GrowthFactor >= k
      BY GrowthGrows
    <3>2. c = k * GrowthFactor \/ (c = p.nextCapacity /\ k <= p.nextCapacity)
      BY <1>1
    <3> HIDE DEF c
    <3>3. c \in Nat /\ k <= c
      BY <1>1, <3>1, <3>2
    <3> QED
      BY <3>3, GrowthGrows
  <2>2. q = [blocks |-> Append(p.blocks, allocBlock(c)),
             nextCapacity |-> c * GrowthFactor]
    BY <1>3 DEF PoolWithRoom, addBlockToPool
  <2> HIDE DEF c
  <2>3. allocBlock(c) = [size |-> 0, capacity |-> c] /\ allocBlock(c) \in Block
    BY <2>1 DEF allocBlock, Block
  <2>4. /\ Append(p.blocks, allocBlock(c)) \in Seq(Block)
        /\ Len(q.blocks) = Len(p.blocks) + 1
        /\ \A b \in 1 .. Len(p.blocks) : q.blocks[b] = p.blocks[b]
        /\ q.blocks[Len(p.blocks) + 1] = allocBlock(c)
    BY <1>1, <2>2, <2>3
  <2>5. SoundPool(q)
    <3>1. \A b \in 1 .. Len(q.blocks) :
              b \in 1 .. Len(p.blocks) \/ b = Len(p.blocks) + 1
      BY <1>1, <2>4
    <3>2. Fits(allocBlock(c))
      BY <2>1, <2>3 DEF Fits
    <3> QED
      BY <2>1, <2>2, <2>4, <3>1, <3>2 DEF SoundPool
  <2>6. Current(q) = allocBlock(c)
    BY <2>4 DEF Current
  <2> QED
    BY <1>1, <2>1, <2>3, <2>4, <2>5, <2>6
<1>4. CASE ~(Current(p).size + k > Current(p).capacity)
  <2>1. q = p
    BY <1>4 DEF PoolWithRoom
  <2>2. Current(p).size \in Nat /\ Current(p).capacity \in Nat
    BY <1>2 DEF Block
  <2> QED
    BY <1>1, <1>4, <2>1, <2>2
<1> QED
  BY <1>3, <1>4

\* memory_get takes the aligned bytes behind what is taken of the block.
LEMMA GetKeeps ==
  ASSUME PoolInv, NEW t \in PoolThreads, NEW r \in Requests, memory_get(t, r)
  PROVE  PoolInv'
<1> DEFINE p == pools[t]
           q == PoolWithRoom(p, r + 7)
           b == Len(q.blocks)
           s == q.blocks[b].size
           e == [q.blocks[b] EXCEPT !.size = @ + r + 7]
           c == [block |-> b, from |-> Aligned(s), bytes |-> r]
<1>1. r \in Nat /\ r + 7 \in Nat
  BY PoolAssumption
<1>2. SoundPool(p) /\ p.blocks \in Seq(Block) /\ Len(p.blocks) \in Nat
      /\ Len(p.blocks) >= 1
  <2>1. SoundPool(p) /\ p.blocks \in Seq(Block)
    BY DEF PoolInv, PoolsSound, SoundPool
  <2>2. p.blocks # << >>
    BY DEF memory_get, Usable
  <2> QED
    BY <2>1, <2>2, EmptySeq, LenProperties
<1>3. /\ SoundPool(q) /\ b \in Nat /\ b >= Len(p.blocks)
      /\ \A k \in 1 .. Len(p.blocks) : q.blocks[k] = p.blocks[k]
      /\ Current(q).size + (r + 7) <= Current(q).capacity
      /\ b > Len(p.blocks) => Current(q).size = 0
  BY <1>1, <1>2, RoomMade
<1>4. /\ q \in [blocks : Seq(Block), nextCapacity : Nat]
      /\ q.blocks \in Seq(Block) /\ b \in 1 .. Len(q.blocks)
      /\ q.blocks[b] \in Block /\ Current(q) = q.blocks[b] /\ s \in Nat
  <2>1. /\ q \in [blocks : Seq(Block), nextCapacity : Nat]
        /\ q.blocks \in Seq(Block)
    BY <1>3 DEF SoundPool
  <2>2. b \in 1 .. Len(q.blocks)
    BY <1>2, <1>3
  <2>3. q.blocks[b] \in Block
    BY <2>1, <2>2, ElementOfSeq
  <2> QED
    BY <2>1, <2>2, <2>3 DEF Current, Block
<1>5. /\ pools' = [pools EXCEPT ![t] = [q EXCEPT !.blocks[b].size = @ + r + 7]]
      /\ chunks' = [chunks EXCEPT ![t] = @ \cup {c}]
  BY <1>4 DEF memory_get
<1>6. e \in Block /\ e.size = s + r + 7 /\ e.capacity = q.blocks[b].capacity
      /\ Fits(e)
  <2>1. s + r + 7 \in Nat /\ s + r + 7 <= q.blocks[b].capacity
    <3>1. /\ s \in Nat /\ q.blocks[b].capacity \in Nat
          /\ s + (r + 7) <= q.blocks[b].capacity
      BY <1>3, <1>4 DEF Block
    <3> HIDE DEF s, q, b
    <3> QED
      BY <1>1, <3>1
  <2>2. /\ e.size = s + r + 7 /\ e.capacity = q.blocks[b].capacity
        /\ e \in Block
    BY <1>4, <2>1 DEF Block
  <2> QED
    BY <2>1, <2>2 DEF Fits
<1>7. c \in Chunk /\ c.from % 8 = 0 /\ s <= c.from /\ c.from + r <= s + r + 7
  <2>1. /\ Aligned(s) \in Nat /\ Aligned(s) % 8 = 0
        /\ s <= Aligned(s) /\ Aligned(s) <= s + 7
    BY <1>4, AlignedUp
  <2> QED
    BY <1>1, <1>3, <1>4, <2>1, SMTT(30) DEF Chunk
<1> DEFINE w == [q EXCEPT !.blocks[b].size = @ + r + 7]
<1>8. /\ w \in [blocks : Seq(Block), nextCapacity : Nat]
      /\ Len(w.blocks) = b /\ w.blocks[b] = e
      /\ \A k \in 1 .. b : k # b => w.blocks[k] = q.blocks[k]
  <2>1. w.blocks = [q.blocks EXCEPT ![b] = e]
        /\ w.nextCapacity = q.nextCapacity
        /\ w = [blocks |-> w.blocks, nextCapacity |-> w.nextCapacity]
    BY <1>4, SMTT(30)
  <2>2. /\ [q.blocks EXCEPT ![b] = e] \in Seq(Block)
        /\ Len([q.blocks EXCEPT ![b] = e]) = b
        /\ \A k \in 1 .. b : [q.blocks EXCEPT ![b] = e][k] =
                                 IF k = b THEN e ELSE q.blocks[k]
    BY <1>3, <1>4, <1>6, ExceptSeq
  <2> HIDE DEF w, e
  <2> QED
    BY <1>4, <2>1, <2>2
<1> HIDE DEF w, e, c, b, s, q
<1>9. SoundPool(w)
  BY <1>3, <1>6, <1>8 DEF SoundPool, b
<1>10. PoolsSound'
  BY <1>5, <1>7, <1>8, <1>9 DEF PoolInv, PoolsSound, w
<1>11. pools'[t] = w /\ chunks'[t] = chunks[t] \cup {c}
       /\ \A u \in PoolThreads \ {t} :
              pools'[u] = pools[u] /\ chunks'[u] = chunks[u]
  BY <1>5 DEF PoolInv, PoolsSound, w
<1>12. ASSUME NEW d \in chunks[t]
       PROVE  /\ d \in Chunk /\ d.from % 8 = 0 /\ d.block \in 1 .. b
              /\ d.from + d.bytes <= w.blocks[d.block].size
              /\ d.block = b => d.from + d.bytes <= s
  <2>1. /\ d \in Chunk /\ d.from % 8 = 0 /\ d.block \in 1 .. Len(p.blocks)
        /\ d.from + d.bytes <= p.blocks[d.block].size
    BY DEF PoolInv, PoolsSound, ChunksApart
  <2>2. d.block \in 1 .. b /\ q.blocks[d.block] = p.blocks[d.block]
    BY <1>2, <1>3, <2>1, SMTT(30)
  <2>3. CASE d.block = b
    <3>1. d.from + d.bytes <= s /\ d.from + d.bytes \in Nat
      BY <2>1, <2>2, <2>3, SMTT(30) DEF s, Chunk
    <3>2. w.blocks[d.block].size = s + r + 7
      BY <1>6, <1>8, <2>3
    <3> QED
      BY <1>1, <1>4, <2>1, <2>2, <3>1, <3>2
  <2>4. CASE d.block # b
    BY <1>8, <2>1, <2>2, <2>4
  <2> QED
    BY <2>1, <2>2, <2>3, <2>4
<1>13. /\ c.block = b /\ c.from \in Nat /\ c.bytes = r
       /\ c.from + c.bytes <= w.blocks[c.block].size
  BY <1>1, <1>4, <1>6, <1>7, <1>8 DEF c, Chunk
<1>14. ChunksApart'
  <2> SUFFICES ASSUME NEW u \in PoolThreads, NEW d \in chunks'[u]
               PROVE  /\ d.from % 8 = 0
                      /\ d.block \in 1 .. Len(pools'[u].blocks)
                      /\ d.from + d.bytes <= pools'[u].blocks[d.block].size
                      /\ \A f \in chunks'[u] :
                             d = f \/ d.block # f.block
                                   \/ d.from + d.bytes <= f.from
                                   \/ f.from + f.bytes <= d.from
    BY DEF ChunksApart
  <2>1. CASE u # t
    BY <1>11, <2>1 DEF PoolInv, ChunksApart
  <2>2. CASE u = t
    <3>1. b \in 1 .. b
      BY <1>2, <1>3 DEF b
    <3>2. /\ d.from % 8 = 0 /\ d.block \in 1 .. b
          /\ d.from + d.bytes <= w.blocks[d.block].size
      BY <1>7, <1>11, <1>12, <1>13, <2>2, <3>1
    <3>3. ASSUME NEW f \in chunks[t]
          PROVE  f.block # b \/ f.from + f.bytes <= c.from
      BY <1>4, <1>7, <1>12, <1>13, SMTT(30) DEF Chunk, s
    <3>4. \A f \in chunks'[u] : d = f \/ d.block # f.block
                                      \/ d.from + d.bytes <= f.from
                                      \/ f.from + f.bytes <= d.from
      BY <1>11, <1>13, <2>2, <3>3 DEF PoolInv, ChunksApart
    <3> QED
      BY <1>8, <1>11, <2>2, <3>2, <3>4
  <2> QED
    BY <2>1, <2>2
<1> QED
  BY <1>10, <1>14 DEF PoolInv

LEMMA DestroyKeeps ==
  ASSUME PoolInv, memory_destroy
  PROVE  PoolInv'
<1>1. SoundPool(freePool) /\ freePool \in [blocks : Seq(Block), nextCapacity : Nat]
  BY DEF freePool, SoundPool
<1> QED
  BY <1>1 DEF memory_destroy, PoolInv, PoolsSound, ChunksApart

LEMMA PoolInvHolds == PoolSpec => []PoolInv
<1>1. memory_init => PoolInv
  BY FreshPool DEF memory_init, PoolInv, PoolsSound, ChunksApart
<1>2. PoolInv /\ [PoolNext]_poolVars => PoolInv'
  <2> SUFFICES ASSUME PoolInv, [PoolNext]_poolVars PROVE PoolInv'
    OBVIOUS
  <2>1. CASE UNCHANGED poolVars
    BY <2>1 DEF PoolInv, PoolsSound, ChunksApart, poolVars
  <2> QED
    BY <2>1, GetKeeps, DestroyKeeps DEF PoolNext, PoolsSpent
<1> QED
  BY <1>1, <1>2, PTL DEF PoolSpec

\* No block is filled beyond its capacity, for any sizes of blocks and
\* requests.
THEOREM BlocksNeverOverfull == PoolSpec => []BlocksWithinCapacity
<1>1. PoolInv => BlocksWithinCapacity
  <2> SUFFICES ASSUME PoolInv, NEW t \in PoolThreads,
                      NEW b \in 1 .. Len(pools[t].blocks)
               PROVE  pools[t].blocks[b].size \in
                          0 .. pools[t].blocks[b].capacity
    BY DEF BlocksWithinCapacity
  <2>1. pools[t].blocks \in Seq(Block) /\ Fits(pools[t].blocks[b])
    BY DEF PoolInv, PoolsSound, SoundPool
  <2>2. pools[t].blocks[b] \in Block
    BY <2>1, ElementOfSeq
  <2> QED
    BY <2>1, <2>2 DEF Fits, Block
<1> QED
  BY <1>1, PoolInvHolds, PTL

\* No two chunks share a byte, and every chunk is aligned and inside what is
\* taken of its block.
THEOREM ChunksNeverOverlap == PoolSpec => []ChunksApart
<1>1. PoolInv => ChunksApart
  BY DEF PoolInv
<1> QED
  BY <1>1, PoolInvHolds, PTL

-----------------------------------------------------------------------------
(* The queue *)

\* Two indexes into the array that never meet.
Ring(q) ==
    /\ q = [pop |-> q.pop, push |-> q.push, capacity |-> q.capacity,
            elements |-> q.elements]
    /\ q.capacity \in Nat /\ q.capacity >= 2
    /\ q.pop \in 0 .. q.capacity - 1
    /\ q.push \in 0 .. q.capacity - 1
    /\ q.pop # q.push
    /\ q.elements \in [0 .. q.capacity - 1 -> Items \cup {Junk}]

\* Where the k-th element from the one to pop is.
Slot(q, k) == (q.pop + k) % q.capacity

\* ... and none of them is what malloc left there.
RingFilled(q) == \A k \in 1 .. NumElement(q) : q.elements[Slot(q, k)] \in Items

ContentsOf(q) == [k \in 1 .. NumElement(q) |-> q.elements[Slot(q, k)]]

CallOK == queueCall \in
              {<< >>, <<"clear">>, <<"shuffle">>} \cup {"push"} \X Items
                  \cup {"pop"} \X (Items \cup {Null})

\* The inductive invariant of the queue.
QueueInv == Ring(queue) /\ RingFilled(queue) /\ CallOK

\* A sum of two indexes is one step around the array at most.
LEMMA Around ==
  ASSUME NEW c \in Nat, c >= 2, NEW x \in 0 .. c - 1, NEW k \in 0 .. c
  PROVE  /\ x + k < c => (x + k) % c = x + k
         /\ x + k >= c => (x + k) % c = x + k - c
<1>1. x + k \in Nat /\ x + k < 2 * c
  OBVIOUS
<1> DEFINE y == x + k
<1> HIDE DEF y
<1>2. y \in Nat /\ y < 2 * c => (y < c => y % c = y) /\ (y >= c => y % c = y - c)
  OBVIOUS
<1> QED
  BY <1>1, <1>2 DEF y

\* How many there are; two slots always stay free, or the array would look
\* empty.
LEMMA HowMany ==
  ASSUME NEW q, Ring(q)
  PROVE  /\ NumElement(q) \in 0 .. q.capacity - 2
         /\ queue_isEmpty(q) <=> NumElement(q) = 0
         /\ Full(q) <=> NumElement(q) = q.capacity - 2
<1>1. /\ q.pop \in Nat /\ q.push \in Nat /\ q.capacity \in Nat
      /\ q.pop < q.capacity /\ q.push < q.capacity /\ q.pop # q.push
  BY DEF Ring
<1> DEFINE behindPop  == (q.pop + 1) % q.capacity
           behindPush == (q.push + 1) % q.capacity
<1>2. /\ behindPop = IF q.pop + 1 < q.capacity THEN q.pop + 1 ELSE 0
      /\ behindPush = IF q.push + 1 < q.capacity THEN q.push + 1 ELSE 0
  BY <1>1
<1>3. /\ queue_isEmpty(q) <=> behindPop = q.push
      /\ Full(q) <=> behindPush = q.pop
  BY DEF queue_isEmpty, Full
<1> HIDE DEF behindPop, behindPush
<1>4. CASE q.pop < q.push
  BY <1>1, <1>2, <1>3, <1>4 DEF NumElement
<1>5. CASE q.push < q.pop
  BY <1>1, <1>2, <1>3, <1>5 DEF NumElement
<1> QED
  BY <1>1, <1>4, <1>5

\* The slots of the elements are different ones, the free slot that push
\* points at follows the last of them.
LEMMA Slots ==
  ASSUME NEW q, Ring(q)
  PROVE  /\ \A k \in 0 .. q.capacity :
                /\ Slot(q, k) \in 0 .. q.capacity - 1
                /\ Slot(q, k) = IF q.pop + k < q.capacity THEN q.pop + k
                                ELSE q.pop + k - q.capacity
         /\ \A k, j \in 1 .. NumElement(q) : Slot(q, k) = Slot(q, j) => k = j
         /\ \A k \in 1 .. NumElement(q) : Slot(q, k) # q.push
         /\ Slot(q, NumElement(q) + 1) = q.push
<1>1. /\ q.pop \in Nat /\ q.push \in Nat /\ q.capacity \in Nat
      /\ q.capacity >= 2
      /\ q.pop < q.capacity /\ q.push < q.capacity /\ q.pop # q.push
  BY DEF Ring
<1>2. NumElement(q) \in 0 .. q.capacity - 2
  BY HowMany
<1>3. \A k \in 0 .. q.capacity :
          Slot(q, k) = IF q.pop + k < q.capacity THEN q.pop + k
                       ELSE q.pop + k - q.capacity
  <2> SUFFICES ASSUME NEW k \in 0 .. q.capacity
               PROVE  Slot(q, k) = IF q.pop + k < q.capacity THEN q.pop + k
                                   ELSE q.pop + k - q.capacity
    OBVIOUS
  <2>1. /\ q.pop \in 0 .. q.capacity - 1
        /\ q.pop + k < q.capacity \/ q.pop + k >= q.capacity
    BY <1>1
  <2>2. /\ q.pop + k < q.capacity => (q.pop + k) % q.capacity = q.pop + k
        /\ q.pop + k >= q.capacity =>
               (q.pop + k) % q.capacity = q.pop + k - q.capacity
    BY <1>1, <2>1, Around
  <2> QED
    BY <1>1, <2>1, <2>2 DEF Slot
<1>4. \A k \in 0 .. q.capacity : Slot(q, k) \in 0 .. q.capacity - 1
  BY <1>1, <1>3
<1>5. \A k, j \in 1 .. NumElement(q) : Slot(q, k) = Slot(q, j) => k = j
  BY <1>1, <1>2, <1>3
<1>6. \A k \in 1 .. NumElement(q) : Slot(q, k) # q.push
  BY <1>1, <1>2, <1>3 DEF NumElement
<1>7. Slot(q, NumElement(q) + 1) = q.push
  BY <1>1, <1>2, <1>3 DEF NumElement
<1> QED
  BY <1>3, <1>4, <1>5, <1>6, <1>7

LEMMA ContentsType ==
  ASSUME NEW q, Ring(q), RingFilled(q)
  PROVE  /\ ContentsOf(q) \in Seq(Items)
         /\ Len(ContentsOf(q)) = NumElement(q)
         /\ \A k \in 1 .. NumElement(q) :
                ContentsOf(q)[k] = q.elements[Slot(q, k)]
<1>1. NumElement(q) \in Nat
  BY HowMany
<1>2. ContentsOf(q) \in [1 .. NumElement(q) -> Items]
  BY DEF ContentsOf, RingFilled
<1>3. ContentsOf(q) \in Seq(Items)
  BY <1>1, <1>2, SeqDef
<1>4. Len(ContentsOf(q)) = NumElement(q)
  BY <1>1, <1>2, <1>3, LenProperties
<1> QED
  BY <1>3, <1>4 DEF ContentsOf

\* The grown array holds the same elements and is not full.
LEMMA GrownSame ==
  ASSUME NEW q, Ring(q), RingFilled(q), Full(q)
  PROVE  /\ Ring(Grown(q)) /\ RingFilled(Grown(q)) /\ ~Full(Grown(q))
         /\ NumElement(Grown(q)) = NumElement(q)
         /\ ContentsOf(Grown(q)) = ContentsOf(q)
<1> DEFINE g == Grown(q)
           m == NumElement(q)
           c == q.capacity
<1>1. /\ m \in Nat /\ m <= c - 2 /\ c \in Nat /\ c >= 2 /\ m = c - 2
      /\ q.pop \in 0 .. c - 1
  BY HowMany DEF Ring
<1>2. \A k \in 1 .. m : /\ k \in 0 .. c
                        /\ Slot(q, k) \in 0 .. c - 1
                        /\ Slot(q, k) = IF q.pop + k < c THEN q.pop + k
                                        ELSE q.pop + k - c
  BY <1>1, Slots
<1>3. /\ g.pop = 2 * c - 1 /\ g.push = m /\ g.capacity = 2 * c
      /\ g.elements = [dst \in 0 .. 2 * c - 1 |->
             IF dst >= m THEN Junk
             ELSE IF q.pop + 1 + dst < c THEN q.elements[q.pop + 1 + dst]
             ELSE q.elements[q.pop + 1 + dst - c]]
  BY DEF Grown
<1>4. \A k \in 1 .. m : /\ k - 1 \in 0 .. 2 * c - 1
                        /\ g.elements[k - 1] = q.elements[Slot(q, k)]
  <2> SUFFICES ASSUME NEW k \in 1 .. m
               PROVE  /\ k - 1 \in 0 .. 2 * c - 1
                      /\ g.elements[k - 1] = q.elements[Slot(q, k)]
    OBVIOUS
  <2> DEFINE e == k - 1
  <2>1. /\ e \in 0 .. 2 * c - 1 /\ ~(e >= m)
        /\ q.pop + 1 + e = q.pop + k
    BY <1>1
  <2> HIDE DEF e
  <2>3. g.elements[e] = IF e >= m THEN Junk
                        ELSE IF q.pop + 1 + e < c THEN q.elements[q.pop + 1 + e]
                        ELSE q.elements[q.pop + 1 + e - c]
    BY <1>3, <2>1
  <2>4. q.pop + 1 + e - c = q.pop + k - c
    BY <1>1, <2>1
  <2>2. g.elements[e] = IF q.pop + k < c THEN q.elements[q.pop + k]
                        ELSE q.elements[q.pop + k - c]
    BY <2>1, <2>3, <2>4, Zenon
  <2> QED
    BY <1>2, <2>1, <2>2 DEF e
<1>5. \A dst \in 0 .. 2 * c - 1 : g.elements[dst] \in Items \cup {Junk}
  <2> SUFFICES ASSUME NEW dst \in 0 .. 2 * c - 1, ~(dst >= m)
               PROVE  g.elements[dst] \in Items \cup {Junk}
    BY <1>3
  <2>1. dst + 1 \in 1 .. m /\ (dst + 1) - 1 = dst
    BY <1>1
  <2>2. g.elements[dst] = q.elements[Slot(q, dst + 1)]
    BY <1>4, <2>1
  <2> QED
    BY <2>1, <2>2 DEF RingFilled
<1>6. Ring(g)
  <2>1. g = [pop |-> g.pop, push |-> g.push, capacity |-> g.capacity,
             elements |-> g.elements]
    BY DEF Grown
  <2>2. g.elements \in [0 .. 2 * c - 1 -> Items \cup {Junk}]
    BY <1>3, <1>5
  <2> QED
    BY <1>1, <1>3, <2>1, <2>2 DEF Ring
<1>7. NumElement(g) = m
  BY <1>1, <1>3 DEF NumElement
<1>8. ~Full(g)
  BY <1>1, <1>3, <1>6, <1>7, HowMany
<1>9. \A k \in 1 .. m : Slot(g, k) = k - 1
  <2> SUFFICES ASSUME NEW k \in 1 .. m PROVE Slot(g, k) = k - 1
    OBVIOUS
  <2>1. k \in 0 .. g.capacity
    BY <1>1, <1>3
  <2>2. Slot(g, k) = IF g.pop + k < g.capacity THEN g.pop + k
                     ELSE g.pop + k - g.capacity
    BY <1>6, <2>1, Slots
  <2> QED
    BY <1>1, <1>3, <2>2, SMTT(30)
<1> HIDE DEF g, m, c
<1>10. RingFilled(g)
  BY <1>4, <1>7, <1>9 DEF RingFilled, m
<1>11. ContentsOf(g) = ContentsOf(q)
  BY <1>4, <1>7, <1>9 DEF ContentsOf, m
<1> QED
  BY <1>6, <1>7, <1>8, <1>10, <1>11 DEF g, m

\* The element goes where push points, behind the last one.
LEMMA PushedOne ==
  ASSUME NEW q, Ring(q), RingFilled(q), ~Full(q), NEW d \in Items,
         NEW r, r = [q EXCEPT !.elements[q.push] = d,
                              !.push = (q.push + 1) % q.capacity]
  PROVE  /\ Ring(r) /\ RingFilled(r)
         /\ ContentsOf(r) = Append(ContentsOf(q), d)
<1> DEFINE m == NumElement(q)
           c == q.capacity
<1>1. /\ m \in Nat /\ m <= c - 2 /\ m # c - 2 /\ c \in Nat /\ c >= 2
      /\ q.pop \in 0 .. c - 1 /\ q.push \in 0 .. c - 1 /\ q.pop # q.push
      /\ q.elements \in [0 .. c - 1 -> Items \cup {Junk}]
  BY HowMany DEF Ring
<1>2. /\ r = [pop |-> r.pop, push |-> r.push, capacity |-> r.capacity,
              elements |-> r.elements]
      /\ r.pop = q.pop /\ r.capacity = c /\ r.push = (q.push + 1) % c
      /\ r.elements = [q.elements EXCEPT ![q.push] = d]
  BY DEF Ring
<1>3. /\ q.push + 1 < c => r.push = q.push + 1
      /\ q.push + 1 >= c => r.push = 0
  <2>1. 1 \in 0 .. c
    BY <1>1
  <2>2. /\ q.push + 1 < c => (q.push + 1) % c = q.push + 1
        /\ q.push + 1 >= c => (q.push + 1) % c = q.push + 1 - c
    BY <1>1, <2>1, Around
  <2> QED
    BY <1>1, <1>2, <2>2, SMTT(30)
<1>4. r.push # q.pop
  BY <1>2 DEF Full
<1>5. Ring(r)
  <2>1. r.push \in 0 .. c - 1
    BY <1>1, <1>3, SMTT(30)
  <2>2. r.elements \in [0 .. c - 1 -> Items \cup {Junk}]
    BY <1>1, <1>2
  <2> QED
    BY <1>1, <1>2, <1>4, <2>1, <2>2 DEF Ring
<1>6. NumElement(r) = m + 1
  <2>1. r.pop = q.pop /\ r.capacity = c /\ r.push \in 0 .. c - 1
    BY <1>1, <1>2, <1>3, SMTT(30)
  <2>6. /\ q.pop \in Int /\ q.push \in Int /\ c \in Int /\ r.push \in Int
        /\ q.push + 1 <= c /\ m \in Int /\ 0 <= q.pop /\ q.pop + 1 <= c
    BY <1>1, <2>1, SMTT(30)
  <2> HIDE DEF m
  <2>4. /\ q.pop < q.push => m = q.push - (q.pop + 1)
        /\ ~(q.pop < q.push) => m = c - (q.pop - q.push + 1)
    BY DEF m, NumElement
  <2>5. /\ q.pop < r.push => NumElement(r) = r.push - (q.pop + 1)
        /\ ~(q.pop < r.push) => NumElement(r) = c - (q.pop - r.push + 1)
    BY <2>1 DEF NumElement
  <2>2. CASE q.pop < q.push
    BY <1>3, <1>4, <2>2, <2>4, <2>5, <2>6
  <2>3. CASE q.push < q.pop
    BY <1>3, <1>4, <2>3, <2>4, <2>5, <2>6
  <2> QED
    BY <1>1, <2>2, <2>3
<1>7. \A k \in 1 .. m : Slot(r, k) = Slot(q, k) /\ Slot(q, k) # q.push
                        /\ Slot(q, k) \in 0 .. c - 1
  <2>1. \A k \in 1 .. m : k \in 0 .. c
    BY <1>1
  <2> QED
    BY <1>2, <2>1, Slots DEF Slot
<1>8. Slot(r, m + 1) = q.push
  BY <1>2, Slots DEF Slot
<1>9. /\ \A k \in 1 .. m : r.elements[Slot(r, k)] = q.elements[Slot(q, k)]
      /\ r.elements[Slot(r, m + 1)] = d
  <2>1. ASSUME NEW k \in 1 .. m
        PROVE  r.elements[Slot(r, k)] = q.elements[Slot(q, k)]
    <3>1. /\ Slot(r, k) = Slot(q, k) /\ Slot(q, k) # q.push
          /\ Slot(q, k) \in 0 .. c - 1
      BY <1>7
    <3> QED
      BY <1>1, <1>2, <3>1, ZenonT(60)
  <2>2. r.elements[q.push] = d
    BY <1>1, <1>2
  <2> QED
    BY <1>8, <2>1, <2>2
<1>10. \A k \in 1 .. m + 1 : k \in 1 .. m \/ k = m + 1
  BY <1>1
<1>11. RingFilled(r)
  BY <1>6, <1>9, <1>10 DEF RingFilled
<1>12. ContentsOf(r) = Append(ContentsOf(q), d)
  <2>1. /\ ContentsOf(q) \in Seq(Items) /\ Len(ContentsOf(q)) = m
        /\ \A k \in 1 .. m : ContentsOf(q)[k] = q.elements[Slot(q, k)]
    BY ContentsType
  <2>2. /\ ContentsOf(r) \in Seq(Items) /\ Len(ContentsOf(r)) = m + 1
        /\ \A k \in 1 .. m + 1 : ContentsOf(r)[k] = r.elements[Slot(r, k)]
    BY <1>5, <1>6, <1>11, ContentsType
  <2> DEFINE a == Append(ContentsOf(q), d)
  <2>3. /\ a \in Seq(Items) /\ Len(a) = m + 1
        /\ \A k \in 1 .. m : a[k] = ContentsOf(q)[k]
        /\ a[m + 1] = d
    BY <2>1, AppendProperties
  <2> HIDE DEF a, m
  <2>4. \A k \in 1 .. m + 1 : ContentsOf(r)[k] = a[k]
    BY <1>9, <1>10, <2>1, <2>2, <2>3
  <2>5. ContentsOf(r) = a
    BY <2>2, <2>3, <2>4, SeqEqual
  <2> QED
    BY <2>5 DEF a
<1> QED
  BY <1>5, <1>11, <1>12

\* queue_alloc and queue_clear leave an empty array.
LEMMA EmptyRing ==
  ASSUME NEW q, Ring(q), q.pop = q.capacity - 1, q.push = 0
  PROVE  RingFilled(q) /\ ContentsOf(q) = << >>
<1>1. NumElement(q) = 0
  BY DEF NumElement, Ring
<1>2. RingFilled(q)
  BY <1>1 DEF RingFilled
<1>3. ContentsOf(q) \in Seq(Items) /\ Len(ContentsOf(q)) = 0
  BY <1>1, <1>2, ContentsType
<1>4. << >> \in Seq(Items) /\ Len(<< >>) = 0
  BY EmptySeq
<1> HIDE DEF ContentsOf
<1>5. ContentsOf(q) = << >>
  BY <1>3, <1>4, EmptySeq
<1> QED
  BY <1>2, <1>5

LEMMA QueueBegins == QueueInit => QueueInv /\ Fifo!FifoInit
<1> SUFFICES ASSUME NEW c \in InitCapacities, queue = queue_alloc(c),
                    queueCall = << >>
             PROVE  QueueInv /\ Fifo!FifoInit
  BY DEF QueueInit
<1> DEFINE e == IF c < 2 THEN 2 ELSE c
<1>1. e \in Nat /\ e >= 2
  BY QueueAssumption
<1>2. queue = [pop |-> e - 1, push |-> 0, capacity |-> e,
               elements |-> [i \in 0 .. e - 1 |-> Junk]]
  BY DEF queue_alloc
<1> HIDE DEF e
<1>3. Ring(queue)
  <2>1. [i \in 0 .. e - 1 |-> Junk] \in [0 .. e - 1 -> Items \cup {Junk}]
    OBVIOUS
  <2> QED
    BY <1>1, <1>2, <2>1 DEF Ring
<1>4. RingFilled(queue) /\ ContentsOf(queue) = << >>
  BY <1>2, <1>3, EmptyRing
<1> QED
  BY <1>3, <1>4 DEF QueueInv, CallOK, Fifo!FifoInit, Contents, ContentsOf, Slot

LEMMA PushIsFifo ==
  ASSUME QueueInv, NEW d \in Items, queue_push(d)
  PROVE  QueueInv' /\ Fifo!FifoPush(d)
<1> DEFINE q == IF Full(queue) THEN Grown(queue) ELSE queue
<1>1. Ring(q) /\ RingFilled(q) /\ ~Full(q) /\ ContentsOf(q) = ContentsOf(queue)
  BY GrownSame DEF QueueInv
<1>2. queue' = [q EXCEPT !.elements[q.push] = d,
                         !.push = (q.push + 1) % q.capacity]
      /\ queueCall' = <<"push", d>>
  BY DEF queue_push
<1> HIDE DEF q
<1>3. /\ Ring(queue') /\ RingFilled(queue')
      /\ ContentsOf(queue') = Append(ContentsOf(queue), d)
  BY <1>1, <1>2, PushedOne, ZenonT(60)
<1>4. CallOK'
  BY <1>2 DEF CallOK
<1>5. QueueInv'
  BY <1>3, <1>4 DEF QueueInv, Ring, RingFilled, Slot, NumElement
<1> QED
  BY <1>2, <1>3, <1>5, Zenon DEF Fifo!FifoPush, Contents, ContentsOf, Slot, NumElement

\* The first element leaves, the others move up by one.
LEMMA PoppedOne ==
  ASSUME NEW q, Ring(q), RingFilled(q), ~queue_isEmpty(q),
         NEW r, r = [q EXCEPT !.pop = Slot(q, 1)]
  PROVE  /\ Ring(r) /\ RingFilled(r)
         /\ ContentsOf(q) # << >>
         /\ q.elements[Slot(q, 1)] \in Items
         /\ Head(ContentsOf(q)) = q.elements[Slot(q, 1)]
         /\ ContentsOf(r) = Tail(ContentsOf(q))
<1> DEFINE m == NumElement(q)
           c == q.capacity
<1>1. /\ m \in Nat /\ m <= c - 2 /\ m >= 1 /\ c \in Nat /\ c >= 2
      /\ q.pop \in 0 .. c - 1 /\ q.push \in 0 .. c - 1 /\ q.pop # q.push
      /\ q.elements \in [0 .. c - 1 -> Items \cup {Junk}]
  BY HowMany DEF Ring
<1>2. /\ r = [pop |-> r.pop, push |-> r.push, capacity |-> r.capacity,
              elements |-> r.elements]
      /\ r.push = q.push /\ r.capacity = c /\ r.elements = q.elements
      /\ r.pop = Slot(q, 1)
  BY DEF Ring
<1>3. /\ 1 \in 0 .. c /\ 1 \in 1 .. m
      /\ r.pop \in 0 .. c - 1 /\ r.pop # q.push
      /\ q.pop + 1 < c => r.pop = q.pop + 1
      /\ q.pop + 1 >= c => r.pop = 0
  <2>1. 1 \in 0 .. c /\ 1 \in 1 .. m
    BY <1>1
  <2>2. /\ Slot(q, 1) \in 0 .. c - 1 /\ Slot(q, 1) # q.push
        /\ Slot(q, 1) = IF q.pop + 1 < c THEN q.pop + 1 ELSE q.pop + 1 - c
    BY <2>1, Slots
  <2> QED
    BY <1>1, <1>2, <2>1, <2>2, SMTT(30)
<1>4. Ring(r)
  BY <1>1, <1>2, <1>3 DEF Ring
<1>5. NumElement(r) = m - 1
  <2>1. r.push = q.push /\ r.capacity = c
    BY <1>2
  <2> HIDE DEF m
  <2>2. /\ q.pop < q.push => m = q.push - (q.pop + 1)
        /\ ~(q.pop < q.push) => m = c - (q.pop - q.push + 1)
    BY DEF m, NumElement
  <2>3. /\ r.pop < q.push => NumElement(r) = q.push - (r.pop + 1)
        /\ ~(r.pop < q.push) => NumElement(r) = c - (r.pop - q.push + 1)
    BY <2>1 DEF NumElement
  <2>4. /\ q.pop \in Int /\ q.push \in Int /\ c \in Int /\ r.pop \in Int
        /\ q.push + 1 <= c /\ m \in Int /\ 0 <= q.pop /\ q.pop + 1 <= c
        /\ q.pop # q.push /\ r.pop # q.push /\ 0 <= q.push
    BY <1>1, <1>3, SMTT(30)
  <2>5. CASE q.pop < q.push
    BY <1>3, <2>2, <2>3, <2>4, <2>5
  <2>6. CASE q.push < q.pop
    BY <1>3, <2>2, <2>3, <2>4, <2>6
  <2> QED
    BY <2>4, <2>5, <2>6
<1>6. \A k \in 1 .. m - 1 : Slot(r, k) = Slot(q, k + 1) /\ k + 1 \in 1 .. m
  <2> SUFFICES ASSUME NEW k \in 1 .. m - 1
               PROVE  Slot(r, k) = Slot(q, k + 1) /\ k + 1 \in 1 .. m
    OBVIOUS
  <2>1. k \in 0 .. c /\ k + 1 \in 0 .. c /\ k + 1 \in 1 .. m
    BY <1>1, SMTT(30)
  <2>2. /\ r.pop + k < c => Slot(r, k) = r.pop + k
        /\ r.pop + k >= c => Slot(r, k) = r.pop + k - c
    <3>1. c \in Nat /\ c >= 2 /\ r.pop \in 0 .. c - 1
      BY <1>1, <1>3
    <3>2. Slot(r, k) = (r.pop + k) % c
      BY <1>2 DEF Slot
    <3> HIDE DEF c
    <3> QED
      BY <2>1, <3>1, <3>2, Around
  <2> DEFINE e == k + 1
  <2> HIDE DEF e
  <2>3. e \in 0 .. c
    BY <2>1 DEF e
  <2>4. /\ q.pop + e < c => Slot(q, e) = q.pop + e
        /\ q.pop + e >= c => Slot(q, e) = q.pop + e - c
    BY <1>1, <2>3, Around DEF Slot
  <2>5. Slot(r, k) = Slot(q, e)
    <3>1. /\ q.pop \in Int /\ c \in Int /\ k \in Int /\ e = k + 1
          /\ r.pop \in Int /\ k >= 1 /\ k < c /\ q.pop + 1 <= c
      BY <1>1, <1>3, SMTT(30) DEF e
    <3> QED
      BY <1>3, <2>2, <2>4, <3>1
  <2> QED
    BY <2>1, <2>5 DEF e
<1> HIDE DEF m
<1>7. RingFilled(r)
  BY <1>2, <1>5, <1>6 DEF RingFilled, m
<1>8. /\ ContentsOf(q) \in Seq(Items) /\ Len(ContentsOf(q)) = m
      /\ \A k \in 1 .. m : ContentsOf(q)[k] = q.elements[Slot(q, k)]
  BY ContentsType DEF m
<1>9. /\ ContentsOf(r) \in Seq(Items) /\ Len(ContentsOf(r)) = m - 1
      /\ \A k \in 1 .. m - 1 : ContentsOf(r)[k] = r.elements[Slot(r, k)]
  BY <1>4, <1>5, <1>7, ContentsType
<1>10. ContentsOf(q) # << >>
  BY <1>1, <1>8, EmptySeq
<1>11. /\ Tail(ContentsOf(q)) \in Seq(Items)
       /\ Len(Tail(ContentsOf(q))) = m - 1
       /\ \A k \in 1 .. m - 1 :
              Tail(ContentsOf(q))[k] = ContentsOf(q)[k + 1]
  BY <1>8, <1>10, HeadTailProperties
<1>12. \A k \in 1 .. m - 1 : ContentsOf(r)[k] = Tail(ContentsOf(q))[k]
  BY <1>2, <1>6, <1>8, <1>9, <1>11, SMTT(30)
<1>13. ContentsOf(r) = Tail(ContentsOf(q))
  BY <1>9, <1>11, <1>12, SeqEqual
<1>14. q.elements[Slot(q, 1)] \in Items
  BY <1>3 DEF RingFilled, m
<1>15. Head(ContentsOf(q)) = q.elements[Slot(q, 1)]
  BY <1>3, <1>8, <1>10
<1> QED
  BY <1>4, <1>7, <1>10, <1>13, <1>14, <1>15

LEMMA PopIsFifo ==
  ASSUME QueueInv, queue_pop
  PROVE  QueueInv' /\ Fifo!FifoPop
<1>1. queue_isEmpty(queue) <=> Slot(queue, 1) = queue.push
  BY DEF queue_isEmpty, Slot
<1>2. Contents = ContentsOf(queue)
  BY DEF Contents, ContentsOf, Slot
<1>3. CASE queue_isEmpty(queue)
  <2>1. queueCall' = <<"pop", Null>> /\ UNCHANGED queue
    BY <1>1, <1>3 DEF queue_pop, Slot
  <2>2. NumElement(queue) = 0
    BY <1>3, HowMany DEF QueueInv
  <2>3. Contents = << >>
    BY <1>2, <2>2, ContentsType, EmptySeq DEF QueueInv
  <2>4. QueueInv'
    BY <2>1 DEF QueueInv, CallOK, Ring, RingFilled, Slot, NumElement
  <2>5. UNCHANGED Contents
    BY <2>1 DEF Contents
  <2> QED
    BY <2>1, <2>3, <2>4, <2>5 DEF Fifo!FifoPop
<1>4. CASE ~queue_isEmpty(queue)
  <2> DEFINE v == queue.elements[Slot(queue, 1)]
  <2>1. queueCall' = <<"pop", v>>
        /\ queue' = [queue EXCEPT !.pop = Slot(queue, 1)]
    BY <1>1, <1>4 DEF queue_pop, Slot
  <2>2. /\ Ring(queue') /\ RingFilled(queue')
        /\ ContentsOf(queue) # << >> /\ v \in Items
        /\ Head(ContentsOf(queue)) = v
        /\ ContentsOf(queue') = Tail(ContentsOf(queue))
    BY <1>4, <2>1, PoppedOne DEF QueueInv
  <2> HIDE DEF v
  <2>3. QueueInv'
    BY <2>1, <2>2 DEF QueueInv, CallOK, Ring, RingFilled, Slot, NumElement
  <2>4. Contents' = ContentsOf(queue')
    BY DEF Contents, ContentsOf, Slot, NumElement
  <2> QED
    BY <1>2, <2>1, <2>2, <2>3, <2>4 DEF Fifo!FifoPop
<1> QED
  BY <1>3, <1>4

LEMMA Cleared ==
  ASSUME NEW q, Ring(q), NEW r,
         r = [q EXCEPT !.pop = q.capacity - 1, !.push = 0]
  PROVE  Ring(r) /\ r.pop = r.capacity - 1 /\ r.push = 0
<1>1. /\ r = [pop |-> r.pop, push |-> r.push, capacity |-> r.capacity,
              elements |-> r.elements]
      /\ r.pop = q.capacity - 1 /\ r.push = 0
      /\ r.capacity = q.capacity /\ r.elements = q.elements
  BY DEF Ring
<1>2. /\ q.capacity \in Nat /\ q.capacity >= 2
      /\ q.elements \in [0 .. q.capacity - 1 -> Items \cup {Junk}]
  BY DEF Ring
<1> QED
  BY <1>1, <1>2 DEF Ring

LEMMA ClearIsFifo ==
  ASSUME QueueInv, queue_clear
  PROVE  QueueInv' /\ Fifo!FifoClear
<1> DEFINE r == [queue EXCEPT !.pop = queue.capacity - 1, !.push = 0]
<1>1. queue' = r /\ queueCall' = <<"clear">>
  BY DEF queue_clear
<1>2. Ring(r) /\ r.pop = r.capacity - 1 /\ r.push = 0
  BY Cleared DEF QueueInv
<1> HIDE DEF r
<1>3. RingFilled(r) /\ ContentsOf(r) = << >>
  BY <1>2, EmptyRing
<1>4. QueueInv'
  BY <1>1, <1>2, <1>3 DEF QueueInv, CallOK, Ring, RingFilled, Slot, NumElement
<1>5. Contents' = ContentsOf(queue')
  BY DEF Contents, ContentsOf, Slot, NumElement
<1> QED
  BY <1>1, <1>3, <1>4, <1>5 DEF Fifo!FifoClear

\* The swaps of queue_shuffle permute the elements and nothing else.
LEMMA ShuffleIsFifo ==
  ASSUME QueueInv, queue_shuffle
  PROVE  QueueInv' /\ Fifo!FifoShuffle
<1> DEFINE m == NumElement(queue)
           c == queue.capacity
           At(k) == (queue.pop + 1 + k) % c
<1>1. PICK p \in [0 .. m - 1 -> 0 .. m - 1] :
          /\ \A i, j \in 0 .. m - 1 : p[i] = p[j] => i = j
          /\ queue' = [queue EXCEPT !.elements =
                 [s \in 0 .. c - 1 |->
                     IF \E k \in 0 .. m - 1 : At(k) = s
                     THEN @[At(p[CHOOSE k \in 0 .. m - 1 : At(k) = s])]
                     ELSE @[s]]]
          /\ queueCall' = <<"shuffle">>
  BY DEF queue_shuffle
<1>2. /\ m \in Nat /\ m <= c - 2 /\ c \in Nat /\ c >= 2
      /\ queue.pop \in 0 .. c - 1 /\ queue.push \in 0 .. c - 1
      /\ queue.pop # queue.push
      /\ queue.elements \in [0 .. c - 1 -> Items \cup {Junk}]
  BY HowMany DEF QueueInv, Ring
<1>3. \A k \in 0 .. m - 1 : /\ At(k) = Slot(queue, k + 1)
                            /\ k + 1 \in 1 .. m /\ At(k) \in 0 .. c - 1
  <2> SUFFICES ASSUME NEW k \in 0 .. m - 1
               PROVE  /\ At(k) = Slot(queue, k + 1)
                      /\ k + 1 \in 1 .. m /\ At(k) \in 0 .. c - 1
    OBVIOUS
  <2>1. k + 1 \in 1 .. m /\ k + 1 \in 0 .. c
    BY <1>2
  <2>2. queue.pop + 1 + k = queue.pop + (k + 1)
    <3>1. queue.pop \in Nat /\ k \in Nat
      BY <1>2
    <3> QED
      BY <3>1
  <2>3. At(k) = Slot(queue, k + 1)
    BY <2>2 DEF Slot
  <2>4. Slot(queue, k + 1) \in 0 .. c - 1
    BY <2>1, Slots DEF QueueInv
  <2> QED
    BY <2>1, <2>3, <2>4
<1> HIDE DEF At
<1>4. \A k, j \in 0 .. m - 1 : At(k) = At(j) => k = j
  <2> SUFFICES ASSUME NEW k \in 0 .. m - 1, NEW j \in 0 .. m - 1,
                      At(k) = At(j)
               PROVE  k = j
    OBVIOUS
  <2>1. k + 1 = j + 1
    BY <1>3, Slots DEF QueueInv
  <2> QED
    BY <1>2, <2>1
<1> DEFINE e == [s \in 0 .. c - 1 |->
                    IF \E k \in 0 .. m - 1 : At(k) = s
                    THEN queue.elements[
                             At(p[CHOOSE k \in 0 .. m - 1 : At(k) = s])]
                    ELSE queue.elements[s]]
<1>5. \A k \in 0 .. m - 1 : e[At(k)] = queue.elements[At(p[k])]
  <2> SUFFICES ASSUME NEW k \in 0 .. m - 1
               PROVE  e[At(k)] = queue.elements[At(p[k])]
    OBVIOUS
  <2>1. (CHOOSE j \in 0 .. m - 1 : At(j) = At(k)) = k
    BY <1>4
  <2> QED
    BY <1>3, <2>1
<1>6. e \in [0 .. c - 1 -> Items \cup {Junk}]
  <2> SUFFICES ASSUME NEW s \in 0 .. c - 1
               PROVE  e[s] \in Items \cup {Junk}
    OBVIOUS
  <2>1. CASE \E k \in 0 .. m - 1 : At(k) = s
    <3>1. PICK k \in 0 .. m - 1 : At(k) = s
      BY <2>1
    <3>2. p[k] \in 0 .. m - 1 /\ e[s] = queue.elements[At(p[k])]
      BY <1>1, <1>5, <3>1
    <3> HIDE DEF e
    <3> QED
      BY <1>2, <1>3, <3>2
  <2>2. CASE ~\E k \in 0 .. m - 1 : At(k) = s
    BY <1>2, <2>2
  <2> QED
    BY <2>1, <2>2
<1>7. queue' = [queue EXCEPT !.elements = e]
  BY <1>1
<1> HIDE DEF e
<1>8. /\ queue' = [pop |-> queue'.pop, push |-> queue'.push,
                   capacity |-> queue'.capacity, elements |-> queue'.elements]
      /\ queue'.pop = queue.pop /\ queue'.push = queue.push
      /\ queue'.capacity = c /\ queue'.elements = e
  BY <1>7 DEF QueueInv, Ring
<1>9. Ring(queue')
  BY <1>2, <1>6, <1>8 DEF Ring
<1>10. NumElement(queue') = m /\ \A k : Slot(queue', k) = Slot(queue, k)
  BY <1>8 DEF NumElement, Slot
<1> DEFINE r == [k \in 1 .. m |-> p[k - 1] + 1]
<1>11. \A k \in 1 .. m : /\ k - 1 \in 0 .. m - 1 /\ p[k - 1] \in 0 .. m - 1
                         /\ r[k] = p[k - 1] + 1 /\ r[k] \in 1 .. m
                         /\ (k - 1) + 1 = k
  BY <1>2, SMTT(30)
<1>12. \A k \in 1 .. m : e[Slot(queue, k)] = queue.elements[Slot(queue, r[k])]
  <2> SUFFICES ASSUME NEW k \in 1 .. m
               PROVE  e[Slot(queue, k)] = queue.elements[Slot(queue, r[k])]
    OBVIOUS
  <2>1. Slot(queue, k) = At(k - 1) /\ Slot(queue, r[k]) = At(p[k - 1])
    BY <1>3, <1>11
  <2> QED
    BY <1>5, <1>11, <2>1
<1>13. r \in [1 .. m -> 1 .. m]
  BY <1>11
<1>14. \A k, j \in 1 .. m : r[k] = r[j] => k = j
  <2> SUFFICES ASSUME NEW k \in 1 .. m, NEW j \in 1 .. m, r[k] = r[j]
               PROVE  k = j
    OBVIOUS
  <2>1. p[k - 1] = p[j - 1]
    BY <1>2, <1>11, SMTT(30)
  <2>2. k - 1 = j - 1
    BY <1>1, <1>11, <2>1
  <2> QED
    BY <1>2, <2>2
<1> HIDE DEF r
<1>15. RingFilled(queue')
  <2>1. \A k \in 1 .. m : queue'.elements[Slot(queue', k)] \in Items
    BY <1>8, <1>10, <1>12, <1>13 DEF QueueInv, RingFilled
  <2> QED
    BY <1>10, <2>1 DEF RingFilled
<1>16. QueueInv'
  BY <1>1, <1>9, <1>15, Zenon DEF QueueInv, CallOK, Ring, RingFilled, Slot, NumElement
<1>17. /\ Contents = ContentsOf(queue) /\ Contents' = ContentsOf(queue')
       /\ Len(Contents) = m
       /\ \A k \in 1 .. m : Contents[k] = queue.elements[Slot(queue, k)]
  BY ContentsType DEF QueueInv, Contents, ContentsOf, Slot, NumElement
<1>18. Contents' = [k \in 1 .. m |-> Contents[r[k]]]
  <2>1. Contents' = [k \in 1 .. m |-> e[Slot(queue, k)]]
    BY <1>8, <1>10, <1>17 DEF ContentsOf
  <2>2. \A k \in 1 .. m : e[Slot(queue, k)] = Contents[r[k]]
    BY <1>12, <1>13, <1>17
  <2> QED
    BY <2>1, <2>2
<1>19. DOMAIN r = 1 .. m
  BY <1>13
<1>20. Fifo!FifoShuffle
  <2>1. \E f \in [1 .. Len(Contents) -> 1 .. Len(Contents)] :
            /\ \A i, j \in DOMAIN f : f[i] = f[j] => i = j
            /\ Contents' = [i \in 1 .. Len(Contents) |-> Contents[f[i]]]
    <3>1. /\ r \in [1 .. Len(Contents) -> 1 .. Len(Contents)]
          /\ Contents' = [i \in 1 .. Len(Contents) |-> Contents[r[i]]]
      BY <1>13, <1>17, <1>18
    <3>2. \A i, j \in DOMAIN r : r[i] = r[j] => i = j
      BY <1>14, <1>19
    <3> QED
      BY <3>1, <3>2
  <2> QED
    BY <1>1, <2>1 DEF Fifo!FifoShuffle
<1> QED
  BY <1>16, <1>20

LEMMA QueueStep ==
  ASSUME QueueInv, [QueueNext]_queueVars
  PROVE  QueueInv' /\ [Fifo!FifoNext]_<<Contents, queueCall>>
<1>1. CASE UNCHANGED queueVars
  <2>1. UNCHANGED queue /\ UNCHANGED queueCall
    BY <1>1 DEF queueVars
  <2>2. UNCHANGED <<Contents, queueCall>>
    BY <2>1 DEF Contents
  <2>3. QueueInv'
    BY <2>1 DEF QueueInv, CallOK, Ring, RingFilled, Slot, NumElement
  <2> QED
    BY <2>2, <2>3
<1>2. CASE QueueNext
  BY <1>2, PushIsFifo, PopIsFifo, ClearIsFifo, ShuffleIsFifo
  DEF QueueNext, Fifo!FifoNext
<1> QED
  BY <1>1, <1>2

\* The indexes never meet and never leave the array, whatever is pushed,
\* popped, cleared, shuffled or grown; nothing but items is ever popped.
THEOREM IndexesNeverMeet == QueueSpec => []QueueTypeOK
<1>1. QueueInv => QueueTypeOK
  BY HowMany DEF QueueInv, CallOK, Ring, QueueTypeOK
<1>2. QueueInv /\ [QueueNext]_queueVars => QueueInv'
  BY QueueStep
<1> QED
  BY QueueBegins, <1>1, <1>2, PTL DEF QueueSpec

\* The circular buffer is a first-in-first-out queue.
THEOREM BufferIsFifo == QueueSpec => QueueIsFifo
<1>1. QueueInv /\ [QueueNext]_queueVars =>
          QueueInv' /\ [Fifo!FifoNext]_<<Contents, queueCall>>
  BY QueueStep
<1> QED
  BY QueueBegins, <1>1, PTL DEF QueueSpec, QueueIsFifo, Fifo!FifoSpec

-----------------------------------------------------------------------------
(* The write-set filter *)

\* A mark is a position of the filter.
LEMMA MarksArePositions ==
  ASSUME NEW k \in Keys
  PROVE  Marks(k) \subseteq Positions
<1> SUFFICES ASSUME NEW n \in 0 .. NumHashes - 1
             PROVE  nthHash(n, k) \in Positions
  BY DEF Marks
<1>1. HashA[k] + n * HashB[k] \in Nat
  BY FilterAssumption
<1>2. (HashA[k] + n * HashB[k]) % WordSize \in Nat
  BY <1>1, FilterAssumption
<1> QED
  BY <1>2, FilterAssumption DEF nthHash, Positions

LEMMA FilterNextBits ==
  ASSUME BitsOfWriteSet, [FilterNext]_filterVars
  PROVE  BitsOfWriteSet'
<1>1. ASSUME NEW k \in Keys, Log(k)
      PROVE  BitsOfWriteSet'
  BY <1>1 DEF Log, BitsOfWriteSet
<1>2. CASE Reset
  BY <1>2 DEF Reset, BitsOfWriteSet
<1>3. CASE UNCHANGED filterVars
  BY <1>3 DEF filterVars, BitsOfWriteSet
<1> QED
  BY <1>1, <1>2, <1>3 DEF FilterNext

\* The filter is the union of the marks of what is logged.
THEOREM FilterExact == FilterSpec => []BitsOfWriteSet
<1>1. FilterInit => BitsOfWriteSet
  BY DEF FilterInit, BitsOfWriteSet
<1> QED
  BY <1>1, FilterNextBits, PTL DEF FilterSpec

\* No logged address is ever hidden by the filter.
THEOREM NoFalseNegatives == FilterSpec => []LookupExact
<1>1. BitsOfWriteSet => LookupExact
  BY MarksArePositions
  DEF BitsOfWriteSet, LookupExact, Lookup, Contains
<1> QED
  BY FilterExact, <1>1, PTL

-----------------------------------------------------------------------------
(* Loops *)

Smaller == {ss \in Nat \X Nat : ss[1] < ss[2]}

LEMMA SmallerWellFounded == IsWellFoundedOn(Smaller, Nat)
BY NatLessThanWellFounded DEF OpToRel, Smaller

LEMMA HasLeast ==
  ASSUME NEW T \in SUBSET Nat, T # {}
  PROVE  \E x \in T : \A y \in T : ~(y < x)
<1>1. \E x \in T : \A y \in T : <<y, x>> \notin Smaller
  BY SmallerWellFounded, WFMin
<1> QED
  BY <1>1 DEF Smaller

\* f[x] is what the loop that starts with x comes to: it takes next[x] for
\* x until x is in Stop.
IsLoop(f, S, Stop, next) ==
    f = [x \in S |-> IF x \in Stop THEN x ELSE f[next[x]]]

\* A loop that stays within a set is a function on it, whether it ends or
\* not: whatever it can come to is the same after one turn.
LEMMA LoopExists ==
  ASSUME NEW S, NEW Stop, NEW next, \A x \in S \ Stop : next[x] \in S
  PROVE  \E f : IsLoop(f, S, Stop, next)
<1> DEFINE Closed(A) == \A x \in A \ Stop : next[x] \in A
           Comes(x)  == {y \in S : \A A \in SUBSET S :
                                       Closed(A) /\ x \in A => y \in A}
           End(x)    == CHOOSE y : y \in Comes(x) \cap Stop
<1>1. ASSUME NEW x \in S \cap Stop PROVE End(x) = x
  <2>1. Comes(x) = {x}
    <3>1. Closed({x}) /\ {x} \in SUBSET S
      BY <1>1
    <3>2. x \in Comes(x) /\ \A y \in Comes(x) : y \in {x}
      BY <3>1, <1>1
    <3> HIDE DEF Comes
    <3> QED
      BY <3>2
  <2> HIDE DEF Comes
  <2> QED
    BY <1>1, <2>1
<1>2. ASSUME NEW x \in S \ Stop PROVE End(x) = End(next[x])
  <2> DEFINE n == next[x]
  <2>1. n \in S
    BY <1>2
  <2>2. \A A \in SUBSET S : Closed(A) /\ x \in A => n \in A
    BY <1>2
  <2>3. \A y \in Comes(n) : y \in Comes(x)
    BY <2>2
  <2>4. ASSUME NEW y \in Comes(x), y # x PROVE y \in Comes(n)
    <3> SUFFICES ASSUME NEW A \in SUBSET S, Closed(A), n \in A
                 PROVE  y \in A
      BY <2>4
    <3>1. A \cup {x} \in SUBSET S /\ Closed(A \cup {x})
      BY <1>2
    <3> QED
      BY <2>4, <3>1
  <2> HIDE DEF Comes
  <2>5. Comes(x) \cap Stop = Comes(n) \cap Stop
    BY <1>2, <2>3, <2>4
  <2> QED
    BY <2>5
<1> DEFINE g == [x \in S |-> End(x)]
<1> HIDE DEF End
<1>3. g = [x \in S |-> IF x \in Stop THEN x ELSE g[next[x]]]
  BY <1>1, <1>2
<1> HIDE DEF g
<1> QED
  BY <1>3 DEF IsLoop

\* What holds before every turn, and a measure that every turn makes
\* smaller: the loop ends, and it holds then.
LEMMA LoopEnds ==
  ASSUME NEW S, NEW Stop, NEW next, NEW f, IsLoop(f, S, Stop, next),
         NEW I \in SUBSET S, NEW mu \in [S -> Nat],
         \A x \in I \ Stop : next[x] \in I /\ mu[next[x]] < mu[x]
  PROVE  \A x \in I : f[x] \in I \cap Stop
<1> DEFINE Bad == {x \in I : f[x] \notin I \cap Stop}
           T   == {mu[x] : x \in Bad}
<1> SUFFICES ASSUME Bad # {} PROVE FALSE
  OBVIOUS
<1>1. T \in SUBSET Nat /\ T # {}
  OBVIOUS
<1>2. PICK m \in T : \A y \in T : ~(y < m)
  BY <1>1, HasLeast
<1>3. PICK x \in Bad : m = mu[x]
  BY <1>2
<1>4. x \notin Stop
  BY <1>3 DEF IsLoop
<1>5. next[x] \in I /\ mu[next[x]] < mu[x] /\ f[x] = f[next[x]]
  BY <1>3, <1>4 DEF IsLoop
<1>6. next[x] \in Bad
  BY <1>3, <1>5
<1> QED
  BY <1>2, <1>3, <1>5, <1>6

-----------------------------------------------------------------------------
(* The list *)

KeyOf(n)    == list.data[n][1]
After(m, n) == n = ListHead \/ KeyOf(n) < KeyOf(m)
Later(n)    == {m \in listNodesUsed : After(m, n)}

ListPlaces == ListNodes \cup {ListHead}

Lists == [next : [ListPlaces -> ListNodes \cup {ListNil}],
          data : [ListNodes -> ListPairs \cup {ListNil}], size : Nat]

ListTypes ==
    /\ list \in Lists
    /\ listNodesUsed \in SUBSET ListNodes

\* n points at the next greater of the nodes in use.
PointsAtNext(n) ==
    IF list.next[n] = ListNil THEN Later(n) = {}
    ELSE /\ list.next[n] \in Later(n)
         /\ \A m \in Later(n) : KeyOf(list.next[n]) <= KeyOf(m)

\* The inductive invariant of the list.
ListInv ==
    /\ ListTypes
    /\ \A n \in listNodesUsed : list.data[n] \in ListPairs
    /\ \A m, n \in listNodesUsed : KeyOf(m) = KeyOf(n) => m = n
    /\ \A n \in ListNodes \ listNodesUsed : list.next[n] = ListNil
    /\ \A n \in listNodesUsed \cup {ListHead} : PointsAtNext(n)
    /\ list.size = Cardinality(listNodesUsed)

LEMMA NodeFacts ==
  ASSUME ListInv
  PROVE  /\ \A n \in listNodesUsed : KeyOf(n) \in Int /\ n \in ListNodes
                                     /\ n # ListHead /\ n # ListNil
         /\ IsFiniteSet(listNodesUsed)
         /\ ListHead \notin ListNodes /\ ListNil \notin ListPlaces
<1>1. IsFiniteSet(listNodesUsed)
  BY ListAssumption, FS_Subset DEF ListInv, ListTypes, Lists
<1> QED
  BY <1>1, ListAssumption DEF ListInv, ListTypes, Lists, KeyOf, ListPlaces

\* How far it is from a node to the end.
LEMMA FewerLater ==
  ASSUME ListInv
  PROVE  \E mu \in [ListPlaces -> Nat] :
             \A n \in listNodesUsed \cup {ListHead} :
                 list.next[n] # ListNil =>
                     /\ list.next[n] \in listNodesUsed
                     /\ mu[list.next[n]] < mu[n]
<1> DEFINE mu == [n \in ListPlaces |-> Cardinality(Later(n))]
<1>1. ASSUME NEW n
      PROVE  IsFiniteSet(Later(n)) /\ Cardinality(Later(n)) \in Nat
  BY NodeFacts, FS_Subset, FS_CardinalityType DEF Later
<1>2. mu \in [ListPlaces -> Nat]
  BY <1>1
<1>3. ASSUME NEW n \in listNodesUsed \cup {ListHead}, list.next[n] # ListNil
      PROVE  /\ list.next[n] \in listNodesUsed
             /\ Cardinality(Later(list.next[n])) < Cardinality(Later(n))
  <2> DEFINE m == list.next[n]
  <2>1. m \in Later(n) /\ m \in listNodesUsed
    BY <1>3 DEF ListInv, PointsAtNext, Later
  <2>2. m \notin Later(m)
    BY <2>1, NodeFacts DEF Later, After
  <2>3. Later(m) \in SUBSET Later(n)
    BY <1>3, <2>1, NodeFacts DEF Later, After
  <2> HIDE DEF m
  <2>4. /\ Cardinality(Later(m)) <= Cardinality(Later(n))
        /\ Cardinality(Later(m)) # Cardinality(Later(n))
    BY <1>1, <2>1, <2>2, <2>3, FS_Subset
  <2>5. Cardinality(Later(m)) < Cardinality(Later(n))
    BY <1>1, <2>4
  <2> QED
    BY <2>1, <2>5 DEF m
<1>4. \A n \in listNodesUsed \cup {ListHead} : n \in ListPlaces
  BY NodeFacts DEF ListPlaces
<1> QED
  BY <1>2, <1>3, <1>4

\* The search ends at the place of the key.
LEMMA PreviousFound ==
  ASSUME ListInv, NEW key \in Int, NEW prev, prev = findPrevious(key)
  PROVE  /\ prev \in listNodesUsed \cup {ListHead}
         /\ prev # ListHead => KeyOf(prev) < key
         /\ list.next[prev] # ListNil =>
                /\ list.next[prev] \in listNodesUsed
                /\ key <= KeyOf(list.next[prev])
<1> DEFINE Stop == {n \in ListPlaces : \/ list.next[n] = ListNil
                                       \/ list.data[list.next[n]][1] >= key}
           next == list.next
           I == {ListHead} \cup {n \in listNodesUsed : KeyOf(n) < key}
           Walk(f) == IsLoop(f, ListPlaces, Stop, next)
<1>1. \A n \in ListPlaces \ Stop : next[n] \in ListPlaces
  BY DEF ListInv, ListTypes, Lists, ListPlaces
<1>2. \E f : Walk(f)
  <2> HIDE DEF Stop, next
  <2> QED
    BY <1>1, LoopExists
<1>3. ASSUME NEW f
      PROVE  Walk(f) <=>
             f = [n \in ListNodes \cup {ListHead} |->
                    IF \/ list.next[n] = ListNil
                       \/ list.data[list.next[n]][1] >= key
                    THEN n ELSE f[list.next[n]]]
  BY DEF ListPlaces, IsLoop
<1>4. PICK f : Walk(f) /\ findPrevious(key) = f[ListHead]
  <2> DEFINE w == CHOOSE f : f = [n \in ListNodes \cup {ListHead} |->
                    IF \/ list.next[n] = ListNil
                       \/ list.data[list.next[n]][1] >= key
                    THEN n ELSE f[list.next[n]]]
  <2>1. findPrevious(key) = w[ListHead]
    BY DEF findPrevious
  <2>2. w = CHOOSE f : Walk(f)
    BY <1>3, SMTT(30)
  <2> HIDE DEF Walk
  <2>3. Walk(w)
    BY <1>2, <2>2
  <2> QED
    BY <2>1, <2>3
<1>5. PICK mu \in [ListPlaces -> Nat] :
          \A n \in listNodesUsed \cup {ListHead} :
              list.next[n] # ListNil =>
                  /\ list.next[n] \in listNodesUsed
                  /\ mu[list.next[n]] < mu[n]
  BY FewerLater
<1>6. I \in SUBSET ListPlaces
  BY NodeFacts DEF ListPlaces
<1>7. \A n \in I \ Stop : next[n] \in I /\ mu[next[n]] < mu[n]
  <2> SUFFICES ASSUME NEW n \in I \ Stop
               PROVE  next[n] \in I /\ mu[next[n]] < mu[n]
    OBVIOUS
  <2>1. n \in listNodesUsed \cup {ListHead} /\ list.next[n] # ListNil
    BY <1>6
  <2>2. list.next[n] \in listNodesUsed /\ mu[list.next[n]] < mu[n]
    BY <1>5, <2>1
  <2>3. KeyOf(list.next[n]) \in Int /\ ~(KeyOf(list.next[n]) >= key)
    BY <1>6, <2>2, NodeFacts DEF KeyOf
  <2> QED
    BY <2>2, <2>3
<1>8. f[ListHead] \in I \cap Stop
  <2>1. ListHead \in I /\ Walk(f)
    BY <1>4
  <2> HIDE DEF I, Stop, next
  <2>2. \A n \in I : f[n] \in I \cap Stop
    BY <1>5, <1>6, <1>7, <2>1, LoopEnds
  <2> QED
    BY <2>1, <2>2
<1>9. prev \in I /\ prev \in Stop
  BY <1>4, <1>8
<1>10. prev \in listNodesUsed \cup {ListHead}
  BY <1>9
<1>11. list.next[prev] # ListNil => list.next[prev] \in listNodesUsed
  BY <1>5, <1>10
<1> QED
  BY <1>9, <1>10, <1>11, NodeFacts DEF KeyOf

LEMMA NodeFound ==
  ASSUME ListInv, NEW key \in Int
  PROVE  /\ NodeOf(key) = ListNil => \A n \in listNodesUsed : KeyOf(n) # key
         /\ NodeOf(key) # ListNil =>
                /\ NodeOf(key) \in listNodesUsed /\ KeyOf(NodeOf(key)) = key
                /\ list.next[findPrevious(key)] = NodeOf(key)
<1> DEFINE prev == findPrevious(key)
           node == list.next[prev]
<1>1. /\ prev \in listNodesUsed \cup {ListHead}
      /\ prev # ListHead => KeyOf(prev) < key
      /\ node # ListNil => node \in listNodesUsed /\ key <= KeyOf(node)
  BY PreviousFound
<1>2. NodeOf(key) = IF node = ListNil THEN ListNil
                    ELSE IF KeyOf(node) = key THEN node ELSE ListNil
  BY DEF NodeOf, KeyOf
<1> HIDE DEF node, prev
<1>3. ASSUME NEW n \in listNodesUsed, KeyOf(n) = key
      PROVE  node # ListNil /\ KeyOf(node) = key
  <2>1. n \in Later(prev)
    BY <1>1, <1>3 DEF Later, After
  <2>2. PointsAtNext(prev)
    BY <1>1 DEF ListInv
  <2>3. node # ListNil /\ KeyOf(node) <= key
    BY <1>3, <2>1, <2>2 DEF PointsAtNext, node
  <2>4. KeyOf(node) \in Int /\ key <= KeyOf(node)
    BY <1>1, <2>3, NodeFacts
  <2> QED
    BY <2>3, <2>4
<1> QED
  BY <1>1, <1>2, <1>3 DEF node, prev

\* An iterator meets the nodes in use.
LEMMA ContentInUse ==
  ASSUME ListInv
  PROVE  ListContent = listNodesUsed
<1> DEFINE D == ListNodes \cup {ListNil}
           From(f) == f = [n \in D |-> IF n = ListNil THEN {}
                                       ELSE {n} \cup f[list.next[n]]]
           Rest(n) == IF n \in listNodesUsed THEN {n} \cup Later(n)
                      ELSE IF n = ListNil THEN {} ELSE {n}
           g == [n \in D |-> Rest(n)]
<1>1. ASSUME NEW n \in listNodesUsed, list.next[n] # ListNil
      PROVE  /\ list.next[n] \in listNodesUsed
             /\ Later(n) = {list.next[n]} \cup Later(list.next[n])
  <2> DEFINE m == list.next[n]
  <2>1. /\ m \in Later(n) /\ \A x \in Later(n) : KeyOf(m) <= KeyOf(x)
    BY <1>1 DEF ListInv, PointsAtNext
  <2>2. m \in listNodesUsed
    BY <2>1 DEF Later
  <2> HIDE DEF m
  <2>3. \A x \in Later(n) : x = m \/ x \in Later(m)
    <3> SUFFICES ASSUME NEW x \in Later(n), x # m PROVE x \in Later(m)
      OBVIOUS
    <3>1. x \in listNodesUsed /\ KeyOf(x) # KeyOf(m) /\ KeyOf(m) <= KeyOf(x)
      BY <2>1, <2>2 DEF Later, ListInv
    <3> QED
      BY <2>2, <3>1, NodeFacts DEF Later, After
  <2>4. Later(m) \subseteq Later(n)
    BY <1>1, <2>1, <2>2, NodeFacts DEF Later, After
  <2> QED
    BY <2>1, <2>2, <2>3, <2>4 DEF m
<1>2. ASSUME NEW n \in D
      PROVE  Rest(n) = IF n = ListNil THEN {}
                       ELSE {n} \cup g[list.next[n]]
  <2>1. ListNil \notin listNodesUsed /\ ListNil \in D /\ g[ListNil] = {}
    BY NodeFacts
  <2>2. CASE n \in listNodesUsed /\ list.next[n] = ListNil
    <3>1. Later(n) = {}
      BY <2>2 DEF ListInv, PointsAtNext
    <3> QED
      BY <2>1, <2>2, <3>1
  <2>3. CASE n \in listNodesUsed /\ list.next[n] # ListNil
    <3>1. list.next[n] \in D
      BY <1>1, <2>3, NodeFacts
    <3> QED
      BY <1>1, <2>1, <2>3, <3>1
  <2>4. CASE n \notin listNodesUsed /\ n # ListNil
    <3>1. list.next[n] = ListNil
      BY <2>4 DEF ListInv
    <3> QED
      BY <2>1, <2>4, <3>1
  <2>5. CASE n = ListNil
    BY <2>1, <2>5
  <2> QED
    BY <2>2, <2>3, <2>4, <2>5
<1>3. From(g)
  BY <1>2
<1>4. PICK f : From(f) /\ ListContent = f[list.next[ListHead]]
  <2> DEFINE w == CHOOSE f : From(f)
  <2>1. ListContent = w[list.next[ListHead]]
    BY DEF ListContent
  <2> HIDE DEF From, g
  <2>2. From(w)
    BY <1>3
  <2> QED
    BY <2>1, <2>2
<1>5. \A n \in listNodesUsed : f[n] = {n} \cup Later(n)
  <2>1. PICK mu \in [ListPlaces -> Nat] :
            \A n \in listNodesUsed \cup {ListHead} :
                list.next[n] # ListNil =>
                    /\ list.next[n] \in listNodesUsed
                    /\ mu[list.next[n]] < mu[n]
    BY FewerLater
  <2> DEFINE Bad == {n \in listNodesUsed : f[n] # {n} \cup Later(n)}
             T == {mu[n] : n \in Bad}
  <2> SUFFICES ASSUME Bad # {} PROVE FALSE
    OBVIOUS
  <2>2. T \in SUBSET Nat /\ T # {}
    BY NodeFacts DEF ListPlaces
  <2>3. PICK k \in T : \A y \in T : ~(y < k)
    BY <2>2, HasLeast
  <2>4. PICK n \in Bad : k = mu[n]
    BY <2>3
  <2>5. f[n] = {n} \cup f[list.next[n]] /\ f[ListNil] = {}
    BY <1>4, NodeFacts
  <2>6. CASE list.next[n] = ListNil
    <3>1. Later(n) = {}
      BY <2>6 DEF ListInv, PointsAtNext
    <3> QED
      BY <2>4, <2>5, <2>6, <3>1
  <2>7. CASE list.next[n] # ListNil
    <3>1. list.next[n] \in listNodesUsed /\ mu[list.next[n]] < k
      BY <2>1, <2>4, <2>7
    <3>2. list.next[n] \notin Bad
      BY <2>3, <3>1
    <3>3. f[list.next[n]] = Later(n)
      BY <1>1, <2>7, <3>1, <3>2
    <3> QED
      BY <2>4, <2>5, <3>3
  <2> QED
    BY <2>6, <2>7
<1>6. Later(ListHead) = listNodesUsed /\ PointsAtNext(ListHead)
  BY DEF Later, After, ListInv
<1>7. CASE list.next[ListHead] = ListNil
  <2>1. f[ListNil] = {} /\ listNodesUsed = {}
    BY <1>4, <1>6, <1>7 DEF PointsAtNext
  <2> QED
    BY <1>4, <1>7, <2>1
<1>8. CASE list.next[ListHead] # ListNil
  <2> DEFINE m == list.next[ListHead]
  <2>1. m \in listNodesUsed /\ \A x \in listNodesUsed : KeyOf(m) <= KeyOf(x)
    BY <1>6, <1>8 DEF PointsAtNext
  <2> HIDE DEF m
  <2>2. \A x \in listNodesUsed : x = m \/ x \in Later(m)
    <3> SUFFICES ASSUME NEW x \in listNodesUsed, x # m PROVE x \in Later(m)
      OBVIOUS
    <3>1. KeyOf(x) # KeyOf(m) /\ KeyOf(m) <= KeyOf(x)
      BY <2>1 DEF ListInv
    <3> QED
      BY <2>1, <3>1, NodeFacts DEF Later, After
  <2>3. {m} \cup Later(m) = listNodesUsed
    BY <2>1, <2>2 DEF Later
  <2> QED
    BY <1>4, <1>5, <2>1, <2>3 DEF m
<1> QED
  BY <1>7, <1>8

\* A new node between the key's predecessor and its successor.
LEMMA InsertKeeps ==
  ASSUME ListInv, NEW d \in ListPairs, NodeOf(d[1]) = ListNil,
         NEW n \in ListNodes \ listNodesUsed,
         NEW prev, prev = findPrevious(d[1]),
         list' = [allocNode(list, n, d) EXCEPT !.next[n] = list.next[prev],
                                               !.next[prev] = n,
                                               !.size = @ + 1],
         listNodesUsed' = listNodesUsed \cup {n}
  PROVE  ListInv' /\ list'.data = [list.data EXCEPT ![n] = d]
<1> DEFINE key == d[1]
<1>0. PICK node : node = list.next[prev]
  OBVIOUS
<1>1. /\ key \in Int
      /\ prev \in listNodesUsed \cup {ListHead} /\ prev \in ListPlaces
      /\ prev # ListHead => KeyOf(prev) < key
      /\ node # ListNil => node \in listNodesUsed /\ key <= KeyOf(node)
      /\ node \in ListNodes \cup {ListNil}
      /\ n \in ListPlaces /\ n # prev /\ n # ListHead /\ n # ListNil
  <2>1. key \in Int
    BY ListAssumption
  <2> QED
    BY <1>0, <2>1, PreviousFound, NodeFacts
       DEF ListPlaces, ListInv, ListTypes
<1>2. \A m \in listNodesUsed : KeyOf(m) # key
  BY <1>1, NodeFound
<1> HIDE DEF key
<1>3. /\ list' \in Lists
      /\ list'.next = [[[list.next EXCEPT ![n] = ListNil]
                           EXCEPT ![n] = node] EXCEPT ![prev] = n]
      /\ list'.data = [list.data EXCEPT ![n] = d]
      /\ list'.size = list.size + 1
  <2>1. /\ list \in Lists /\ list.size + 1 \in Nat
        /\ d \in ListPairs \cup {ListNil}
        /\ ListNil \in ListNodes \cup {ListNil}
    BY DEF ListInv, ListTypes, Lists
  <2>2. PICK a : a = [list EXCEPT !.data[n] = d]
    OBVIOUS
  <2>3. PICK b : b = [a EXCEPT !.next[n] = ListNil]
    OBVIOUS
  <2>4. PICK c : c = [b EXCEPT !.next[n] = node]
    OBVIOUS
  <2>5. PICK e : e = [c EXCEPT !.next[prev] = n]
    OBVIOUS
  <2>6. b = allocNode(list, n, d)
    BY <2>2, <2>3 DEF allocNode
  <2>7. list' = [e EXCEPT !.size = @ + 1]
    BY <1>0, <2>4, <2>5, <2>6
  <2>8. /\ a \in Lists /\ a.data = [list.data EXCEPT ![n] = d]
        /\ a.next = list.next /\ a.size = list.size
    BY <2>1, <2>2 DEF Lists
  <2>9. /\ b \in Lists /\ b.next = [a.next EXCEPT ![n] = ListNil]
        /\ b.data = a.data /\ b.size = a.size
    BY <1>1, <2>1, <2>3, <2>8 DEF Lists
  <2>10. /\ c \in Lists /\ c.next = [b.next EXCEPT ![n] = node]
         /\ c.data = b.data /\ c.size = b.size
    <3>1. n \in ListPlaces /\ node \in ListNodes \cup {ListNil}
      BY <1>1
    <3> QED
      BY <2>4, <2>9, <3>1 DEF Lists
  <2>11. /\ e \in Lists /\ e.next = [c.next EXCEPT ![prev] = n]
         /\ e.data = c.data /\ e.size = c.size
    BY <1>1, <2>5, <2>10 DEF Lists
  <2>12. list' = [e EXCEPT !.size = list.size + 1]
    <3>1. e.size = list.size
      BY <2>8, <2>9, <2>10, <2>11
    <3> QED
      BY <2>7, <3>1
  <2>13. /\ list' \in Lists /\ list'.size = list.size + 1
         /\ list'.next = e.next /\ list'.data = e.data
    BY <2>1, <2>11, <2>12 DEF Lists
  <2> QED
    BY <2>8, <2>9, <2>10, <2>11, <2>13
<1>4. /\ list'.next[n] = node /\ list'.next[prev] = n
      /\ \A x \in ListPlaces \ {n, prev} : list'.next[x] = list.next[x]
      /\ list'.data[n] = d
      /\ \A x \in ListNodes \ {n} : list'.data[x] = list.data[x]
  BY <1>1, <1>3 DEF ListInv, ListTypes, Lists
<1>5. /\ KeyOf(n)' = key
      /\ \A m \in listNodesUsed : /\ KeyOf(m)' = KeyOf(m)
                                  /\ list'.data[m] = list.data[m]
  BY <1>4, NodeFacts DEF KeyOf, key
<1>6. ListTypes'
  BY <1>3 DEF ListTypes, ListInv
<1>7. list'.size = Cardinality(listNodesUsed')
  BY <1>3, NodeFacts, FS_AddElement, ZenonT(60) DEF ListInv
<1>8. \A m \in listNodesUsed' : list'.data[m] \in ListPairs
  BY <1>3, <1>4, <1>5 DEF ListInv
<1>9. \A l, m \in listNodesUsed' : KeyOf(l)' = KeyOf(m)' => l = m
  BY <1>2, <1>3, <1>5 DEF ListInv
<1>10. \A m \in ListNodes \ listNodesUsed' : list'.next[m] = ListNil
  BY <1>1, <1>3, <1>4, NodeFacts DEF ListInv, ListPlaces
<1>11. /\ \A x \in listNodesUsed \cup {ListHead} :
              Later(x)' = Later(x) \cup (IF x = ListHead \/ KeyOf(x) < key
                                         THEN {n} ELSE {})
       /\ Later(n)' = {m \in listNodesUsed : key < KeyOf(m)}
  <2>1. \A x \in listNodesUsed \cup {ListHead}, m \in listNodesUsed \cup {n} :
            After(m, x)' <=> x = ListHead \/ KeyOf(x) < KeyOf(m)'
    BY <1>5, NodeFacts DEF After
  <2>2. \A m \in listNodesUsed \cup {n} : After(m, n)' <=> key < KeyOf(m)'
    BY <1>1, <1>5 DEF After
  <2>3. ~(key < KeyOf(n)') /\ KeyOf(n)' = key
    BY <1>1, <1>5
  <2>4. ASSUME NEW x \in listNodesUsed \cup {ListHead}
        PROVE  Later(x)' = Later(x) \cup (IF x = ListHead \/ KeyOf(x) < key
                                          THEN {n} ELSE {})
    <3>1. \A m \in listNodesUsed : After(m, x)' <=> After(m, x)
      BY <1>5, <2>1 DEF After
    <3>2. After(n, x)' <=> x = ListHead \/ KeyOf(x) < key
      BY <2>1, <2>3
    <3>3. Later(x)' = {m \in listNodesUsed \cup {n} : After(m, x)'}
      BY <1>3 DEF Later
    <3> QED
      BY <3>1, <3>2, <3>3 DEF Later
  <2>5. Later(n)' = {m \in listNodesUsed \cup {n} : After(m, n)'}
    BY <1>3 DEF Later
  <2> QED
    BY <1>5, <2>2, <2>3, <2>4, <2>5
<1>12. /\ PointsAtNext(prev)
       /\ \A m \in Later(prev) : node # ListNil /\ KeyOf(node) <= KeyOf(m)
       /\ node # ListNil => key < KeyOf(node) /\ node \in Later(prev)
  <2>1. PointsAtNext(prev)
    BY <1>1 DEF ListInv
  <2>2. \A m \in Later(prev) : node # ListNil /\ KeyOf(node) <= KeyOf(m)
    BY <1>0, <2>1 DEF PointsAtNext
  <2>3. node # ListNil => key < KeyOf(node) /\ node \in Later(prev)
    BY <1>0, <1>1, <1>2, <2>1, NodeFacts DEF PointsAtNext
  <2> QED
    BY <2>1, <2>2, <2>3
\* A node before the key's place, other than prev, is before prev.
<1>13. ASSUME NEW x \in listNodesUsed \cup {ListHead}, x # prev,
              x = ListHead \/ KeyOf(x) < key
       PROVE  prev \in Later(x)
  <2>1. CASE x = ListHead
    BY <1>1, <1>13, <2>1 DEF Later, After
  <2>2. CASE x # ListHead
    <3>1. x \notin Later(prev)
      BY <1>1, <1>12, <1>13, <2>2, NodeFacts
    <3> QED
      BY <1>1, <1>13, <2>2, <3>1, NodeFacts DEF Later, After, ListInv
  <2> QED
    BY <2>1, <2>2
<1>14. ASSUME NEW x \in listNodesUsed' \cup {ListHead} PROVE PointsAtNext(x)'
  <2> SUFFICES ASSUME NEW z, z = list'.next[x]
               PROVE  IF z = ListNil THEN Later(x)' = {}
                      ELSE /\ z \in Later(x)'
                           /\ \A m \in Later(x)' : KeyOf(z)' <= KeyOf(m)'
    BY DEF PointsAtNext
  <2>1. CASE x = n
    <3>1. \A m \in Later(n)' : m \in Later(prev) /\ KeyOf(m)' = KeyOf(m)
      BY <1>1, <1>5, <1>11, NodeFacts DEF Later, After
    <3>2. CASE node = ListNil
      BY <1>4, <1>12, <2>1, <3>1, <3>2
    <3>3. CASE node # ListNil
      BY <1>1, <1>4, <1>5, <1>11, <1>12, <2>1, <3>1, <3>3
    <3> QED
      BY <3>2, <3>3
  <2>2. CASE x = prev
    <3>1. n \in Later(prev)' /\ list'.next[prev] = n /\ n # ListNil
      BY <1>1, <1>4, <1>11
    <3>2. \A m \in Later(prev)' : KeyOf(n)' <= KeyOf(m)'
      <4> SUFFICES ASSUME NEW m \in Later(prev)' PROVE KeyOf(n)' <= KeyOf(m)'
        OBVIOUS
      <4>1. CASE m = n
        BY <1>1, <1>5, <4>1
      <4>2. CASE m # n
        <5>1. m \in Later(prev) /\ m \in listNodesUsed
          BY <1>1, <1>11, <4>2 DEF Later
        <5>2. key < KeyOf(node) /\ KeyOf(node) <= KeyOf(m)
          BY <1>12, <5>1
        <5> QED
          BY <1>1, <1>5, <1>12, <5>1, <5>2, NodeFacts
      <4> QED
        BY <4>1, <4>2
    <3> QED
      BY <2>2, <3>1, <3>2
  <2>3. CASE x # n /\ x # prev
    <3>1. /\ x \in listNodesUsed \cup {ListHead}
          /\ list'.next[x] = list.next[x]
      BY <1>3, <1>4, <2>3, NodeFacts DEF ListPlaces
    <3>2. PointsAtNext(x)
      BY <3>1 DEF ListInv
    <3>3. CASE list.next[x] = ListNil
      <4>1. Later(x) = {}
        BY <3>2, <3>3 DEF PointsAtNext
      <4>2. ~(x = ListHead \/ KeyOf(x) < key)
        BY <1>13, <2>3, <3>1, <4>1
      <4> QED
        BY <1>11, <3>1, <3>3, <4>1, <4>2
    <3>4. CASE list.next[x] # ListNil
      <4>0. PICK y : y = list.next[x]
        OBVIOUS
      <4>1. y \in Later(x) /\ \A m \in Later(x) : KeyOf(y) <= KeyOf(m)
        BY <3>2, <3>4, <4>0 DEF PointsAtNext
      <4>2. y \in listNodesUsed /\ Later(x) \subseteq listNodesUsed
        BY <4>1 DEF Later
      <4>3. y \in Later(x)' /\ KeyOf(y)' = KeyOf(y) /\ KeyOf(y) \in Int
        BY <1>5, <1>11, <3>1, <4>1, <4>2, NodeFacts
      <4>4. ASSUME NEW m \in Later(x)' PROVE KeyOf(y) <= KeyOf(m)'
        <5>1. CASE m \in Later(x)
          BY <1>5, <4>1, <4>2, <5>1
        <5>2. CASE m \notin Later(x)
          <6>1. m = n /\ (x = ListHead \/ KeyOf(x) < key)
            BY <1>11, <3>1, <4>4, <5>2
          <6>2. prev \in Later(x)
            BY <1>13, <2>3, <3>1, <6>1
          <6>3. prev \in listNodesUsed /\ KeyOf(y) <= KeyOf(prev)
            BY <4>1, <4>2, <6>2
          <6> QED
            BY <1>1, <1>5, <4>2, <6>1, <6>3, NodeFacts
        <5> QED
          BY <5>1, <5>2
      <4> QED
        BY <3>1, <3>4, <4>0, <4>3, <4>4
    <3> QED
      BY <3>3, <3>4
  <2> QED
    BY <2>1, <2>2, <2>3
<1> QED
  BY <1>3, <1>6, <1>7, <1>8, <1>9, <1>10, <1>14 DEF ListInv

\* The node's predecessor takes over what it points at.
LEMMA RemoveKeeps ==
  ASSUME ListInv, NEW key \in Int,
         NEW prev, prev = findPrevious(key),
         NEW node, node = NodeOf(key), node # ListNil,
         list' = [freeNode(list, node) EXCEPT !.next[prev] = list.next[node],
                                              !.size = @ - 1],
         listNodesUsed' = listNodesUsed \ {node}
  PROVE  ListInv' /\ list'.data = [list.data EXCEPT ![node] = ListNil]
<1>0. PICK next : next = list.next[node]
  OBVIOUS
<1>1. /\ prev \in listNodesUsed \cup {ListHead} /\ prev \in ListPlaces
      /\ prev # ListHead => KeyOf(prev) < key
      /\ node \in listNodesUsed /\ node \in ListNodes /\ KeyOf(node) = key
      /\ list.next[prev] = node /\ node # ListNil
      /\ next \in ListNodes \cup {ListNil}
      /\ node \in ListPlaces /\ node # prev /\ node # ListHead
  <2>1. /\ prev \in listNodesUsed \cup {ListHead}
        /\ prev # ListHead => KeyOf(prev) < key
    BY PreviousFound
  <2>2. /\ node \in listNodesUsed /\ KeyOf(node) = key
        /\ list.next[prev] = node /\ node # ListNil
    BY NodeFound
  <2>3. prev \in ListPlaces /\ node \in ListNodes /\ node \in ListPlaces
    BY <2>1, <2>2, NodeFacts DEF ListPlaces
  <2>4. next \in ListNodes \cup {ListNil}
    BY <1>0, <2>3 DEF ListInv, ListTypes, Lists
  <2> QED
    BY <2>1, <2>2, <2>3, <2>4, NodeFacts
<1>2. Cardinality(listNodesUsed') = list.size - 1 /\ list.size - 1 \in Nat
  <2>1. Cardinality(listNodesUsed') = Cardinality(listNodesUsed) - 1
    BY <1>1, NodeFacts, FS_RemoveElement
  <2>2. Cardinality(listNodesUsed') \in Nat
    BY NodeFacts, FS_RemoveElement, FS_CardinalityType
  <2> QED
    BY <2>1, <2>2 DEF ListInv
<1>3. /\ list' \in Lists
      /\ list'.next = [[list.next EXCEPT ![node] = ListNil]
                           EXCEPT ![prev] = next]
      /\ list'.data = [list.data EXCEPT ![node] = ListNil]
      /\ list'.size = list.size - 1
  <2>1. /\ list \in Lists /\ ListNil \in ListPairs \cup {ListNil}
        /\ ListNil \in ListNodes \cup {ListNil}
    BY DEF ListInv, ListTypes
  <2>2. PICK a : a = [list EXCEPT !.data[node] = ListNil]
    OBVIOUS
  <2>3. PICK b : b = [a EXCEPT !.next[node] = ListNil]
    OBVIOUS
  <2>4. PICK c : c = [b EXCEPT !.next[prev] = next]
    OBVIOUS
  <2>5. b = freeNode(list, node)
    BY <2>2, <2>3 DEF freeNode
  <2>6. list' = [c EXCEPT !.size = @ - 1]
    BY <1>0, <2>4, <2>5
  <2>7. /\ a \in Lists /\ a.data = [list.data EXCEPT ![node] = ListNil]
        /\ a.next = list.next /\ a.size = list.size
    BY <1>1, <2>1, <2>2 DEF Lists
  <2>8. /\ b \in Lists /\ b.next = [a.next EXCEPT ![node] = ListNil]
        /\ b.data = a.data /\ b.size = a.size
    BY <1>1, <2>1, <2>3, <2>7 DEF Lists
  <2>9. /\ c \in Lists /\ c.next = [b.next EXCEPT ![prev] = next]
        /\ c.data = b.data /\ c.size = b.size
    BY <1>1, <2>4, <2>8 DEF Lists
  <2>10. list' = [c EXCEPT !.size = list.size - 1]
    <3>1. c.size = list.size
      BY <2>7, <2>8, <2>9
    <3> QED
      BY <2>6, <3>1
  <2>11. /\ list' \in Lists /\ list'.size = list.size - 1
         /\ list'.next = c.next /\ list'.data = c.data
    BY <1>2, <2>9, <2>10 DEF Lists
  <2> QED
    BY <2>7, <2>8, <2>9, <2>11
<1>15. /\ list'.next[node] = ListNil /\ list'.next[prev] = next
       /\ \A x \in ListPlaces \ {node, prev} : list'.next[x] = list.next[x]
       /\ \A x \in ListNodes \ {node} : list'.data[x] = list.data[x]
  BY <1>1, <1>3 DEF ListInv, ListTypes, Lists
<1>4. \A m \in listNodesUsed' : /\ KeyOf(m)' = KeyOf(m)
                                /\ list'.data[m] = list.data[m]
  BY <1>15, NodeFacts DEF KeyOf
<1>5. list'.size = Cardinality(listNodesUsed')
  BY <1>2, <1>3
<1>6. ListTypes'
  BY <1>3 DEF ListTypes, ListInv
<1>7. \A m \in listNodesUsed' : list'.data[m] \in ListPairs
  BY <1>4 DEF ListInv
<1>8. \A l, m \in listNodesUsed' : KeyOf(l)' = KeyOf(m)' => l = m
  BY <1>4 DEF ListInv
<1>9. \A m \in ListNodes \ listNodesUsed' : list'.next[m] = ListNil
  BY <1>1, <1>15, NodeFacts DEF ListInv, ListPlaces
<1>10. \A x \in listNodesUsed' \cup {ListHead} : Later(x)' = Later(x) \ {node}
  <2> SUFFICES ASSUME NEW x \in listNodesUsed' \cup {ListHead}
               PROVE  Later(x)' = Later(x) \ {node}
    OBVIOUS
  <2>1. \A m \in listNodesUsed' : After(m, x)' <=> After(m, x)
    BY <1>4 DEF After
  <2>2. Later(x)' = {m \in listNodesUsed \ {node} : After(m, x)'}
    BY DEF Later
  <2> QED
    BY <2>1, <2>2 DEF Later
<1>11. node \in Later(prev) /\ \A m \in Later(prev) : key <= KeyOf(m)
  <2>1. PointsAtNext(prev)
    BY <1>1 DEF ListInv
  <2> QED
    BY <1>1, <2>1 DEF PointsAtNext
<1>12. ASSUME NEW x \in listNodesUsed \cup {ListHead}, list.next[x] = node
       PROVE  x = prev
  <2>1. node \in Later(x) /\ \A m \in Later(x) : key <= KeyOf(m)
    <3>1. PointsAtNext(x)
      BY DEF ListInv
    <3> QED
      BY <1>1, <1>12, <3>1 DEF PointsAtNext
  <2>2. prev \notin Later(x)
    BY <1>1, <2>1, NodeFacts DEF Later
  <2>3. x \notin Later(prev)
    BY <1>1, <1>11, <2>1, NodeFacts DEF Later, After
  <2> QED
    BY <1>1, <2>2, <2>3, NodeFacts DEF Later, After, ListInv
<1>13. /\ next = ListNil => Later(node) = {}
       /\ next # ListNil => /\ next \in Later(node)
                            /\ \A m \in Later(node) : KeyOf(next) <= KeyOf(m)
  <2>1. PointsAtNext(node)
    BY <1>1 DEF ListInv
  <2> QED
    BY <1>0, <2>1 DEF PointsAtNext
<1>14. ASSUME NEW x \in listNodesUsed' \cup {ListHead} PROVE PointsAtNext(x)'
  <2> SUFFICES ASSUME NEW z, z = list'.next[x]
               PROVE  IF z = ListNil THEN Later(x)' = {}
                      ELSE /\ z \in Later(x)'
                           /\ \A m \in Later(x)' : KeyOf(z)' <= KeyOf(m)'
    BY DEF PointsAtNext
  <2>1. Later(x)' \subseteq listNodesUsed'
    BY <1>10 DEF Later
  <2>2. CASE x = prev
    <3>1. \A m \in Later(prev)' : m \in Later(node)
      BY <1>1, <1>10, <1>11, <2>2, NodeFacts DEF Later, After, ListInv
    <3>2. CASE next = ListNil
      BY <1>15, <1>13, <2>2, <3>1, <3>2
    <3>3. CASE next # ListNil
      <4>1. /\ next \in Later(node)
            /\ \A m \in Later(node) : KeyOf(next) <= KeyOf(m)
        BY <1>13, <3>3
      <4>2. next \in Later(prev) /\ next # node
        BY <1>1, <4>1, NodeFacts DEF Later, After
      <4>3. next \in Later(prev)' /\ KeyOf(next)' = KeyOf(next)
        BY <1>4, <1>10, <2>1, <2>2, <4>2
      <4> QED
        BY <1>15, <1>4, <2>1, <2>2, <3>1, <3>3, <4>1, <4>3
    <3> QED
      BY <3>2, <3>3
  <2>3. CASE x # prev
    <3>1. x \in listNodesUsed \cup {ListHead} /\ PointsAtNext(x)
      BY DEF ListInv
    <3>2. list'.next[x] = list.next[x] /\ list.next[x] # node
      BY <1>1, <1>15, <1>12, <2>3, <3>1, NodeFacts DEF ListPlaces
    <3>3. CASE list.next[x] = ListNil
      BY <1>10, <3>1, <3>2, <3>3 DEF PointsAtNext
    <3>4. CASE list.next[x] # ListNil
      BY <1>4, <1>10, <2>1, <3>1, <3>2, <3>4 DEF PointsAtNext
    <3> QED
      BY <3>3, <3>4
  <2> QED
    BY <2>2, <2>3
<1> QED
  BY <1>3, <1>5, <1>6, <1>7, <1>8, <1>9, <1>14 DEF ListInv

LEMMA EmptyListInv ==
  ASSUME list = list_alloc, listNodesUsed = {}
  PROVE  ListInv
<1>1. ListTypes
  BY DEF ListTypes, Lists, list_alloc, ListPlaces
<1>2. \A n \in ListPlaces : list.next[n] = ListNil
  BY DEF list_alloc, ListPlaces
<1>3. PointsAtNext(ListHead)
  BY <1>2 DEF PointsAtNext, Later, ListPlaces
<1>4. list.size = Cardinality(listNodesUsed)
  BY FS_EmptySet DEF list_alloc
<1> QED
  BY <1>1, <1>2, <1>3, <1>4 DEF ListInv, ListPlaces

THEOREM ListInvariance == ListSpec => []ListInv
<1>1. ListInit => ListInv
  BY EmptyListInv DEF ListInit
<1>2. ListInv /\ [ListNext]_listVars => ListInv'
  <2> SUFFICES ASSUME ListInv, [ListNext]_listVars PROVE ListInv'
    OBVIOUS
  <2>1. ASSUME NEW d \in ListPairs, list_insert(d) PROVE ListInv'
    <3>1. CASE UNCHANGED <<list, listNodesUsed>>
      BY <3>1 DEF ListInv, ListTypes, PointsAtNext, Later, After, KeyOf
    <3>2. CASE ~UNCHANGED <<list, listNodesUsed>>
      <4>1. /\ NodeOf(d[1]) = ListNil
            /\ \E n \in ListNodes \ listNodesUsed :
                  /\ list' = [allocNode(list, n, d) EXCEPT
                                 !.next[n] = list.next[findPrevious(d[1])],
                                 !.next[findPrevious(d[1])] = n,
                                 !.size = @ + 1]
                  /\ listNodesUsed' = listNodesUsed \cup {n}
        BY <2>1, <3>2 DEF list_insert
      <4> QED
        BY <4>1, InsertKeeps
    <3> QED
      BY <3>1, <3>2
  <2>2. ASSUME NEW d \in ListPairs, list_remove(d[1]) PROVE ListInv'
    <3>1. CASE UNCHANGED <<list, listNodesUsed>>
      BY <3>1 DEF ListInv, ListTypes, PointsAtNext, Later, After, KeyOf
    <3>2. CASE ~UNCHANGED <<list, listNodesUsed>>
      <4>1. /\ NodeOf(d[1]) # ListNil
            /\ list' = [freeNode(list, NodeOf(d[1])) EXCEPT
                           !.next[findPrevious(d[1])] =
                               list.next[NodeOf(d[1])],
                           !.size = @ - 1]
            /\ listNodesUsed' = listNodesUsed \ {NodeOf(d[1])}
        BY <2>2, <3>2 DEF list_remove
      <4>2. d[1] \in Int
        BY ListAssumption
      <4> QED
        BY <4>1, <4>2, RemoveKeeps
    <3> QED
      BY <3>1, <3>2
  <2>3. CASE list_clear
    <3>1. list' = list_alloc /\ listNodesUsed' = {}
      BY <2>3, ContentInUse DEF list_clear
    <3>2. \A n \in ListPlaces : list'.next[n] = ListNil
      BY <3>1 DEF list_alloc, ListPlaces
    <3>3. PointsAtNext(ListHead)'
      BY <3>1, <3>2 DEF PointsAtNext, Later, ListPlaces
    <3>4. ListTypes' /\ list'.size = Cardinality(listNodesUsed')
      BY <3>1, FS_EmptySet DEF ListTypes, Lists, list_alloc, ListPlaces
    <3> QED
      BY <3>1, <3>2, <3>3, <3>4 DEF ListInv, ListPlaces
  <2>4. CASE UNCHANGED listVars
    BY <2>4
       DEF ListInv, ListTypes, PointsAtNext, Later, After, KeyOf, listVars
  <2> QED
    BY <2>1, <2>2, <2>3, <2>4 DEF ListNext
<1> QED
  BY <1>1, <1>2, PTL DEF ListSpec

\* The list is always in order, with no node lost and none freed in use.
THEOREM ListStaysWellFormed == ListSpec => []ListWellFormed
<1>1. ListInv => ListWellFormed
  <2> SUFFICES ASSUME ListInv PROVE ListWellFormed
    OBVIOUS
  <2>1. list_isEmpty <=> list_getSize = 0
    <3>1. Later(ListHead) = listNodesUsed /\ PointsAtNext(ListHead)
      BY DEF ListInv, Later, After
    <3>2. list_isEmpty <=> listNodesUsed = {}
      BY <3>1 DEF list_isEmpty, PointsAtNext
    <3> QED
      BY <3>2, NodeFacts, FS_EmptySet DEF ListInv, list_getSize
  <2>2. ASSUME NEW n \in listNodesUsed, list.next[n] # ListNil
        PROVE  list.data[n][1] < list.data[list.next[n]][1]
    BY <2>2, NodeFacts DEF ListInv, PointsAtNext, Later, After, KeyOf
  <2> QED
    BY <2>1, <2>2, ContentInUse DEF ListWellFormed, ListInv, list_getSize
<1> QED
  BY <1>1, ListInvariance, PTL

-----------------------------------------------------------------------------
(* The list as a map *)

\* What is met is what is there.
EntriesOK ==
    /\ DOMAIN ListEntries = {KeyOf(n) : n \in listNodesUsed}
    /\ \A n \in listNodesUsed : ListEntries[KeyOf(n)] = list.data[n][2]
    /\ ListEntries = [k \in DOMAIN ListEntries |-> ListEntries[k]]
    /\ Cardinality(DOMAIN ListEntries) = Cardinality(listNodesUsed)

LEMMA EntriesMeant == ListInv => EntriesOK
<1> SUFFICES ASSUME ListInv PROVE EntriesOK
  OBVIOUS
<1> DEFINE Names == {KeyOf(n) : n \in listNodesUsed}
<1>1. ListEntries = [k \in Names |-> list_find(k)[2]]
  BY ContentInUse DEF ListEntries, KeyOf
<1>2. ASSUME NEW n \in listNodesUsed
      PROVE  list_find(KeyOf(n)) = list.data[n]
  <2>1. KeyOf(n) \in Int
    BY NodeFacts
  <2>2. PICK m : m = NodeOf(KeyOf(n))
    OBVIOUS
  <2>3. m = n
    BY <2>1, <2>2, NodeFound DEF ListInv
  <2> QED
    BY <2>2, <2>3, NodeFacts DEF list_find
<1>3. Cardinality(Names) = Cardinality(listNodesUsed)
  <2> DEFINE f == [n \in listNodesUsed |-> KeyOf(n)]
  <2>1. f \in Bijection(listNodesUsed, Names)
    <3>1. /\ f \in [listNodesUsed -> Names]
          /\ \A a, b \in listNodesUsed : f[a] = f[b] => a = b
      BY DEF ListInv
    <3>2. \A k \in Names : \E n \in listNodesUsed : f[n] = k
      OBVIOUS
    <3> HIDE DEF f, Names
    <3> QED
      BY <3>1, <3>2, Fun_IsBij
  <2>2. ExistsBijection(listNodesUsed, Names)
    BY <2>1, Fun_ExistsBij
  <2> HIDE DEF Names
  <2> QED
    BY <2>2, NodeFacts, FS_Bijection
<1> QED
  BY <1>1, <1>2, <1>3 DEF EntriesOK

\* The instance has a Cardinality of its own.
LEMMA SameCardinality == \A S : ListMap!Cardinality(S) = Cardinality(S)
BY DEF ListMap!Cardinality, Cardinality

\* Every call does to the entries what it would do to a map.
LEMMA ListStepOfMap ==
  ASSUME ListInv, EntriesOK, EntriesOK', [ListNext]_listVars
  PROVE  [ListMap!MapNext]_<<ListEntries, listCall>>
<1>1. PICK before : before = ListEntries
  OBVIOUS
<1>2. PICK after : after = ListEntries'
  OBVIOUS
<1>3. /\ DOMAIN before = {KeyOf(n) : n \in listNodesUsed}
      /\ \A n \in listNodesUsed : before[KeyOf(n)] = list.data[n][2]
      /\ before = [k \in DOMAIN before |-> before[k]]
      /\ Cardinality(DOMAIN before) = Cardinality(listNodesUsed)
  BY <1>1 DEF EntriesOK
<1>4. /\ DOMAIN after = {KeyOf(n)' : n \in listNodesUsed'}
      /\ \A n \in listNodesUsed' : after[KeyOf(n)'] = list'.data[n][2]
      /\ after = [k \in DOMAIN after |-> after[k]]
  BY <1>2 DEF EntriesOK
<1>5. ASSUME UNCHANGED <<list, listNodesUsed>> PROVE after = before
  <2>1. DOMAIN after = DOMAIN before
    BY <1>3, <1>4, <1>5 DEF KeyOf
  <2>2. \A k \in DOMAIN before : after[k] = before[k]
    BY <1>3, <1>4, <1>5 DEF KeyOf
  <2> QED
    BY <1>3, <1>4, <2>1, <2>2
<1>6. ASSUME NEW d \in ListPairs, list_insert(d)
      PROVE  ListMap!MapInsert(d[1], d[2])
  <2>0. d[1] \in Int
    BY ListAssumption
  <2>1. CASE NodeOf(d[1]) # ListNil \/ listNodesUsed = ListNodes
    <3>1. /\ listCall' = <<"insert", d[1], d[2], FALSE>> /\ after = before
      BY <1>5, <1>6, <2>1 DEF list_insert
    <3>2. \/ d[1] \in DOMAIN before
          \/ Cardinality(DOMAIN before) >= Cardinality(ListNodes)
      <4>1. CASE NodeOf(d[1]) # ListNil
        BY <1>3, <2>0, <4>1, NodeFound
      <4>2. CASE listNodesUsed = ListNodes
        <5>1. Cardinality(ListNodes) \in Nat
          BY ListAssumption, FS_CardinalityType
        <5> QED
          BY <1>3, <4>2, <5>1
      <4> QED
        BY <2>1, <4>1, <4>2
    <3>3. /\ d[1] \in DOMAIN ListEntries
             \/ Cardinality(DOMAIN ListEntries) >= Cardinality(ListNodes)
          /\ UNCHANGED ListEntries
      BY <1>1, <1>2, <3>1, <3>2
    <3> QED
      BY <3>1, <3>3, SameCardinality DEF ListMap!MapInsert
  <2>2. CASE ~(NodeOf(d[1]) # ListNil \/ listNodesUsed = ListNodes)
    <3>1. PICK prev : prev = findPrevious(d[1])
      OBVIOUS
    <3>2. PICK n \in ListNodes \ listNodesUsed :
              /\ list' = [allocNode(list, n, d) EXCEPT
                             !.next[n] = list.next[prev],
                             !.next[prev] = n, !.size = @ + 1]
              /\ listNodesUsed' = listNodesUsed \cup {n}
      BY <1>6, <2>2, <3>1 DEF list_insert
    <3>3. list'.data = [list.data EXCEPT ![n] = d]
      BY <2>2, <3>1, <3>2, InsertKeeps
    <3>4. /\ KeyOf(n)' = d[1] /\ list'.data[n] = d
          /\ \A m \in listNodesUsed :
                 KeyOf(m)' = KeyOf(m) /\ list'.data[m] = list.data[m]
      BY <3>2, <3>3, NodeFacts DEF KeyOf, ListInv, ListTypes, Lists
    <3>5. d[1] \notin DOMAIN before
      BY <1>3, <2>0, <2>2, NodeFound
    <3>6. DOMAIN after = DOMAIN before \cup {d[1]}
      BY <1>3, <1>4, <3>2, <3>4
    <3>7. \A k \in DOMAIN after :
              after[k] = IF k = d[1] THEN d[2] ELSE before[k]
      BY <1>3, <1>4, <3>2, <3>4, <3>5
    <3>8. after = [k \in DOMAIN before \cup {d[1]} |->
                       IF k = d[1] THEN d[2] ELSE before[k]]
      BY <1>4, <3>6, <3>7, ZenonT(60)
    <3>9. Cardinality(DOMAIN before) < Cardinality(ListNodes)
      <4>1. /\ Cardinality(listNodesUsed) <= Cardinality(ListNodes)
            /\ Cardinality(listNodesUsed) # Cardinality(ListNodes)
            /\ Cardinality(listNodesUsed) \in Nat
            /\ Cardinality(ListNodes) \in Nat
        BY <2>2, ListAssumption, NodeFacts, FS_Subset, FS_CardinalityType
           DEF ListInv, ListTypes
      <4> QED
        BY <1>3, <4>1
    <3>10. listCall' = <<"insert", d[1], d[2], TRUE>>
      BY <1>6, <2>2 DEF list_insert
    <3>11. /\ d[1] \notin DOMAIN ListEntries
           /\ Cardinality(DOMAIN ListEntries) < Cardinality(ListNodes)
           /\ ListEntries' = [l \in DOMAIN ListEntries \cup {d[1]} |->
                                 IF l = d[1] THEN d[2] ELSE ListEntries[l]]
      BY <1>1, <1>2, <3>5, <3>8, <3>9
    <3> QED
      BY <3>10, <3>11, SameCardinality DEF ListMap!MapInsert
  <2> QED
    BY <2>1, <2>2
<1>7. ASSUME NEW key \in Int, list_remove(key) PROVE ListMap!MapDelete(key)
  <2>1. PICK node : node = NodeOf(key)
    OBVIOUS
  <2>2. CASE node = ListNil
    <3>1. listCall' = <<"delete", key, FALSE>> /\ after = before
      BY <1>5, <1>7, <2>1, <2>2 DEF list_remove
    <3>2. key \notin DOMAIN before
      BY <1>3, <2>1, <2>2, NodeFound
    <3> QED
      BY <1>1, <1>2, <3>1, <3>2 DEF ListMap!MapDelete
  <2>3. CASE node # ListNil
    <3>1. PICK prev : prev = findPrevious(key)
      OBVIOUS
    <3>2. /\ list' = [freeNode(list, node) EXCEPT
                         !.next[prev] = list.next[node], !.size = @ - 1]
          /\ listNodesUsed' = listNodesUsed \ {node}
          /\ listCall' = <<"delete", key, TRUE>>
      BY <1>7, <2>1, <2>3, <3>1 DEF list_remove
    <3>3. list'.data = [list.data EXCEPT ![node] = ListNil]
      BY <2>1, <2>3, <3>1, <3>2, RemoveKeeps
    <3>4. node \in listNodesUsed /\ KeyOf(node) = key
      BY <2>1, <2>3, NodeFound
    <3>5. \A m \in listNodesUsed' :
              /\ m \in listNodesUsed /\ KeyOf(m) # key
              /\ KeyOf(m)' = KeyOf(m) /\ list'.data[m] = list.data[m]
      BY <3>2, <3>3, <3>4, NodeFacts DEF KeyOf, ListInv, ListTypes, Lists
    <3>6. DOMAIN after = DOMAIN before \ {key}
      BY <1>3, <1>4, <3>2, <3>4, <3>5
    <3>7. \A k \in DOMAIN after : after[k] = before[k]
      BY <1>3, <1>4, <3>5
    <3>8. after = [k \in DOMAIN before \ {key} |-> before[k]]
      BY <1>4, <3>6, <3>7
    <3>9. key \in DOMAIN before
      BY <1>3, <3>4
    <3> QED
      BY <1>1, <1>2, <3>2, <3>8, <3>9
         DEF ListMap!MapDelete, ListMap!Without
  <2> QED
    BY <2>2, <2>3
<1>8. ASSUME list_clear PROVE ListMap!MapClear
  <2>1. listNodesUsed' = {}
    BY <1>8, ContentInUse DEF list_clear
  <2>2. DOMAIN after = {}
    BY <1>4, <2>1
  <2>3. after = << >>
    BY <1>4, <2>2
  <2> QED
    BY <1>2, <1>8, <2>3 DEF list_clear, ListMap!MapClear
<1>9. CASE UNCHANGED listVars
  <2>1. after = before /\ UNCHANGED listCall
    BY <1>5, <1>9 DEF listVars
  <2> QED
    BY <1>1, <1>2, <2>1
<1>10. \A d \in ListPairs : d[1] \in Int
  BY ListAssumption
<1> QED
  BY <1>6, <1>7, <1>8, <1>9, <1>10 DEF ListNext, ListMap!MapNext

\* The list is the map from keys to values that the reservations of a
\* customer are taken for.
THEOREM ListImplementsMap == ListSpec => ListIsMap
<1>1. ListInit /\ EntriesOK => ListMap!MapInit
  <2> SUFFICES ASSUME ListInit, EntriesOK PROVE ListMap!MapInit
    OBVIOUS
  <2>1. DOMAIN ListEntries = {}
    BY DEF EntriesOK, ListInit
  <2>2. ListEntries = << >>
    BY <2>1 DEF EntriesOK
  <2> QED
    BY <2>2 DEF ListMap!MapInit, ListInit
<1>2. ListInv /\ EntriesOK /\ EntriesOK' /\ [ListNext]_listVars
          => [ListMap!MapNext]_<<ListEntries, listCall>>
  BY ListStepOfMap
<1>3. ListSpec => [](ListInv /\ EntriesOK)
  BY ListInvariance, EntriesMeant, PTL
<1> QED
  BY <1>1, <1>2, <1>3, PTL DEF ListSpec, ListIsMap, ListMap!MapSpec

-----------------------------------------------------------------------------
(* The heap *)

Arrays(c) == [0 .. c - 1 -> HeapKeys \cup {NoKey}]

Keyed(a, n) == \A i \in 1 .. n : a[i] \in HeapKeys

InOrder(a, n) == \A i \in 2 .. n : a[i] <= a[PARENT(i)]

OrderedBut(a, n, x) == \A i \in 2 .. n : i # x => a[i] <= a[PARENT(i)]

CountOf(a, n, k) == Cardinality({i \in 1 .. n : a[i] = k})

\* b is a put in another order, as far as n.
SameKeys(a, b, n) == \A k \in HeapKeys : CountOf(a, n, k) = CountOf(b, n, k)

\* The children of x do not exceed what is above x.
Bridged(a, n, x) ==
    \A i \in 2 .. n : PARENT(i) = x /\ x > 1 => a[i] <= a[PARENT(x)]

LEMMA ParentBelow ==
  \A i \in Nat : i >= 2 => PARENT(i) \in 1 .. i - 1
BY DEF PARENT

LEMMA ChildrenOf ==
  \A i, j \in Nat : PARENT(j) = i <=> j = 2 * i \/ j = 2 * i + 1
BY DEF PARENT

LEMMA SwapFacts ==
  ASSUME NEW c \in Nat, NEW a \in Arrays(c),
         NEW i \in 0 .. c - 1, NEW j \in 0 .. c - 1
  PROVE  /\ Swapped(a, i, j) \in Arrays(c)
         /\ Swapped(a, i, j)[i] = a[j] /\ Swapped(a, i, j)[j] = a[i]
         /\ \A x \in (0 .. c - 1) \ {i, j} : Swapped(a, i, j)[x] = a[x]
BY DEF Arrays, Swapped

\* An exchange within 1 .. n loses nothing and doubles nothing.
LEMMA SwapKeeps ==
  ASSUME NEW c \in Nat, NEW n \in 0 .. c - 1, NEW a \in Arrays(c),
         NEW i \in 1 .. n, NEW j \in 1 .. n, Keyed(a, n)
  PROVE  Keyed(Swapped(a, i, j), n) /\ SameKeys(Swapped(a, i, j), a, n)
<1> DEFINE b == Swapped(a, i, j)
           other == [x \in 1 .. n |-> IF x = i THEN j
                                      ELSE IF x = j THEN i ELSE x]
<1>1. \A x \in 1 .. n : x \in 0 .. c - 1 /\ other[x] \in 1 .. n
  OBVIOUS
<1>2. \A x \in 1 .. n : b[x] = a[other[x]] /\ other[other[x]] = x
  <2>1. i \in 0 .. c - 1 /\ j \in 0 .. c - 1
    BY <1>1
  <2>2. /\ b[i] = a[j] /\ b[j] = a[i]
        /\ \A x \in (0 .. c - 1) \ {i, j} : b[x] = a[x]
    BY <2>1, SwapFacts
  <2> QED
    BY <1>1, <2>2
<1> HIDE DEF b, other
<1>3. Keyed(b, n)
  BY <1>1, <1>2 DEF Keyed
<1>4. ASSUME NEW k \in HeapKeys PROVE CountOf(b, n, k) = CountOf(a, n, k)
  <2> DEFINE B == {x \in 1 .. n : b[x] = k}
             A == {x \in 1 .. n : a[x] = k}
             f == [x \in B |-> other[x]]
  <2>1. f \in [B -> A] /\ \A x, y \in B : f[x] = f[y] => x = y
    BY <1>1, <1>2
  <2>2. \A y \in A : \E x \in B : f[x] = y
    <3> SUFFICES ASSUME NEW y \in A PROVE \E x \in B : f[x] = y
      OBVIOUS
    <3>1. other[y] \in B /\ f[other[y]] = y
      BY <1>1, <1>2
    <3> QED
      BY <3>1
  <2>3. IsFiniteSet(B)
    <3>1. IsFiniteSet(1 .. n) /\ B \subseteq 1 .. n
      BY FS_Interval
    <3> QED
      BY <3>1, FS_Subset
  <2> HIDE DEF A, B, f
  <2>4. ExistsBijection(B, A)
    BY <2>1, <2>2, Fun_IsBij, Fun_ExistsBij
  <2>5. Cardinality(A) = Cardinality(B)
    BY <2>3, <2>4, FS_Bijection
  <2> QED
    BY <2>5 DEF CountOf, A, B
<1> QED
  BY <1>3, <1>4 DEF SameKeys, b

LEMMA SameKeysAgain ==
  ASSUME NEW a, NEW b, NEW d, NEW n, SameKeys(b, a, n), SameKeys(d, b, n)
  PROVE  SameKeys(d, a, n)
BY DEF SameKeys

\* One turn of siftUp.
LEMMA RisesOnce ==
  ASSUME NEW c \in Nat, NEW n \in 1 .. c - 1, NEW a \in Arrays(c),
         NEW x \in 2 .. n, NEW p \in Nat, p = PARENT(x), ~(a[p] >= a[x]),
         NEW b, b = Swapped(a, x, p),
         Keyed(a, n), OrderedBut(a, n, x), Bridged(a, n, x)
  PROVE  /\ p \in 1 .. x - 1 /\ b \in Arrays(c)
         /\ Keyed(b, n) /\ SameKeys(b, a, n)
         /\ OrderedBut(b, n, p) /\ Bridged(b, n, p)
<1>1. p \in 1 .. x - 1 /\ p \in 1 .. n
  BY ParentBelow
<1>2. x \in 0 .. c - 1 /\ p \in 0 .. c - 1
  BY <1>1
<1>3. /\ b \in Arrays(c) /\ b[x] = a[p] /\ b[p] = a[x]
      /\ \A i \in (0 .. c - 1) \ {x, p} : b[i] = a[i]
  <2>1. b \in Arrays(c)
    BY <1>2, SwapFacts
  <2>2. b[x] = a[p] /\ b[p] = a[x]
    BY <1>2, SwapFacts, SMTT(30)
  <2>3. ASSUME NEW i \in (0 .. c - 1) \ {x, p} PROVE b[i] = a[i]
    BY <1>2, <2>3 DEF Swapped, Arrays
  <2> QED
    BY <2>1, <2>2, <2>3
<1>4. Keyed(b, n) /\ SameKeys(b, a, n)
  BY <1>1, SwapKeeps
<1>5. \A i \in 1 .. n : /\ a[i] \in Int
                        /\ i # x /\ i # p => b[i] = a[i]
  <2>1. \A i \in 1 .. n : i \in 0 .. c - 1
    OBVIOUS
  <2>2. \A i \in 1 .. n : a[i] \in Int
    BY HeapAssumption DEF Keyed
  <2> QED
    BY <1>3, <2>1, <2>2
<1>6. ASSUME NEW i \in 2 .. n, i # p PROVE b[i] <= b[PARENT(i)]
  <2>1. PARENT(i) \in 1 .. i - 1 /\ PARENT(i) \in 1 .. n
    BY ParentBelow
  <2>2. CASE i = x
    BY <1>1, <1>3, <1>5, <2>2
  <2>3. CASE i # x /\ PARENT(i) = x
    BY <1>3, <1>5, <1>6, <2>3 DEF Bridged
  <2>4. CASE i # x /\ PARENT(i) = p
    <3>1. a[i] <= a[p] /\ b[i] = a[i]
      BY <1>5, <1>6, <2>4 DEF OrderedBut
    <3> QED
      BY <1>1, <1>3, <1>5, <2>4, <3>1
  <2>5. CASE i # x /\ PARENT(i) # x /\ PARENT(i) # p
    BY <1>5, <1>6, <2>1, <2>5 DEF OrderedBut
  <2> QED
    BY <2>2, <2>3, <2>4, <2>5
<1>7. Bridged(b, n, p)
  <2> SUFFICES ASSUME NEW i \in 2 .. n, PARENT(i) = p, p > 1
               PROVE  b[i] <= b[PARENT(p)]
    BY DEF Bridged
  <2>1. PARENT(p) \in 1 .. p - 1
    BY <1>1, ParentBelow
  <2>2. b[PARENT(p)] = a[PARENT(p)] /\ a[PARENT(p)] \in Int
    BY <1>1, <1>5, <2>1
  <2>3. a[p] <= a[PARENT(p)]
    BY <1>1 DEF OrderedBut
  <2>4. CASE i = x
    BY <1>3, <2>2, <2>3, <2>4
  <2>5. CASE i # x
    <3>1. a[i] <= a[p] /\ b[i] = a[i]
      BY <1>1, <1>5, <2>5, ParentBelow DEF OrderedBut
    <3> QED
      BY <1>1, <1>5, <2>2, <2>3, <3>1
  <2> QED
    BY <2>4, <2>5
<1> QED
  BY <1>1, <1>3, <1>4, <1>6, <1>7 DEF OrderedBut

\* The way up, from an element that may exceed what is above it.
LEMMA Risen ==
  ASSUME NEW c \in Nat, NEW n \in 1 .. c - 1, NEW e \in Arrays(c),
         Keyed(e, n), InOrder(e, n - 1)
  PROVE  /\ siftUp(e, n) \in Arrays(c)
         /\ Keyed(siftUp(e, n), n) /\ InOrder(siftUp(e, n), n)
         /\ SameKeys(siftUp(e, n), e, n)
<1> DEFINE S == Arrays(c) \X (0 .. c - 1)
           Stop == {s \in S : s[2] <= 1 \/ s[1][PARENT(s[2])] >= s[1][s[2]]}
           next == [s \in S |-> <<Swapped(s[1], s[2], PARENT(s[2])),
                                  PARENT(s[2])>>]
           I == {s \in S : /\ s[2] \in 1 .. n
                           /\ Keyed(s[1], n) /\ SameKeys(s[1], e, n)
                           /\ OrderedBut(s[1], n, s[2])
                           /\ Bridged(s[1], n, s[2])}
           mu == [s \in S |-> s[2]]
           Up(f) == IsLoop(f, S, Stop, next)
<1>1. \A s \in S : s[1] \in Arrays(c) /\ s[2] \in 0 .. c - 1
  OBVIOUS
<1>2. \A s \in S \ Stop : next[s] \in S
  <2> SUFFICES ASSUME NEW s \in S \ Stop PROVE next[s] \in S
    OBVIOUS
  <2>1. s[2] \in 0 .. c - 1 /\ PARENT(s[2]) \in 0 .. c - 1
    BY <1>1, ParentBelow
  <2>2. Swapped(s[1], s[2], PARENT(s[2])) \in Arrays(c)
    BY <1>1, <2>1, SwapFacts
  <2> QED
    BY <2>1, <2>2
<1>3. PICK f : Up(f) /\ siftUp(e, n) = f[<<e, n>>][1]
  <2> DEFINE w == CHOOSE f : f = [s \in LoopStates(e) |->
                      IF s[2] <= 1 \/ s[1][PARENT(s[2])] >= s[1][s[2]] THEN s
                      ELSE f[<<Swapped(s[1], s[2], PARENT(s[2])),
                               PARENT(s[2])>>]]
  <2>1. siftUp(e, n) = w[<<e, n>>][1]
    BY DEF siftUp
  <2>2. LoopStates(e) = S
    BY DEF LoopStates, Arrays
  <2>3. ASSUME NEW f
        PROVE  Up(f) <=> f = [s \in LoopStates(e) |->
                      IF s[2] <= 1 \/ s[1][PARENT(s[2])] >= s[1][s[2]] THEN s
                      ELSE f[<<Swapped(s[1], s[2], PARENT(s[2])),
                               PARENT(s[2])>>]]
    BY <2>2 DEF IsLoop
  <2>4. w = CHOOSE f : Up(f)
    <3> HIDE DEF Up
    <3> QED
      BY <2>3, Zenon
  <2>5. \E f : Up(f)
    <3> HIDE DEF S, Stop, next
    <3> QED
      BY <1>2, LoopExists
  <2> HIDE DEF Up
  <2>6. Up(w)
    BY <2>4, <2>5
  <2> QED
    BY <2>1, <2>6
<1>4. ASSUME NEW s \in I \ Stop
      PROVE  next[s] \in I /\ mu[next[s]] < mu[s]
  <2>1. PICK a \in Arrays(c), x \in 1 .. n : s = <<a, x>>
    OBVIOUS
  <2>2. PICK p \in Nat : p = PARENT(x)
    BY <2>1, ParentBelow
  <2>3. PICK b : b = Swapped(a, x, p)
    OBVIOUS
  <2>4. /\ Keyed(a, n) /\ SameKeys(a, e, n)
        /\ OrderedBut(a, n, x) /\ Bridged(a, n, x)
    BY <2>1
  <2>5. x \in 2 .. n /\ ~(a[p] >= a[x])
    BY <2>1, <2>2
  <2>6. next[s] = <<b, p>>
    BY <2>1, <2>2, <2>3
  <2>7. mu[s] = x /\ \A y \in S : mu[y] = y[2]
    BY <2>1
  <2>8. \A y \in Arrays(c), z \in 1 .. n :
            /\ <<y, z>> \in S
            /\ Keyed(y, n) /\ SameKeys(y, e, n)
               /\ OrderedBut(y, n, z) /\ Bridged(y, n, z) => <<y, z>> \in I
    <3> SUFFICES ASSUME NEW y \in Arrays(c), NEW z \in 1 .. n
                 PROVE  /\ <<y, z>> \in S
                        /\ Keyed(y, n) /\ SameKeys(y, e, n)
                           /\ OrderedBut(y, n, z) /\ Bridged(y, n, z)
                               => <<y, z>> \in I
      BY Zenon
    <3>1. <<y, z>> \in S
      OBVIOUS
    <3> QED
      BY <3>1
  <2> HIDE DEF I, Stop, next, S, mu
  <2>9. /\ p \in 1 .. x - 1 /\ b \in Arrays(c)
        /\ Keyed(b, n) /\ SameKeys(b, a, n)
        /\ OrderedBut(b, n, p) /\ Bridged(b, n, p)
    BY <2>2, <2>3, <2>4, <2>5, RisesOnce
  <2>10. SameKeys(b, e, n)
    BY <2>4, <2>9, SameKeysAgain
  <2> QED
    BY <2>6, <2>7, <2>8, <2>9, <2>10
<1>5. <<e, n>> \in I
  <2>1. \A i \in 2 .. n : PARENT(i) # n /\ (i # n => e[i] <= e[PARENT(i)])
    BY ParentBelow DEF InOrder
  <2>2. <<e, n>> \in S /\ n \in 1 .. n /\ SameKeys(e, e, n)
    BY DEF SameKeys
  <2> QED
    BY <2>1, <2>2 DEF Bridged, OrderedBut
<1>6. f[<<e, n>>] \in I \cap Stop
  <2>1. I \in SUBSET S /\ mu \in [S -> Nat]
    BY <1>1
  <2>2. Up(f)
    BY <1>3
  <2> HIDE DEF I, Stop, next, S, mu
  <2>3. \A s \in I : f[s] \in I \cap Stop
    BY <1>4, <2>1, <2>2, LoopEnds
  <2> QED
    BY <1>5, <2>3
<1>7. PICK a, x : f[<<e, n>>] = <<a, x>>
  BY <1>6
<1>8. siftUp(e, n) = a /\ <<a, x>> \in I /\ <<a, x>> \in Stop
  BY <1>3, <1>6, <1>7
<1>9. \A i \in 2 .. n : a[i] <= a[PARENT(i)]
  <2> SUFFICES ASSUME NEW i \in 2 .. n, i = x PROVE a[i] <= a[PARENT(i)]
    BY <1>8 DEF OrderedBut
  <2>1. a[PARENT(i)] >= a[i]
    BY <1>8
  <2>2. a[PARENT(i)] \in Int /\ a[i] \in Int
    BY <1>8, ParentBelow, HeapAssumption DEF Keyed
  <2> QED
    BY <2>1, <2>2
<1> QED
  BY <1>8, <1>9 DEF InOrder

OrderedBelow(a, n, x) ==
    \A i \in 2 .. n : PARENT(i) # x => a[i] <= a[PARENT(i)]

\* The greatest of a node and its children.
LEMMA GreatestOfThree ==
  ASSUME NEW n \in Nat, NEW a, Keyed(a, n), NEW x \in 1 .. n, NEW m,
         m = MaxIndex(a, n, x)
  PROVE  /\ m \in 1 .. n /\ a[x] <= a[m]
         /\ \A i \in 2 .. n : PARENT(i) = x => a[i] <= a[m]
         /\ m # x => m \in x + 1 .. n /\ PARENT(m) = x
<1> DEFINE left  == 2 * x
           right == 2 * x + 1
           top   == IF left <= n /\ a[left] > a[x] THEN left ELSE x
<1>1. m = IF right <= n /\ a[right] > a[top] THEN right ELSE top
  BY DEF MaxIndex, LEFT_CHILD, RIGHT_CHILD
<1>2. /\ left \in Nat /\ right \in Nat /\ left > x /\ right > x
      /\ left > 1 /\ right > 1 /\ PARENT(left) = x /\ PARENT(right) = x
      /\ \A i \in 2 .. n : PARENT(i) = x => i = left \/ i = right
  BY ChildrenOf
<1>3. \A i \in 1 .. n : a[i] \in Int
  BY HeapAssumption DEF Keyed
<1> HIDE DEF left, right
<1>4. /\ top \in 1 .. n /\ a[top] \in Int /\ a[x] <= a[top]
      /\ left <= n => a[left] <= a[top]
      /\ top = x \/ top = left
  BY <1>2, <1>3
<1> HIDE DEF top
<1>5. /\ m \in 1 .. n /\ a[m] \in Int /\ a[top] <= a[m]
      /\ right <= n => a[right] <= a[m]
      /\ m = top \/ m = right
  BY <1>1, <1>2, <1>3, <1>4
<1>6. a[x] <= a[m] /\ (left <= n => a[left] <= a[m])
  BY <1>2, <1>3, <1>4, <1>5
<1>7. \A i \in 2 .. n : PARENT(i) = x => a[i] <= a[m]
  BY <1>2, <1>5, <1>6
<1>8. m # x => m \in x + 1 .. n /\ PARENT(m) = x
  BY <1>2, <1>4, <1>5
<1> QED
  BY <1>5, <1>6, <1>7, <1>8

\* One turn of heapify.
LEMMA FallsOnce ==
  ASSUME NEW c \in Nat, NEW n \in 1 .. c - 1, NEW a \in Arrays(c),
         NEW x \in 1 .. n, NEW m \in Nat, m = MaxIndex(a, n, x), m # x,
         NEW b, b = Swapped(a, x, m),
         Keyed(a, n), OrderedBelow(a, n, x), Bridged(a, n, x)
  PROVE  /\ m \in x + 1 .. n /\ b \in Arrays(c)
         /\ Keyed(b, n) /\ SameKeys(b, a, n)
         /\ OrderedBelow(b, n, m) /\ Bridged(b, n, m)
<1>1. /\ m \in x + 1 .. n /\ PARENT(m) = x /\ a[x] <= a[m]
      /\ \A i \in 2 .. n : PARENT(i) = x => a[i] <= a[m]
  BY GreatestOfThree
<1>2. m \in 1 .. n /\ m \in 2 .. n /\ x \in 0 .. c - 1 /\ m \in 0 .. c - 1
  BY <1>1
<1>3. /\ b \in Arrays(c) /\ b[x] = a[m] /\ b[m] = a[x]
      /\ \A i \in (0 .. c - 1) \ {x, m} : b[i] = a[i]
  <2>1. b \in Arrays(c)
    BY <1>2 DEF Swapped, Arrays
  <2>2. b[x] = a[m] /\ b[m] = a[x]
    BY <1>2 DEF Swapped, Arrays
  <2>3. ASSUME NEW i \in (0 .. c - 1) \ {x, m} PROVE b[i] = a[i]
    BY <1>2, <2>3 DEF Swapped, Arrays
  <2> QED
    BY <2>1, <2>2, <2>3
<1>4. Keyed(b, n) /\ SameKeys(b, a, n)
  BY <1>2, SwapKeeps
<1>5. \A i \in 1 .. n : /\ a[i] \in Int
                        /\ i # x /\ i # m => b[i] = a[i]
  <2>1. \A i \in 1 .. n : i \in 0 .. c - 1
    OBVIOUS
  <2>2. \A i \in 1 .. n : a[i] \in Int
    BY HeapAssumption DEF Keyed
  <2> QED
    BY <1>3, <2>1, <2>2
<1>6. ASSUME NEW i \in 2 .. n, PARENT(i) # m PROVE b[i] <= b[PARENT(i)]
  <2>1. PARENT(i) \in 1 .. i - 1 /\ PARENT(i) \in 1 .. n
    BY ParentBelow
  <2>2. CASE i = m
    BY <1>1, <1>3, <2>2
  <2>3. CASE i # m /\ PARENT(i) = x
    BY <1>1, <1>3, <1>5, <2>1, <2>3
  <2>4. CASE i = x
    BY <1>1, <1>2, <1>3, <1>5, <1>6, <2>1, <2>4 DEF Bridged
  <2>5. CASE i # m /\ i # x /\ PARENT(i) # x
    BY <1>5, <1>6, <2>1, <2>5 DEF OrderedBelow
  <2> QED
    BY <2>2, <2>3, <2>4, <2>5
<1>7. Bridged(b, n, m)
  <2> SUFFICES ASSUME NEW i \in 2 .. n, PARENT(i) = m
               PROVE  b[i] <= b[PARENT(m)]
    BY DEF Bridged
  <2>1. i # m /\ i # x
    BY <1>1, ParentBelow
  <2>2. a[i] <= a[m]
    BY <1>1 DEF OrderedBelow
  <2> QED
    BY <1>1, <1>3, <1>5, <2>1, <2>2
<1> QED
  BY <1>1, <1>3, <1>4, <1>6, <1>7 DEF OrderedBelow

\* The way down, from a root that may be exceeded by its children.
LEMMA Fallen ==
  ASSUME NEW c \in Nat, NEW n \in 0 .. c - 1, c >= 2, NEW e \in Arrays(c),
         Keyed(e, n), OrderedBelow(e, n, 1)
  PROVE  /\ heapify(e, n, 1) \in Arrays(c)
         /\ Keyed(heapify(e, n, 1), n) /\ InOrder(heapify(e, n, 1), n)
         /\ SameKeys(heapify(e, n, 1), e, n)
<1> DEFINE S == Arrays(c) \X (0 .. c - 1)
           Stop == {s \in S : MaxIndex(s[1], n, s[2]) = s[2]}
           next == [s \in S |->
                       <<Swapped(s[1], s[2], MaxIndex(s[1], n, s[2])),
                         MaxIndex(s[1], n, s[2])>>]
           I == {s \in S : /\ s[2] \in 1 .. n
                           /\ Keyed(s[1], n) /\ SameKeys(s[1], e, n)
                           /\ OrderedBelow(s[1], n, s[2])
                           /\ Bridged(s[1], n, s[2])}
           mu == [s \in S |-> c - s[2]]
           Down(f) == IsLoop(f, S, Stop, next)
<1>1. \A s \in S : s[1] \in Arrays(c) /\ s[2] \in 0 .. c - 1
  OBVIOUS
<1>2. \A s \in S \ Stop : next[s] \in S
  <2> SUFFICES ASSUME NEW s \in S \ Stop PROVE next[s] \in S
    OBVIOUS
  <2>1. s[2] \in 0 .. c - 1 /\ MaxIndex(s[1], n, s[2]) \in 0 .. c - 1
    <3>1. PICK x \in 0 .. c - 1 : s[2] = x
      BY <1>1
    <3>2. 2 * x \in Nat /\ 2 * x + 1 \in Nat
      OBVIOUS
    <3> QED
      BY <3>1, <3>2 DEF MaxIndex, LEFT_CHILD, RIGHT_CHILD
  <2>2. Swapped(s[1], s[2], MaxIndex(s[1], n, s[2])) \in Arrays(c)
    BY <1>1, <2>1, SwapFacts
  <2> QED
    BY <2>1, <2>2
<1>3. PICK f : Down(f) /\ heapify(e, n, 1) = f[<<e, 1>>][1]
  <2> DEFINE w == CHOOSE f : f = [s \in LoopStates(e) |->
                      IF MaxIndex(s[1], n, s[2]) = s[2] THEN s
                      ELSE f[<<Swapped(s[1], s[2], MaxIndex(s[1], n, s[2])),
                               MaxIndex(s[1], n, s[2])>>]]
  <2>1. heapify(e, n, 1) = w[<<e, 1>>][1]
    BY DEF heapify
  <2>2. LoopStates(e) = S
    BY DEF LoopStates, Arrays
  <2>3. ASSUME NEW f
        PROVE  Down(f) <=> f = [s \in LoopStates(e) |->
                      IF MaxIndex(s[1], n, s[2]) = s[2] THEN s
                      ELSE f[<<Swapped(s[1], s[2], MaxIndex(s[1], n, s[2])),
                               MaxIndex(s[1], n, s[2])>>]]
    BY <2>2 DEF IsLoop
  <2>4. w = CHOOSE f : Down(f)
    <3> HIDE DEF Down
    <3> QED
      BY <2>3, Zenon
  <2>5. \E f : Down(f)
    <3> HIDE DEF S, Stop, next
    <3> QED
      BY <1>2, LoopExists
  <2> HIDE DEF Down
  <2>6. Down(w)
    BY <2>4, <2>5
  <2> QED
    BY <2>1, <2>6
<1>4. ASSUME NEW s \in I \ Stop
      PROVE  next[s] \in I /\ mu[next[s]] < mu[s]
  <2>1. PICK a \in Arrays(c), x \in 1 .. n : s = <<a, x>>
    OBVIOUS
  <2>2. Keyed(a, n) /\ n \in 1 .. c - 1 /\ n \in Nat
    BY <2>1
  <2>3. PICK m \in Nat : m = MaxIndex(a, n, x)
    BY <2>2, GreatestOfThree
  <2>4. PICK b : b = Swapped(a, x, m)
    OBVIOUS
  <2>5. /\ Keyed(a, n) /\ SameKeys(a, e, n)
        /\ OrderedBelow(a, n, x) /\ Bridged(a, n, x)
    BY <2>1
  <2>6. m # x
    BY <2>1, <2>3
  <2>7. next[s] = <<b, m>>
    BY <2>1, <2>3, <2>4
  <2>8. mu[s] = c - x /\ \A y \in S : mu[y] = c - y[2]
    BY <2>1
  <2>9. \A y \in Arrays(c), z \in 1 .. n :
            /\ <<y, z>> \in S
            /\ Keyed(y, n) /\ SameKeys(y, e, n)
               /\ OrderedBelow(y, n, z) /\ Bridged(y, n, z)
                   => <<y, z>> \in I
    <3> SUFFICES ASSUME NEW y \in Arrays(c), NEW z \in 1 .. n
                 PROVE  /\ <<y, z>> \in S
                        /\ Keyed(y, n) /\ SameKeys(y, e, n)
                           /\ OrderedBelow(y, n, z) /\ Bridged(y, n, z)
                               => <<y, z>> \in I
      BY Zenon
    <3>1. <<y, z>> \in S
      OBVIOUS
    <3> QED
      BY <3>1
  <2> HIDE DEF I, Stop, next, S, mu
  <2>10. /\ m \in x + 1 .. n /\ b \in Arrays(c)
         /\ Keyed(b, n) /\ SameKeys(b, a, n)
         /\ OrderedBelow(b, n, m) /\ Bridged(b, n, m)
    BY <2>2, <2>3, <2>4, <2>5, <2>6, FallsOnce
  <2>11. SameKeys(b, e, n)
    BY <2>5, <2>10, SameKeysAgain
  <2> QED
    BY <2>7, <2>8, <2>9, <2>10, <2>11
<1>5. CASE n = 0
  <2>1. MaxIndex(e, n, 1) = 1 /\ <<e, 1>> \in S
    BY <1>5 DEF MaxIndex, LEFT_CHILD, RIGHT_CHILD
  <2>2. f[<<e, 1>>] = <<e, 1>>
    BY <1>3, <2>1 DEF IsLoop
  <2> QED
    BY <1>3, <1>5, <2>2 DEF InOrder, SameKeys
<1>6. CASE n # 0
  <2>1. <<e, 1>> \in I
    <3>1. <<e, 1>> \in S /\ 1 \in 1 .. n /\ SameKeys(e, e, n)
      BY <1>6 DEF SameKeys
    <3> QED
      BY <3>1 DEF Bridged
  <2>2. f[<<e, 1>>] \in I \cap Stop
    <3>1. I \in SUBSET S /\ mu \in [S -> Nat]
      BY <1>1
    <3>2. Down(f)
      BY <1>3
    <3> HIDE DEF I, Stop, next, S, mu
    <3>3. \A s \in I : f[s] \in I \cap Stop
      BY <1>4, <3>1, <3>2, LoopEnds
    <3> QED
      BY <2>1, <3>3
  <2>3. PICK a, x : f[<<e, 1>>] = <<a, x>>
    BY <2>2
  <2>4. /\ heapify(e, n, 1) = a /\ a \in Arrays(c) /\ x \in 1 .. n
        /\ Keyed(a, n) /\ SameKeys(a, e, n) /\ OrderedBelow(a, n, x)
        /\ MaxIndex(a, n, x) = x
    BY <1>3, <2>2, <2>3
  <2>5. \A i \in 2 .. n : PARENT(i) = x => a[i] <= a[x]
    BY <2>4, GreatestOfThree
  <2> QED
    BY <2>4, <2>5 DEF InOrder, OrderedBelow
<1> QED
  BY <1>5, <1>6

\* The root is a greatest of all.
LEMMA RootGreatest ==
  ASSUME NEW n \in Nat, NEW a, Keyed(a, n), InOrder(a, n)
  PROVE  \A i \in 1 .. n : a[i] <= a[1]
<1> DEFINE Bad == {i \in 1 .. n : ~(a[i] <= a[1])}
<1> SUFFICES ASSUME Bad # {} PROVE FALSE
  OBVIOUS
<1>1. PICK i \in Bad : \A j \in Bad : ~(j < i)
  <2>1. Bad \in SUBSET Nat
    OBVIOUS
  <2> HIDE DEF Bad
  <2> QED
    BY <2>1, HasLeast
<1>2. \A j \in 1 .. n : a[j] \in Int
  BY HeapAssumption DEF Keyed
<1>3. i \in 2 .. n
  BY <1>1, <1>2
<1>4. PARENT(i) \in 1 .. i - 1 /\ PARENT(i) \in 1 .. n /\ PARENT(i) \notin Bad
  BY <1>1, <1>3, ParentBelow
<1>5. a[i] <= a[PARENT(i)] /\ a[PARENT(i)] <= a[1]
  BY <1>3, <1>4 DEF InOrder
<1> QED
  BY <1>1, <1>2, <1>3, <1>4, <1>5

\* The inductive invariant of the heap.
HeapInv ==
    /\ heap \in [elements : Arrays(heap.capacity), size : Nat, capacity : Nat]
    /\ heap.size < heap.capacity
    /\ Keyed(heap.elements, heap.size)
    /\ InOrder(heap.elements, heap.size)

LEMMA BagOf ==
  \A k \in HeapKeys : HeapBag[k] = CountOf(heap.elements, heap.size, k)
BY DEF HeapBag, CountOf

LEMMA CountType ==
  \A a, k : \A n \in Nat : CountOf(a, n, k) \in Nat
<1> SUFFICES ASSUME NEW a, NEW k, NEW n \in Nat PROVE CountOf(a, n, k) \in Nat
  OBVIOUS
<1>1. /\ IsFiniteSet(1 .. n)
      /\ {i \in 1 .. n : a[i] = k} \subseteq 1 .. n
  BY FS_Interval
<1> QED
  BY <1>1, FS_Subset, FS_CardinalityType DEF CountOf

\* One element more.
LEMMA CountMore ==
  ASSUME NEW n \in Nat, NEW a, NEW b, NEW k,
         \A i \in 1 .. n : b[i] = a[i]
  PROVE  CountOf(b, n + 1, k) =
             IF b[n + 1] = k THEN CountOf(a, n, k) + 1 ELSE CountOf(a, n, k)
<1> DEFINE A == {i \in 1 .. n : a[i] = k}
           B == {i \in 1 .. n + 1 : b[i] = k}
<1>1. IsFiniteSet(A) /\ n + 1 \notin A
  <2>1. IsFiniteSet(1 .. n) /\ A \subseteq 1 .. n
    BY FS_Interval
  <2> QED
    BY <2>1, FS_Subset
<1>2. CASE b[n + 1] = k
  <2>1. B = A \cup {n + 1}
    BY <1>2
  <2> HIDE DEF A, B
  <2>2. Cardinality(B) = Cardinality(A) + 1
    BY <1>1, <2>1, FS_AddElement
  <2> QED
    BY <1>2, <2>2 DEF CountOf, A, B
<1>3. CASE b[n + 1] # k
  <2>1. B = A
    BY <1>3
  <2> QED
    BY <1>3, <2>1 DEF CountOf
<1> QED
  BY <1>2, <1>3

\* The array has room for one more, and what it held.
LEMMA ArrayGrown ==
  ASSUME HeapInv, NEW h, h = WithRoom(heap)
  PROVE  /\ h \in [elements : Arrays(h.capacity), size : Nat, capacity : Nat]
         /\ h.size = heap.size /\ h.size + 1 < h.capacity
         /\ \A i \in 1 .. h.size : h.elements[i] = heap.elements[i]
<1>1. CASE heap.size + 1 < heap.capacity
  BY <1>1 DEF HeapInv, WithRoom
<1>2. CASE ~(heap.size + 1 < heap.capacity)
  <2> DEFINE grown == [i \in 0 .. 2 * heap.capacity - 1 |->
                          IF i <= heap.size THEN heap.elements[i] ELSE NoKey]
  <2>1. h = [heap EXCEPT !.capacity = 2 * heap.capacity, !.elements = grown]
    BY <1>2 DEF WithRoom, HeapInv
  <2>2. grown \in Arrays(2 * heap.capacity)
    BY DEF Arrays, HeapInv
  <2>3. \A i \in 1 .. heap.size : grown[i] = heap.elements[i]
    BY DEF HeapInv
  <2> HIDE DEF grown
  <2>4. /\ h.capacity = 2 * heap.capacity /\ h.elements = grown
        /\ h.size = heap.size
        /\ h = [elements |-> h.elements, size |-> h.size,
                capacity |-> h.capacity]
    BY <2>1 DEF HeapInv
  <2> QED
    BY <1>2, <2>2, <2>3, <2>4 DEF HeapInv
<1> QED
  BY <1>1, <1>2

LEMMA InsertKeepsHeap ==
  ASSUME HeapInv, NEW k \in HeapKeys, heap_insert(k)
  PROVE  HeapInv' /\ Prio!PrioInsert(k)
<1>1. PICK h : h = WithRoom(heap)
  OBVIOUS
<1>2. /\ h \in [elements : Arrays(h.capacity), size : Nat, capacity : Nat]
      /\ h.size = heap.size /\ h.size + 1 < h.capacity
      /\ \A i \in 1 .. h.size : h.elements[i] = heap.elements[i]
  BY <1>1, ArrayGrown
<1>3. PICK n \in Nat : n = heap.size
  BY DEF HeapInv
<1>4. PICK c \in Nat : c = h.capacity
  BY <1>2
<1>5. PICK e : e = [h.elements EXCEPT ![n + 1] = k]
  OBVIOUS
<1>6. /\ e \in Arrays(c) /\ e[n + 1] = k
      /\ \A i \in 1 .. n : e[i] = heap.elements[i]
      /\ n + 1 \in 1 .. c - 1
  BY <1>2, <1>3, <1>4, <1>5 DEF Arrays
<1>7. Keyed(e, n + 1) /\ InOrder(e, n + 1 - 1)
  <2>1. Keyed(e, n + 1)
    BY <1>3, <1>6 DEF Keyed, HeapInv
  <2>2. n + 1 - 1 = n /\ InOrder(e, n)
    BY <1>3, <1>6, ParentBelow DEF InOrder, HeapInv
  <2> QED
    BY <2>1, <2>2
<1>8. PICK a : a = siftUp(e, n + 1)
  OBVIOUS
<1>9. /\ a \in Arrays(c) /\ Keyed(a, n + 1) /\ InOrder(a, n + 1)
      /\ SameKeys(a, e, n + 1)
  BY <1>6, <1>7, <1>8, Risen
<1>10. /\ heap' = [h EXCEPT !.size = n + 1, !.elements = a]
       /\ heapCall' = <<"insert", k>>
  BY <1>1, <1>2, <1>3, <1>5, <1>8 DEF heap_insert
<1>11. /\ heap'.size = n + 1 /\ heap'.elements = a /\ heap'.capacity = c
       /\ heap' = [elements |-> a, size |-> n + 1, capacity |-> c]
  BY <1>2, <1>4, <1>10
<1>12. HeapInv'
  BY <1>6, <1>9, <1>11 DEF HeapInv
<1>13. ASSUME NEW l \in HeapKeys
       PROVE  HeapBag'[l] = IF l = k THEN HeapBag[l] + 1 ELSE HeapBag[l]
  <2>1. HeapBag[l] = CountOf(heap.elements, n, l)
    BY <1>3, BagOf
  <2>2. HeapBag'[l] = CountOf(a, n + 1, l)
    BY <1>11 DEF HeapBag, CountOf
  <2>3. CountOf(a, n + 1, l) = CountOf(e, n + 1, l)
    BY <1>9 DEF SameKeys
  <2>4. CountOf(e, n + 1, l) =
            IF l = k THEN CountOf(heap.elements, n, l) + 1
            ELSE CountOf(heap.elements, n, l)
    BY <1>6, CountMore
  <2> QED
    BY <2>1, <2>2, <2>3, <2>4
<1>14. HeapBag' = [HeapBag EXCEPT ![k] = @ + 1]
  BY <1>13 DEF HeapBag
<1> QED
  BY <1>10, <1>12, <1>14 DEF Prio!PrioInsert

LEMMA RemoveKeepsHeap ==
  ASSUME HeapInv, heap_remove
  PROVE  HeapInv' /\ Prio!PrioRemove
<1>1. PICK n \in Nat : n = heap.size
  BY DEF HeapInv
<1>2. PICK c \in Nat : c = heap.capacity
  BY DEF HeapInv
<1>3. PICK old : old = heap.elements
  OBVIOUS
<1>4. /\ old \in Arrays(c) /\ n < c /\ Keyed(old, n) /\ InOrder(old, n)
      /\ heap = [elements |-> old, size |-> n, capacity |-> c]
  BY <1>1, <1>2, <1>3 DEF HeapInv
<1>5. \A k \in HeapKeys : /\ HeapBag[k] = CountOf(old, n, k)
                          /\ CountOf(old, n, k) \in Nat
  BY <1>1, <1>3, BagOf, CountType
<1>6. ASSUME NEW k \in HeapKeys
      PROVE  CountOf(old, n, k) > 0 <=> \E i \in 1 .. n : old[i] = k
  <2> DEFINE A == {i \in 1 .. n : old[i] = k}
  <2>1. IsFiniteSet(A)
    <3>1. IsFiniteSet(1 .. n) /\ A \subseteq 1 .. n
      BY FS_Interval
    <3> QED
      BY <3>1, FS_Subset
  <2>2. A = {} <=> ~\E i \in 1 .. n : old[i] = k
    OBVIOUS
  <2> HIDE DEF A
  <2>3. Cardinality(A) \in Nat /\ (Cardinality(A) = 0 <=> A = {})
    BY <2>1, FS_EmptySet, FS_CardinalityType
  <2>4. CountOf(old, n, k) = Cardinality(A)
    BY DEF CountOf, A
  <2> QED
    BY <2>2, <2>3, <2>4
<1>7. \A k \in HeapKeys : k \in Prio!There <=> \E i \in 1 .. n : old[i] = k
  BY <1>5, <1>6 DEF Prio!There
<1>8. CASE n = 0
  <2>1. Prio!There = {}
    BY <1>7, <1>8 DEF Prio!There
  <2>2. heapCall' = <<"remove", NoKey>> /\ UNCHANGED heap
    BY <1>1, <1>8 DEF heap_remove
  <2>3. HeapInv' /\ UNCHANGED HeapBag
    BY <2>2 DEF HeapInv, HeapBag
  <2> QED
    BY <2>1, <2>2, <2>3 DEF Prio!PrioRemove
<1>9. CASE n # 0
  <2>1. PICK m \in Nat : m = n - 1
    BY <1>9
  <2>2. n = m + 1 /\ m \in 0 .. c - 1 /\ c >= 2 /\ 1 \in 1 .. n /\ n \in 1 .. n
        /\ n \in 0 .. c - 1
    BY <1>4, <1>9, <2>1
  <2>3. PICK e : e = [old EXCEPT ![1] = old[n]]
    OBVIOUS
  <2>4. e \in Arrays(c) /\ \A i \in 1 .. m : e[i] = IF i = 1 THEN old[n]
                                                    ELSE old[i]
    BY <1>4, <2>2, <2>3 DEF Arrays
  <2>5. Keyed(e, m)
    BY <1>4, <2>2, <2>4 DEF Keyed
  <2>6. OrderedBelow(e, m, 1)
    <3> SUFFICES ASSUME NEW i \in 2 .. m, PARENT(i) # 1
                 PROVE  e[i] <= e[PARENT(i)]
      BY DEF OrderedBelow
    <3>1. PARENT(i) \in 1 .. m /\ i \in 1 .. m /\ i # 1 /\ i \in 2 .. n
      BY <2>2, ParentBelow
    <3> QED
      BY <1>4, <2>4, <3>1 DEF InOrder
  <2>7. PICK a : a = heapify(e, m, 1)
    OBVIOUS
  <2>8. a \in Arrays(c) /\ Keyed(a, m) /\ InOrder(a, m) /\ SameKeys(a, e, m)
    BY <2>2, <2>4, <2>5, <2>6, <2>7, Fallen
  <2>9. /\ heap' = [heap EXCEPT !.size = m, !.elements = a]
        /\ heapCall' = <<"remove", old[1]>>
    BY <1>1, <1>3, <1>4, <1>9, <2>1, <2>3, <2>7 DEF heap_remove
  <2>10. /\ heap'.size = m /\ heap'.elements = a /\ heap'.capacity = c
         /\ heap' = [elements |-> a, size |-> m, capacity |-> c]
    BY <1>4, <2>9
  <2>11. HeapInv'
    BY <2>2, <2>8, <2>10 DEF HeapInv
  <2>12. PICK top \in HeapKeys : top = old[1]
    BY <1>4, <2>2 DEF Keyed
  <2>13. ASSUME NEW k \in HeapKeys
         PROVE  HeapBag'[k] = IF k = top THEN HeapBag[k] - 1 ELSE HeapBag[k]
    <3>1. PICK b : b = Swapped(old, 1, n)
      OBVIOUS
    <3>2. 1 \in 0 .. c - 1 /\ n \in 0 .. c - 1
      BY <2>2
    <3>3. /\ b[n] = old[1] /\ \A i \in 1 .. m : b[i] = e[i]
      BY <1>4, <2>2, <2>4, <3>1, <3>2 DEF Swapped, Arrays
    <3>4. CountOf(b, n, k) = CountOf(old, n, k)
      BY <1>4, <2>2, <3>1, SwapKeeps DEF SameKeys
    <3>5. CountOf(b, n, k) = IF b[n] = k THEN CountOf(e, m, k) + 1
                             ELSE CountOf(e, m, k)
      BY <2>2, <3>3, CountMore
    <3>6. CountOf(a, m, k) = CountOf(e, m, k)
      BY <2>8 DEF SameKeys
    <3>7. HeapBag'[k] = CountOf(a, m, k)
      BY <2>10 DEF HeapBag, CountOf
    <3>8. CountOf(e, m, k) \in Nat
      BY CountType
    <3>9. HeapBag[k] = IF k = top THEN HeapBag'[k] + 1 ELSE HeapBag'[k]
      BY <1>5, <2>12, <3>3, <3>4, <3>5, <3>6, <3>7
    <3> QED
      BY <3>6, <3>7, <3>8, <3>9
  <2>14. HeapBag' = [HeapBag EXCEPT ![top] = @ - 1]
    BY <2>13 DEF HeapBag
  <2>15. top \in Prio!There /\ \A l \in Prio!There : l <= top
    <3>1. top \in Prio!There
      BY <1>7, <2>2, <2>12
    <3>2. \A i \in 1 .. n : old[i] <= old[1]
      BY <1>4, RootGreatest
    <3> QED
      BY <1>7, <2>12, <3>1, <3>2 DEF Prio!There
  <2> QED
    BY <2>9, <2>11, <2>12, <2>14, <2>15 DEF Prio!PrioRemove
<1> QED
  BY <1>8, <1>9

LEMMA HeapBegins == HeapInit => HeapInv /\ Prio!PrioInit
<1> SUFFICES ASSUME HeapInit PROVE HeapInv /\ Prio!PrioInit
  OBVIOUS
<1>1. PICK c \in HeapCapacities : heap = heap_alloc(c)
  BY DEF HeapInit
<1>2. PICK d \in Nat \ {0} : d = IF c > 0 THEN c ELSE 1
  BY HeapAssumption
<1>3. /\ heap = [elements |-> [i \in 0 .. d - 1 |-> NoKey], size |-> 0,
                 capacity |-> d]
  BY <1>1, <1>2 DEF heap_alloc
<1>4. HeapInv
  BY <1>3 DEF HeapInv, Arrays, Keyed, InOrder
<1>5. \A k \in HeapKeys : HeapBag[k] = 0
  <2>1. \A k : {i \in 1 .. heap.size : heap.elements[i] = k} = {}
    BY <1>3
  <2> QED
    BY <2>1, FS_EmptySet DEF HeapBag
<1>6. HeapBag = [k \in HeapKeys |-> 0]
  BY <1>5 DEF HeapBag
<1> QED
  BY <1>4, <1>6 DEF Prio!PrioInit, HeapInit

LEMMA HeapStep ==
  HeapInv /\ [HeapNext]_heapVars =>
      HeapInv' /\ [Prio!PrioNext]_<<HeapBag, heapCall>>
<1> SUFFICES ASSUME HeapInv, [HeapNext]_heapVars
             PROVE  HeapInv' /\ [Prio!PrioNext]_<<HeapBag, heapCall>>
  OBVIOUS
<1>1. ASSUME NEW k \in HeapKeys, heap_insert(k)
      PROVE  HeapInv' /\ Prio!PrioNext
  BY <1>1, InsertKeepsHeap DEF Prio!PrioNext
<1>2. CASE heap_remove
  BY <1>2, RemoveKeepsHeap DEF Prio!PrioNext
<1>3. CASE UNCHANGED heapVars
  BY <1>3 DEF heapVars, HeapInv, HeapBag
<1> QED
  BY <1>1, <1>2, <1>3 DEF HeapNext

\* Whatever is inserted and removed, no element is greater than its parent,
\* and what is in use of the array is what was inserted.
THEOREM HeapStaysValid == HeapSpec => []HeapValid
<1>1. HeapInv => HeapValid
  <2> SUFFICES ASSUME HeapInv PROVE HeapValid
    OBVIOUS
  <2>1. PICK n \in Nat : n = heap.size
    BY DEF HeapInv
  <2>2. \A i \in 1 .. n - 1 : i + 1 \in 2 .. n
    OBVIOUS
  <2> QED
    BY <2>1, <2>2 DEF HeapInv, HeapValid, heap_isValid, Keyed, InOrder
<1>2. HeapInv /\ [HeapNext]_heapVars => HeapInv'
  BY HeapStep
<1> QED
  BY HeapBegins, <1>1, <1>2, PTL DEF HeapSpec

\* The array is a priority queue: what is removed is a greatest element, and
\* no element is lost or doubled.
THEOREM ArrayIsPriorityQueue == HeapSpec => HeapIsPriorityQueue
<1>1. HeapInv /\ [HeapNext]_heapVars =>
          HeapInv' /\ [Prio!PrioNext]_<<HeapBag, heapCall>>
  BY HeapStep
<1> QED
  BY HeapBegins, <1>1, PTL DEF HeapSpec, HeapIsPriorityQueue, Prio!PrioSpec
=============================================================================
