-------------------------------- MODULE Heap --------------------------------
(***************************************************************************)
(* The binary heap of lib/heap.c, in elements[1 .. size] of an array that  *)
(* doubles.  compare is the order of the keys.  One action per call, the   *)
(* TM... versions included; an insert whose malloc fails is no step.       *)
(***************************************************************************)
EXTENDS Integers, FiniteSets

CONSTANTS
    HeapKeys,        \* what is inserted
    NoKey,           \* NULL, and what malloc leaves in an array
    HeapCapacities,  \* arguments of heap_alloc
    MaxHeap          \* bound: elements in the heap

ASSUME HeapAssumption ==
    HeapKeys \subseteq Int /\ HeapCapacities \subseteq Int /\ MaxHeap \in Nat

VARIABLES
    heap,      \* [elements, size, capacity]
    heapCall   \* the last call and what it returned

heapVars == <<heap, heapCall>>

heap_alloc(initCapacity) ==
    LET c == IF initCapacity > 0 THEN initCapacity ELSE 1
    IN [elements |-> [i \in 0 .. c - 1 |-> NoKey], size |-> 0, capacity |-> c]

HeapInit ==
    /\ \E c \in HeapCapacities : heap = heap_alloc(c)
    /\ heapCall = << >>

PARENT(i) == i \div 2
LEFT_CHILD(i) == 2 * i
RIGHT_CHILD(i) == 2 * i + 1

Swapped(e, i, j) == [e EXCEPT ![i] = e[j], ![j] = e[i]]

\* Where a loop over the array e may be: what it made of it, and its index.
LoopStates(e) == [DOMAIN e -> HeapKeys \cup {NoKey}] \X DOMAIN e

siftUp(e, index) ==
    LET up[s \in LoopStates(e)] ==
            LET a == s[1]
                i == s[2]
            IN IF i <= 1 \/ a[PARENT(i)] >= a[i] THEN s
               ELSE up[<<Swapped(a, i, PARENT(i)), PARENT(i)>>]
    IN up[<<e, index>>][1]

\* The array grown when there is no room for one more, and slot 0.
WithRoom(h) ==
    IF h.size + 1 < h.capacity THEN h
    ELSE [h EXCEPT !.capacity = 2 * @,
                   !.elements = [i \in 0 .. 2 * h.capacity - 1 |->
                       IF i <= h.size THEN @[i] ELSE NoKey]]

heap_insert(k) ==
    /\ heap.size < MaxHeap
    /\ LET h == WithRoom(heap)
           n == h.size + 1
       IN heap' = [h EXCEPT !.size = n,
                            !.elements = siftUp([@ EXCEPT ![n] = k], n)]
    /\ heapCall' = <<"insert", k>>

\* The right child compared with the node instead of the left child.
BadMaxIndex(e, size, index) ==
    LET left  == LEFT_CHILD(index)
        right == RIGHT_CHILD(index)
    IN IF right <= size /\ e[right] > e[index] THEN right
       ELSE IF left <= size /\ e[left] > e[index] THEN left ELSE index

\* The index of the greatest of a node and its children.
MaxIndex(e, size, index) ==
    LET left  == LEFT_CHILD(index)
        right == RIGHT_CHILD(index)
        m     == IF left <= size /\ e[left] > e[index] THEN left ELSE index
    IN IF right <= size /\ e[right] > e[m] THEN right ELSE m

heapify(e, size, index) ==
    LET down[s \in LoopStates(e)] ==
            LET a == s[1]
                i == s[2]
                m == MaxIndex(a, size, i)
            IN IF m = i THEN s ELSE down[<<Swapped(a, i, m), m>>]
    IN down[<<e, index>>][1]

\* The last element lost: size taken down before it is moved.
BadHeapRemove ==
    /\ heap.size >= 1
    /\ heapCall' = <<"remove", heap.elements[1]>>
    /\ LET n == heap.size - 1
       IN heap' = [heap EXCEPT !.size = n,
              !.elements = heapify([@ EXCEPT ![1] = heap.elements[n]], n, 1)]

heap_remove ==
    IF heap.size < 1 THEN heapCall' = <<"remove", NoKey>> /\ UNCHANGED heap
    ELSE /\ heapCall' = <<"remove", heap.elements[1]>>
         /\ LET n == heap.size
            IN heap' = [heap EXCEPT !.size = n - 1,
                   !.elements =
                       heapify([@ EXCEPT ![1] = heap.elements[n]], n - 1, 1)]

\* No element is greater than its parent.
heap_isValid ==
    \A i \in 1 .. heap.size - 1 :
        heap.elements[i + 1] <= heap.elements[PARENT(i + 1)]

HeapNext == (\E k \in HeapKeys : heap_insert(k)) \/ heap_remove

HeapSpec == HeapInit /\ [][HeapNext]_heapVars

-----------------------------------------------------------------------------
\* heap_isValid, which the test program asserts after every call; and the
\* elements in use are within the array and are keys, not what malloc left
\* there.
HeapValid ==
    /\ heap.size \in 0 .. heap.capacity - 1
    /\ \A i \in 1 .. heap.size : heap.elements[i] \in HeapKeys
    /\ heap_isValid

\* How often each key is in the heap.
HeapBag == [k \in HeapKeys |->
                Cardinality({i \in 1 .. heap.size : heap.elements[i] = k})]

Prio == INSTANCE PriorityQueue WITH
    Keys <- HeapKeys, Null <- NoKey, call <- heapCall, bag <- HeapBag

\* heap_remove returns a greatest element, and no element is lost or doubled
\* on the way up, on the way down or into a larger array.
HeapIsPriorityQueue == Prio!PrioSpec
=============================================================================
