------------------------------- MODULE Queue -------------------------------
(***************************************************************************)
(* The circular buffer of lib/queue.c: pop points before the element to    *)
(* pop, push at the next free slot, and a push that would make them meet   *)
(* doubles the array first.  One action per call; the P... and TM...       *)
(* versions do the same on other allocators.  A push whose malloc fails    *)
(* changes nothing, and is no step here.                                   *)
(***************************************************************************)
EXTENDS Integers, Sequences

CONSTANTS
    Items,           \* what is pushed, never NULL
    Null,            \* NULL
    Junk,            \* what malloc leaves in an array
    InitCapacities,  \* arguments of queue_alloc
    MaxItems         \* bound: items in the queue

ASSUME QueueAssumption ==
    /\ InitCapacities \subseteq Int
    /\ MaxItems \in Nat
    /\ Null \notin Items /\ Junk \notin Items

VARIABLES
    queue,      \* [pop, push, capacity, elements]
    queueCall   \* the last call and what it returned

queueVars == <<queue, queueCall>>

queue_alloc(initCapacity) ==
    LET c == IF initCapacity < 2 THEN 2 ELSE initCapacity
    IN [pop |-> c - 1, push |-> 0, capacity |-> c,
        elements |-> [i \in 0 .. c - 1 |-> Junk]]

QueueInit ==
    /\ \E c \in InitCapacities : queue = queue_alloc(c)
    /\ queueCall = << >>

queue_isEmpty(q) == (q.pop + 1) % q.capacity = q.push

\* numElement of queue_shuffle, and what dst ends with in queue_push.
NumElement(q) == IF q.pop < q.push THEN q.push - (q.pop + 1)
                 ELSE q.capacity - (q.pop - q.push + 1)

\* Only the part up to the end of the array copied.
BadGrown(q) ==
    [pop |-> 2 * q.capacity - 1, push |-> NumElement(q),
     capacity |-> 2 * q.capacity,
     elements |-> [dst \in 0 .. 2 * q.capacity - 1 |->
         IF dst < NumElement(q) /\ q.pop + 1 + dst < q.capacity
         THEN q.elements[q.pop + 1 + dst] ELSE Junk]]

\* Twice the array, the elements copied to its beginning: those behind pop
\* up to push, or to the end and then those before push.
Grown(q) ==
    [pop |-> 2 * q.capacity - 1, push |-> NumElement(q),
     capacity |-> 2 * q.capacity,
     elements |-> [dst \in 0 .. 2 * q.capacity - 1 |->
         IF dst >= NumElement(q) THEN Junk
         ELSE IF q.pop + 1 + dst < q.capacity
         THEN q.elements[q.pop + 1 + dst]
         ELSE q.elements[q.pop + 1 + dst - q.capacity]]]

Full(q) == (q.push + 1) % q.capacity = q.pop

queue_push(d) ==
    /\ NumElement(queue) < MaxItems
    /\ LET q == IF Full(queue) THEN Grown(queue) ELSE queue
       IN queue' = [q EXCEPT !.elements[q.push] = d,
                             !.push = (q.push + 1) % q.capacity]
    /\ queueCall' = <<"push", d>>

\* The test against push after the index has moved.
BadQueuePop ==
    LET newPop == (queue.pop + 1) % queue.capacity
    IN /\ queue.pop # queue.push
       /\ queueCall' = <<"pop", queue.elements[newPop]>>
       /\ queue' = [queue EXCEPT !.pop = newPop]

queue_pop ==
    LET newPop == (queue.pop + 1) % queue.capacity
    IN IF newPop = queue.push THEN queueCall' = <<"pop", Null>> /\ UNCHANGED queue
       ELSE /\ queueCall' = <<"pop", queue.elements[newPop]>>
            /\ queue' = [queue EXCEPT !.pop = newPop]

queue_clear ==
    /\ queue' = [queue EXCEPT !.pop = queue.capacity - 1, !.push = 0]
    /\ queueCall' = <<"clear">>

\* As many swaps of two elements as there are elements: any permutation.
queue_shuffle ==
    LET n    == NumElement(queue)
        Slot(k) == (queue.pop + 1 + k) % queue.capacity
    IN \E p \in [0 .. n - 1 -> 0 .. n - 1] :
           /\ \A i, j \in 0 .. n - 1 : p[i] = p[j] => i = j
           /\ queue' = [queue EXCEPT !.elements =
                  [s \in 0 .. queue.capacity - 1 |->
                      IF \E k \in 0 .. n - 1 : Slot(k) = s
                      THEN @[Slot(p[CHOOSE k \in 0 .. n - 1 : Slot(k) = s])]
                      ELSE @[s]]]
           /\ queueCall' = <<"shuffle">>

QueueNext ==
    \/ \E d \in Items : queue_push(d)
    \/ queue_pop
    \/ queue_clear
    \/ queue_shuffle

QueueSpec == QueueInit /\ [][QueueNext]_queueVars

-----------------------------------------------------------------------------
\* The indexes are slots of the array and never meet, the assertion of
\* queue_push: an array is never so full that it looks empty or holds one
\* element too many, and queue_isEmpty tells.
QueueTypeOK ==
    /\ queue.capacity \in Nat /\ queue.capacity >= 2
    /\ queue.pop \in 0 .. queue.capacity - 1
    /\ queue.push \in 0 .. queue.capacity - 1
    /\ queue.pop # queue.push
    /\ queue.elements \in [0 .. queue.capacity - 1 -> Items \cup {Junk}]
    /\ queueCall \in {<< >>, <<"clear">>, <<"shuffle">>} \cup {"push"} \X Items
                      \cup {"pop"} \X (Items \cup {Null})
    /\ queue_isEmpty(queue) <=> NumElement(queue) = 0

\* The elements from the one to pop to the one last pushed.
Contents == [k \in 1 .. NumElement(queue) |->
                 queue.elements[(queue.pop + k) % queue.capacity]]

Fifo == INSTANCE FifoQueue WITH items <- Contents,
                                   call <- queueCall

\* Wrapped around, grown in any position, cleared or shuffled: what is
\* popped is what was pushed first, and never what malloc left in the array.
QueueIsFifo == Fifo!FifoSpec
=============================================================================
