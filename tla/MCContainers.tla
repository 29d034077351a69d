---------------------------- MODULE MCContainers ----------------------------
(* One program per container: it uses that container and none of the others. *)
EXTENDS Queue, Heap, LinkedList, RBTree, MemoryPool, WriteSetFilter

\* The container in use.
VARIABLE under

allVars == <<under, queueVars, heapVars, listVars, treeVars, poolVars,
             filterVars>>

\* Keys and values; the first key of the list comes with two of them.
MCListPairs == {<<k, 1>> : k \in 1 .. 5} \cup {<<1, 2>>}
MCPairs == {<<k, k>> : k \in 1 .. 9}

\* Eight addresses with colliding hashes, sums that wrap around.
MCHashA == [k \in Keys |-> (5 * k + 3) % WordSize]
MCHashB == [k \in Keys |-> (k * k + 9) % WordSize]

MCInit ==
    /\ under \in {"queue", "heap", "list", "tree", "pool", "filter"}
    /\ QueueInit /\ (under # "queue" => queue = queue_alloc(0))
    /\ HeapInit /\ (under # "heap" => heap = heap_alloc(0))
    /\ ListInit /\ TreeInit /\ memory_init /\ FilterInit

MCNext ==
    /\ UNCHANGED under
    /\ \/ /\ under = "queue" /\ QueueNext
          /\ UNCHANGED <<heapVars, listVars, treeVars, poolVars, filterVars>>
       \/ /\ under = "heap" /\ HeapNext
          /\ UNCHANGED <<queueVars, listVars, treeVars, poolVars, filterVars>>
       \/ /\ under = "list" /\ ListNext
          /\ UNCHANGED <<queueVars, heapVars, treeVars, poolVars, filterVars>>
       \/ /\ under = "tree" /\ TreeNext
          /\ UNCHANGED <<queueVars, heapVars, listVars, poolVars, filterVars>>
       \/ /\ under = "pool" /\ PoolNext
          /\ UNCHANGED <<queueVars, heapVars, listVars, treeVars, filterVars>>
       \/ /\ under = "filter" /\ FilterNext
          /\ UNCHANGED <<queueVars, heapVars, listVars, treeVars, poolVars>>

\* The subtree of n, whatever its nodes are called.
RECURSIVE Shape(_)
Shape(n) ==
    IF n = Nil THEN << >>
    ELSE <<tree.key[n], tree.data[n], tree.color[n],
           IF tree.parent[n] = Nil THEN Nil ELSE tree.key[tree.parent[n]],
           Shape(tree.left[n]), Shape(tree.right[n])>>

\* The tree's actions do not tell one node from another: states that differ
\* only in which node is which count as one.
MCView == <<under, queueVars, heapVars, listVars, poolVars, filterVars,
            treeCall, Shape(tree.root), Cardinality(nodesUsed)>>

MCSpec == MCInit /\ [][MCNext]_allVars
=============================================================================
