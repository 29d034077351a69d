----------------------------- MODULE LinkedList -----------------------------
(***************************************************************************)
(* The sorted singly linked list of lib/list.c as vacation builds it       *)
(* (LIST_NO_DUPLICATES): the reservations of a customer.  Nodes come from  *)
(* malloc and go back to it, their contents with them.                     *)
(* The P... and TM... versions do the same on other allocators.            *)
(***************************************************************************)
EXTENDS Integers, FiniteSets

CONSTANTS
    ListPairs,   \* what dataPtr points at: <<key, value>>, compared by key
    ListNodes,   \* the nodes malloc may hand out
    ListHead,    \* &listPtr->head
    ListNil      \* NULL

ASSUME ListAssumption ==
    /\ IsFiniteSet(ListNodes) /\ \A d \in ListPairs : d[1] \in Int
    /\ ListHead \notin ListNodes /\ ListNil \notin ListNodes \cup {ListHead}

VARIABLES
    list,          \* [next, data, size]
    listNodesUsed, \* nodes malloc has handed out and nobody freed
    listCall       \* the last call and what it returned

listVars == <<list, listNodesUsed, listCall>>

\* A node as allocNode makes it, and as freeNode leaves it.
allocNode(l, n, d) == [l EXCEPT !.data[n] = d, !.next[n] = ListNil]
freeNode(l, n) == [l EXCEPT !.data[n] = ListNil, !.next[n] = ListNil]

list_alloc ==
    [next |-> [n \in ListNodes \cup {ListHead} |-> ListNil],
     data |-> [n \in ListNodes |-> ListNil], size |-> 0]

ListInit ==
    /\ list = list_alloc
    /\ listNodesUsed = {}
    /\ listCall = << >>

\* The last node before the key's place, looked for from the head on.
findPrevious(key) ==
    LET from[prev \in ListNodes \cup {ListHead}] ==
            LET node == list.next[prev]
            IN IF node = ListNil \/ list.data[node][1] >= key THEN prev
               ELSE from[node]
    IN from[ListHead]

\* The node at the key's place, whatever its key.
BadNodeOf(key) == list.next[findPrevious(key)]

\* The node with the key, ListNil when there is none.
NodeOf(key) ==
    LET node == list.next[findPrevious(key)]
    IN IF node = ListNil THEN ListNil
       ELSE IF list.data[node][1] = key THEN node ELSE ListNil

list_find(key) ==
    IF NodeOf(key) = ListNil THEN ListNil ELSE list.data[NodeOf(key)]

\* FALSE for a key that is there, and when malloc has no node left.
list_insert(d) ==
    IF NodeOf(d[1]) # ListNil \/ listNodesUsed = ListNodes
    THEN listCall' = <<"insert", d[1], d[2], FALSE>> /\ UNCHANGED <<list, listNodesUsed>>
    ELSE LET prev == findPrevious(d[1])
         IN /\ \E n \in ListNodes \ listNodesUsed :
                   /\ list' = [allocNode(list, n, d) EXCEPT
                           !.next[n] = list.next[prev], !.next[prev] = n,
                           !.size = @ + 1]
                   /\ listNodesUsed' = listNodesUsed \cup {n}
            /\ listCall' = <<"insert", d[1], d[2], TRUE>>

list_remove(key) ==
    LET prev == findPrevious(key)
        node == NodeOf(key)
    IN IF node = ListNil
       THEN listCall' = <<"delete", key, FALSE>> /\ UNCHANGED <<list, listNodesUsed>>
       ELSE /\ list' = [freeNode(list, node) EXCEPT
                   !.next[prev] = list.next[node], !.size = @ - 1]
            /\ listNodesUsed' = listNodesUsed \ {node}
            /\ listCall' = <<"delete", key, TRUE>>

\* The nodes that an iterator meets.
ListContent ==
    LET from[n \in ListNodes \cup {ListNil}] ==
            IF n = ListNil THEN {} ELSE {n} \cup from[list.next[n]]
    IN from[list.next[ListHead]]

\* freeList of a list whose head was cut off before.
BadListClear ==
    /\ list' = [list EXCEPT !.next[ListHead] = ListNil, !.size = 0]
    /\ UNCHANGED <<listNodesUsed, listCall>>

list_clear ==
    /\ list' = list_alloc
    /\ listNodesUsed' = listNodesUsed \ ListContent
    /\ listCall' = <<"clear">>

list_isEmpty == list.next[ListHead] = ListNil

list_getSize == list.size

ListNext ==
    \/ \E d \in ListPairs : list_insert(d) \/ list_remove(d[1])
    \/ list_clear

ListSpec == ListInit /\ [][ListNext]_listVars

-----------------------------------------------------------------------------
\* The nodes of the list are exactly the nodes malloc handed out (none is
\* lost, none is used after it was freed), size counts them, and they are
\* in ascending order without equal keys, as an iterator meets them.
ListWellFormed ==
    /\ ListContent = listNodesUsed
    /\ list_getSize = Cardinality(listNodesUsed)
    /\ list_isEmpty <=> list_getSize = 0
    /\ \A n \in ListContent :
           list.next[n] # ListNil =>
               list.data[n][1] < list.data[list.next[n]][1]

\* What the list says of every key that an iterator meets.
ListEntries ==
    [k \in {list.data[n][1] : n \in ListContent} |-> list_find(k)[2]]

ListMap == INSTANCE SortedMap WITH
    map <- ListEntries, call <- listCall, Pairs <- ListPairs,
    Capacity <- Cardinality(ListNodes)

\* The list is the map from keys to values that Vacation.tla takes it for.
ListIsMap == ListMap!MapSpec
=============================================================================
