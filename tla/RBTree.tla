------------------------------- MODULE RBTree -------------------------------
(***************************************************************************)
(* The red-black tree of lib/rbtree.hpp: the tables of vacation.  Nodes    *)
(* come from malloc (TxAlloc) and go back to it, their contents with them. *)
(* The plain and the transactional interface run the same algorithm; the   *)
(* code spells out left and right, here they are a parameter.              *)
(***************************************************************************)
EXTENDS Integers, FiniteSets

CONSTANTS
    Pairs,       \* <<key, data>>: what is inserted
    TreeNodes,   \* the nodes malloc may hand out
    Nil          \* nullptr

\* Keys are long integers, which the code compares by their difference: it is
\* taken not to overflow, the ids of vacation being small.  There is memory for
\* so many nodes.
ASSUME TreeAssumption ==
    /\ Nil \notin TreeNodes /\ IsFiniteSet(TreeNodes)
    /\ \A p \in Pairs : p[1] \in Int

VARIABLES
    tree,         \* root, and the fields of all nodes
    nodesUsed,    \* nodes malloc has handed out and nobody freed
    treeCall      \* the last call and what it returned

treeVars == <<tree, nodesUsed, treeCall>>

Pointers == TreeNodes \cup {Nil}

\* Whatever the root and the fields of the nodes may hold.
Trees == [root  : Pointers,
          key   : [TreeNodes -> {p[1] : p \in Pairs} \cup {Nil}],
          data  : [TreeNodes -> {p[2] : p \in Pairs} \cup {Nil}],
          left  : [TreeNodes -> Pointers], right  : [TreeNodes -> Pointers],
          parent : [TreeNodes -> Pointers],
          color : [TreeNodes -> {"red", "black", Nil}]]

AllNil == [n \in TreeNodes |-> Nil]

TreeInit ==
    /\ tree = [root |-> Nil, key |-> AllNil, data |-> AllNil,
               left |-> AllNil, right |-> AllNil, parent |-> AllNil,
               color |-> AllNil]
    /\ nodesUsed = {}
    /\ treeCall = << >>

-----------------------------------------------------------------------------
(* ParentOf, ColorOf, SetColor, LeftOf and RightOf; T[d][n] is n->left or  *)
(* n->right.                                                               *)

Opposite(d) == IF d = "left" THEN "right" ELSE "left"

ParentOf(T, n)   == IF n = Nil THEN Nil ELSE T.parent[n]
ChildOf(T, d, n) == IF n = Nil THEN Nil ELSE T[d][n]
ColorOf(T, n)    == IF n = Nil THEN "black" ELSE T.color[n]

SetColor(T, n, c) == IF n = Nil THEN T ELSE [T EXCEPT !.color[n] = c]

SetParent(T, n, p) == IF n = Nil THEN T ELSE [T EXCEPT !.parent[n] = p]

\* Whatever pointed at n from above points at m.
Relink(T, n, m) ==
    LET p == T.parent[n]
    IN IF p = Nil THEN [T EXCEPT !.root = m]
       ELSE IF T.left[p] = n THEN [T EXCEPT !.left[p] = m]
       ELSE [T EXCEPT !.right[p] = m]

\* RotateLeft and RotateRight: x goes down on side d.
Rotate(T, x, d) ==
    LET o  == Opposite(d)
        r  == T[o][x]
        rl == ChildOf(T, d, r)
        T1 == SetParent([T EXCEPT ![o][x] = rl], rl, x)
        T2 == Relink(SetParent(T1, r, T.parent[x]), x, r)
    IN [T2 EXCEPT ![d][r] = x, !.parent[x] = r]

\* The side of n on which the key belongs.
SideOf(T, n, key) == IF key < T.key[n] THEN "left" ELSE "right"

LookUp(T, key) ==
    LET from[n \in Pointers] ==
            IF n = Nil \/ T.key[n] = key THEN n
            ELSE from[T[SideOf(T, n, key)][n]]
    IN from[T.root]

-----------------------------------------------------------------------------
(* Insertion *)

\* Where a loop that mends the tree may be: the tree, and x.
LoopTurns == [tree : Trees, node : Pointers]

\* x's red parent turns black and goes up on the other side.
ParentUp(T, x, d) ==
    LET p == ParentOf(T, x)
        g == ParentOf(T, p)
        Recolored == SetColor(SetColor(T, p, "black"), g, "red")
    IN IF g = Nil THEN Recolored ELSE Rotate(Recolored, g, Opposite(d))

\* One turn of the loop of FixAfterInsertion: x is red, and so is its parent.
RedParent(T, x) ==
    LET p == ParentOf(T, x)
        g == ParentOf(T, p)
        d == IF p = ChildOf(T, "left", g) THEN "left" ELSE "right"
        y == ChildOf(T, Opposite(d), g)
    IN IF ColorOf(T, y) = "red"
       THEN [tree |-> SetColor(SetColor(SetColor(T, p, "black"), y, "black"),
                               g, "red"),
             node |-> g]
       ELSE IF x = ChildOf(T, Opposite(d), p)
       THEN [tree |-> ParentUp(Rotate(T, p, d), p, d), node |-> p]
       ELSE [tree |-> ParentUp(T, x, d), node |-> x]

\* x is red and its parent may be, too.
FixAfterInsertion(T, x) ==
    LET fix[s \in LoopTurns] ==
            IF \/ s.node = Nil \/ s.node = s.tree.root
               \/ ColorOf(s.tree, ParentOf(s.tree, s.node)) # "red"
            THEN s
            ELSE fix[RedParent(s.tree, s.node)]
        fixed == fix[[tree |-> T, node |-> x]].tree
    IN SetColor(fixed, fixed.root, "black")

\* The node under which the key belongs: the last one on its search path.
LeafFor(T, key) ==
    LET under[t \in TreeNodes] ==
            LET next == T[SideOf(T, t, key)][t]
            IN IF next = Nil THEN t ELSE under[next]
    IN under[T.root]

Filled(T, n, key, value, parent) ==
    [T EXCEPT !.key[n] = key, !.data[n] = value, !.parent[n] = parent,
              !.left[n] = Nil, !.right[n] = Nil, !.color[n] = "black"]

\* InsertNode, for a key that is not there.
InsertNode(T, key, value, n) ==
    IF T.root = Nil
    THEN [Filled(T, n, key, value, Nil) EXCEPT !.root = n]
    ELSE LET t  == LeafFor(T, key)
             T1 == [Filled(T, n, key, value, t)
                       EXCEPT ![SideOf(T, t, key)][t] = n, !.color[n] = "red"]
         IN FixAfterInsertion(T1, n)

\* The new node is allocated before the search and released when the key is
\* there.
TxInsert(key, value) ==
    IF LookUp(tree, key) # Nil
    THEN treeCall' = <<"insert", key, value, FALSE>> /\ UNCHANGED <<tree, nodesUsed>>
    ELSE \E n \in TreeNodes \ nodesUsed :
             /\ tree' = InsertNode(tree, key, value, n)
             /\ nodesUsed' = nodesUsed \cup {n}
             /\ treeCall' = <<"insert", key, value, TRUE>>

-----------------------------------------------------------------------------
(* Deletion *)

\* Successor of a node with a right child.
Successor(T, n) ==
    LET leftmost[m \in TreeNodes] ==
            IF T.left[m] = Nil THEN m ELSE leftmost[T.left[m]]
    IN leftmost[T.right[n]]

\* The sibling of p's child on side d, black: a red one goes up.
BlackSibling(T, p, d) ==
    LET sib == ChildOf(T, Opposite(d), p)
    IN IF ColorOf(T, sib) = "red"
       THEN Rotate(SetColor(SetColor(T, sib, "black"), p, "red"), p, d)
       ELSE T

\* One of the sibling's children is red: the outer one, after a rotation if
\* need be.
RedOutside(T, p, d) ==
    LET sib == ChildOf(T, Opposite(d), p)
    IN IF ColorOf(T, ChildOf(T, Opposite(d), sib)) = "black"
       THEN Rotate(SetColor(SetColor(T, ChildOf(T, d, sib), "black"),
                            sib, "red"),
                   sib, Opposite(d))
       ELSE T

\* The sibling takes p's place and color.
SiblingUp(T, p, d) ==
    LET sib == ChildOf(T, Opposite(d), p)
    IN Rotate(SetColor(SetColor(SetColor(T, sib, ColorOf(T, p)), p, "black"),
                       ChildOf(T, Opposite(d), sib), "black"),
              p, d)

\* p's child on side d is short of one black node, its sibling is black: it
\* is mended, which ends the loop, or p is short of one.
Mended(T, p, d) ==
    LET sib == ChildOf(T, Opposite(d), p)
        done == SiblingUp(RedOutside(T, p, d), p, d)
    IN IF \A s \in {"left", "right"} : ColorOf(T, ChildOf(T, s, sib)) = "black"
       THEN [tree |-> SetColor(T, sib, "red"), node |-> p]
       ELSE [tree |-> done, node |-> done.root]

\* One turn of the loop of FixAfterDeletion: x is black and short of one
\* black node.
ShortOfBlack(T, x) ==
    LET p == ParentOf(T, x)
        d == IF x = ChildOf(T, "left", p) THEN "left" ELSE "right"
    IN Mended(BlackSibling(T, p, d), p, d)

FixAfterDeletion(T, x) ==
    LET fix[s \in LoopTurns] ==
            IF s.node = s.tree.root \/ ColorOf(s.tree, s.node) # "black"
            THEN s
            ELSE fix[ShortOfBlack(s.tree, s.node)]
        fixed == fix[[tree |-> T, node |-> x]]
    IN SetColor(fixed.tree, fixed.node, "black")

\* A node with two children takes its successor's key and data, and the
\* successor's node goes instead.  BadEmptied forgets the data.
BadEmptied(T, p) ==
    IF T.left[p] # Nil /\ T.right[p] # Nil
    THEN LET s == Successor(T, p)
         IN [tree |-> [T EXCEPT !.key[p] = T.key[s]], node |-> s]
    ELSE [tree |-> T, node |-> p]

Emptied(T, p) ==
    IF T.left[p] # Nil /\ T.right[p] # Nil
    THEN LET s == Successor(T, p)
         IN [tree |-> [T EXCEPT !.key[p] = T.key[s], !.data[p] = T.data[s]],
             node |-> s]
    ELSE [tree |-> T, node |-> p]

\* A black leaf goes without FixAfterDeletion.
BadUnlink(T, p) ==
    LET replacement == IF T.left[p] # Nil THEN T.left[p] ELSE T.right[p]
    IN [Relink(SetParent(T, replacement, T.parent[p]), p, replacement)
            EXCEPT !.parent[p] = Nil]

\* The unlinking of p, which has at most one child.
Unlink(T, p) ==
    LET replacement == IF T.left[p] # Nil THEN T.left[p] ELSE T.right[p]
    IN IF replacement # Nil
       THEN LET T1 == Relink(SetParent(T, replacement, T.parent[p]), p,
                             replacement)
                T2 == [T1 EXCEPT !.left[p] = Nil, !.right[p] = Nil,
                                 !.parent[p] = Nil]
            IN IF T.color[p] = "black" THEN FixAfterDeletion(T2, replacement)
               ELSE T2
       ELSE IF T.parent[p] = Nil THEN [T EXCEPT !.root = Nil]
       ELSE LET T1 == IF T.color[p] = "black" THEN FixAfterDeletion(T, p)
                      ELSE T
            IN IF T1.parent[p] = Nil THEN T1
               ELSE [Relink(T1, p, Nil) EXCEPT !.parent[p] = Nil]

\* free: the contents are malloc's.
Freed(T, n) ==
    [T EXCEPT !.key[n] = Nil, !.data[n] = Nil, !.left[n] = Nil,
              !.right[n] = Nil, !.parent[n] = Nil, !.color[n] = Nil]

\* The node of the key freed, when its successor's is the one unlinked.
BadTxDelete(key) ==
    LET n == LookUp(tree, key)
        e == Emptied(tree, n)
    IN /\ n # Nil
       /\ tree' = Freed(Unlink(e.tree, e.node), n)
       /\ nodesUsed' = nodesUsed \ {n}
       /\ treeCall' = <<"delete", key, TRUE>>

TxDelete(key) ==
    LET n == LookUp(tree, key)
    IN IF n = Nil
       THEN treeCall' = <<"delete", key, FALSE>> /\ UNCHANGED <<tree, nodesUsed>>
       ELSE LET e == Emptied(tree, n)
            IN /\ tree' = Freed(Unlink(e.tree, e.node), e.node)
               /\ nodesUsed' = nodesUsed \ {e.node}
               /\ treeCall' = <<"delete", key, TRUE>>

TreeNext == \E p \in Pairs : TxInsert(p[1], p[2]) \/ TxDelete(p[1])

TreeSpec == TreeInit /\ [][TreeNext]_treeVars

-----------------------------------------------------------------------------
\* The nodes of the subtree of n.
Nodes(n) ==
    LET below[m \in Pointers] ==
            IF m = Nil THEN {}
            ELSE {m} \cup below[tree.left[m]] \cup below[tree.right[m]]
    IN below[n]

\* Black nodes on every path down from n, -1 when paths differ.
BlackHeight(n) ==
    LET height[m \in Pointers] ==
            IF m = Nil THEN 0
            ELSE LET l == height[tree.left[m]]
                     r == height[tree.right[m]]
                 IN IF l = -1 \/ l # r THEN -1
                    ELSE l + (IF tree.color[m] = "black" THEN 1 ELSE 0)
    IN height[n]

\* After every call: the root is black, no red node has a red child, all
\* paths are equally black, the keys are in order, parents and children
\* agree.
TreeBalanced ==
    /\ ColorOf(tree, tree.root) = "black" /\ ParentOf(tree, tree.root) = Nil
    /\ BlackHeight(tree.root) # -1
    /\ \A n \in Nodes(tree.root) :
           /\ tree.color[n] = "red" => ColorOf(tree, tree.parent[n]) = "black"
           /\ \A m \in Nodes(tree.left[n]) : tree.key[m] < tree.key[n]
           /\ \A m \in Nodes(tree.right[n]) : tree.key[m] > tree.key[n]
           /\ \A m \in {tree.left[n], tree.right[n]} \ {Nil} :
                  tree.parent[m] = n

\* The nodes of the tree are exactly the nodes malloc handed out: none is
\* lost, none is still linked after it was freed.
TreeKeepsNodes == Nodes(tree.root) = nodesUsed

\* The keys that are there, each with the data LookUp finds.
TreeEntries == [k \in {tree.key[n] : n \in Nodes(tree.root)} |->
                    tree.data[LookUp(tree, k)]]

TreeMap == INSTANCE SortedMap WITH
    map <- TreeEntries, call <- treeCall,
    Capacity <- Cardinality(TreeNodes)

\* The tree is the map from keys to data that Vacation.tla takes it for.
TreeIsMap == TreeMap!MapSpec
=============================================================================
