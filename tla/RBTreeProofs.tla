---------------------------- MODULE RBTreeProofs ----------------------------
(***************************************************************************)
(* The red-black tree, for any keys, data and number of nodes: it stays    *)
(* balanced, keeps its nodes and is a map.                                 *)
(*                                                                         *)
(* A sound tree (Sound) has a subtree sub[n] and a black height bh[n] for  *)
(* every node n, so that the invariant needs no recursion: the order is    *)
(* Shape, the equal heights are Heights, no red under red is Reds.  While  *)
(* a loop mends the tree one of these fails at one node x, which Reddened  *)
(* and Short say; a turn moves x up or ends the loop, and by LoopEnds the  *)
(* loops of the code come to a sound tree.                                 *)
(***************************************************************************)
EXTENDS RBTree, ContainerProofs

-----------------------------------------------------------------------------
(* Sides and fields *)

\* The two sides of a node.
Sides == {"left", "right"}

\* Opposite is the other of the two sides.
LEMMA OtherSide ==
  \A d \in Sides : /\ Opposite(d) \in Sides /\ Opposite(d) # d
                   /\ Opposite(Opposite(d)) = d
                   /\ \A e \in Sides : e = d \/ e = Opposite(d)
BY DEF Sides, Opposite

\* U has the links of T, colors and entries aside.
SameLinks(T, U) ==
    /\ U.root = T.root /\ U.parent = T.parent
    /\ U.left = T.left /\ U.right = T.right

\* U has the keys and the data of T.
SameEntries(T, U) == U.key = T.key /\ U.data = T.data

\* The fields of a tree, by name and by side.
LEMMA FieldTypes ==
  ASSUME NEW T \in Trees
  PROVE  /\ T.root \in Pointers
         /\ T.left \in [TreeNodes -> Pointers]
         /\ T.right \in [TreeNodes -> Pointers]
         /\ T.parent \in [TreeNodes -> Pointers]
         /\ \A d \in Sides : T[d] \in [TreeNodes -> Pointers]
         /\ T["left"] = T.left /\ T["right"] = T.right
         /\ T.color \in [TreeNodes -> {"red", "black", Nil}]
         /\ T.key \in [TreeNodes -> {p[1] : p \in Pairs} \cup {Nil}]
         /\ T.data \in [TreeNodes -> {p[2] : p \in Pairs} \cup {Nil}]
BY DEF Trees, Sides

\* U is T but for the color of n.
ColorIs(T, U, n, c) ==
    /\ U \in Trees /\ SameLinks(T, U) /\ SameEntries(T, U)
    /\ \A m \in TreeNodes : U.color[m] = IF m = n THEN c ELSE T.color[m]

\* SetColor sets one color.
LEMMA ColorSet ==
  ASSUME NEW T \in Trees, NEW n \in Pointers,
         NEW c \in {"red", "black", Nil}
  PROVE  ColorIs(T, SetColor(T, n, c), n, c)
<1>1. CASE n = Nil
  BY <1>1, TreeAssumption DEF SetColor, SameLinks, SameEntries, ColorIs
<1>2. CASE n # Nil
  <2>1. n \in TreeNodes
    BY <1>2 DEF Pointers
  <2> QED
    BY <1>2, <2>1 DEF SetColor, SameLinks, SameEntries, Trees, ColorIs
<1> QED
  BY <1>1, <1>2

\* With the same links, both sides agree.
LEMMA SameSides ==
  ASSUME NEW T \in Trees, NEW U \in Trees, SameLinks(T, U), NEW d \in Sides
  PROVE  U[d] = T[d]
BY FieldTypes DEF SameLinks, Sides

\* U is T but for the parent of n.
ParentIs(T, U, n, p) ==
    /\ U \in Trees /\ SameEntries(T, U) /\ U.color = T.color
    /\ U.root = T.root /\ U.left = T.left /\ U.right = T.right
    /\ \A m \in TreeNodes : U.parent[m] = IF m = n THEN p ELSE T.parent[m]

\* SetParent sets one parent.
LEMMA ParentSet ==
  ASSUME NEW T \in Trees, NEW n \in Pointers, NEW p \in Pointers
  PROVE  ParentIs(T, SetParent(T, n, p), n, p)
<1>1. CASE n = Nil
  BY <1>1, TreeAssumption DEF SetParent, SameEntries, ParentIs
<1>2. CASE n # Nil
  <2>1. n \in TreeNodes
    BY <1>2 DEF Pointers
  <2> QED
    BY <1>2, <2>1 DEF SetParent, SameEntries, Trees, ParentIs
<1> QED
  BY <1>1, <1>2

\* U is T but for the child of n on side d.
ChildIs(T, U, d, n, m) ==
    /\ U \in Trees /\ SameEntries(T, U) /\ U.color = T.color
    /\ U.root = T.root /\ U.parent = T.parent
    /\ \A e \in Sides, k \in TreeNodes :
           U[e][k] = IF e = d /\ k = n THEN m ELSE T[e][k]

\* T with m as the child of n on side d.
WithChild(T, d, n, m) == [T EXCEPT ![d][n] = m]

\* WithChild sets one child.
LEMMA ChildSet ==
  ASSUME NEW T \in Trees, NEW d \in Sides, NEW n \in Pointers,
         NEW m \in Pointers
  PROVE  ChildIs(T, WithChild(T, d, n, m), d, n, m)
<1>1. CASE d = "left" /\ n # Nil
  <2>1. WithChild(T, d, n, m) = [T EXCEPT !.left[n] = m] /\ n \in TreeNodes
    BY <1>1 DEF WithChild, Pointers
  <2> QED
    BY <1>1, <2>1 DEF Trees, SameEntries, Sides, ChildIs
<1>2. CASE d = "right" /\ n # Nil
  <2>1. WithChild(T, d, n, m) = [T EXCEPT !.right[n] = m] /\ n \in TreeNodes
    BY <1>2 DEF WithChild, Pointers
  <2> QED
    BY <1>2, <2>1 DEF Trees, SameEntries, Sides, ChildIs
<1>3. CASE n = Nil
  <2>1. CASE d = "left"
    <3>1. WithChild(T, d, n, m) = [T EXCEPT !.left[n] = m]
      BY <2>1 DEF WithChild
    <3>2. WithChild(T, d, n, m) = T
      BY <1>3, <3>1, TreeAssumption DEF Trees
    <3> QED
      BY <1>3, <3>2, TreeAssumption DEF SameEntries, ChildIs
  <2>2. CASE d = "right"
    <3>1. WithChild(T, d, n, m) = [T EXCEPT !.right[n] = m]
      BY <2>2 DEF WithChild
    <3>2. WithChild(T, d, n, m) = T
      BY <1>3, <3>1, TreeAssumption DEF Trees
    <3> QED
      BY <1>3, <3>2, TreeAssumption DEF SameEntries, ChildIs
  <2> QED
    BY <2>1, <2>2 DEF Sides
<1> QED
  BY <1>1, <1>2, <1>3 DEF Sides

-----------------------------------------------------------------------------
(* Links and rotations *)

\* m is where n was, seen from above.
LinkIs(T, U, n, m) ==
    /\ U \in Trees /\ SameEntries(T, U) /\ U.color = T.color
    /\ U.parent = T.parent
    /\ T.parent[n] = Nil =>
         /\ U.root = m
         /\ \A e \in Sides, k \in TreeNodes : U[e][k] = T[e][k]
    /\ T.parent[n] # Nil =>
         /\ U.root = T.root
         /\ \E d \in Sides :
              /\ T.left[T.parent[n]] = n <=> d = "left"
              /\ ChildIs(T, U, d, T.parent[n], m)

\* Relink sets one link down, or the root.
LEMMA Relinked ==
  ASSUME NEW T \in Trees, NEW n \in TreeNodes, NEW m \in Pointers
  PROVE  LinkIs(T, Relink(T, n, m), n, m)
<1> DEFINE U == Relink(T, n, m)
           p == T.parent[n]
<1>1. p \in Pointers
  BY FieldTypes
<1>2. CASE p = Nil
  <2>1. U = [T EXCEPT !.root = m]
    BY <1>2 DEF Relink
  <2>2. /\ U \in Trees /\ SameEntries(T, U) /\ U.color = T.color
        /\ U.root = m /\ U.parent = T.parent
        /\ U.left = T.left /\ U.right = T.right
    BY <2>1 DEF Trees, SameEntries
  <2>3. \A e \in Sides, k \in TreeNodes : U[e][k] = T[e][k]
    BY <2>2, FieldTypes DEF Sides
  <2> QED
    BY <1>2, <2>2, <2>3 DEF LinkIs
<1>3. CASE p # Nil
  <2>2. PICK d \in Sides : T.left[p] = n <=> d = "left"
    BY DEF Sides
  <2>3. U = WithChild(T, d, p, m)
    <3>1. CASE T.left[p] = n
      BY <1>3, <2>2, <3>1 DEF Relink, WithChild
    <3>2. CASE T.left[p] # n
      <4>1. d = "right"
        BY <2>2, <3>2 DEF Sides
      <4> QED
        BY <1>3, <3>2, <4>1 DEF Relink, WithChild
    <3> QED
      BY <3>1, <3>2
  <2> HIDE DEF U
  <2>4. ChildIs(T, U, d, p, m)
    BY <1>1, <2>3, ChildSet
  <2>5. /\ U \in Trees /\ SameEntries(T, U) /\ U.color = T.color
        /\ U.root = T.root /\ U.parent = T.parent
    BY <2>4 DEF ChildIs
  <2> QED
    BY <1>3, <2>2, <2>4, <2>5 DEF LinkIs, U
<1> QED
  BY <1>2, <1>3

\* U is T with x gone down on side d, and r in its place.
Turned(T, U, S, x, r, d) ==
    /\ SameEntries(T, U) /\ U.color = T.color
    /\ U.root = IF T.root = x THEN r ELSE T.root
    /\ U[d][x] = T[d][x]
    /\ U[Opposite(d)][x] = T[d][r]
    /\ U[d][r] = x
    /\ U[Opposite(d)][r] = T[Opposite(d)][r]
    /\ \A n \in S \ {x, r}, e \in Sides :
           U[e][n] = IF T[e][n] = x THEN r ELSE T[e][n]
    /\ \A n \in TreeNodes \ S, e \in Sides : U[e][n] = T[e][n]
    /\ U.parent[x] = r /\ U.parent[r] = T.parent[x]
    /\ \A n \in S \ {x, r} :
           U.parent[n] = IF n = T[d][r] THEN x ELSE T.parent[n]

\* The pointers up are those down, the other way.
Linked(T, S) ==
    /\ S \subseteq TreeNodes
    /\ T.root \in S \cup {Nil}
    /\ T.root # Nil => T.parent[T.root] = Nil
    /\ \A n \in S :
         /\ T.parent[n] \in S \cup {Nil}
         /\ T.parent[n] = Nil => T.root = n
         /\ T.parent[n] # Nil => \E d \in Sides : T[d][T.parent[n]] = n
         /\ \A d \in Sides : /\ T[d][n] \in S \cup {Nil}
                             /\ T[d][n] # Nil => T.parent[T[d][n]] = n
         /\ T.left[n] = T.right[n] => T.left[n] = Nil
         /\ T.parent[n] # n

\* Rotate does what Turned says.
LEMMA RotateTurns ==
  ASSUME NEW T \in Trees, NEW x \in TreeNodes, NEW d \in Sides
  PROVE  /\ Rotate(T, x, d) \in Trees
         /\ \A S, r : /\ Linked(T, S) /\ x \in S
                       /\ r = T[Opposite(d)][x] /\ r # Nil
                       /\ (\A e \in Sides : T[e][r] # x)
                       => Turned(T, Rotate(T, x, d), S, x, r, d)
<1> DEFINE o == Opposite(d)
           r == T[o][x]
           rl == ChildOf(T, d, r)
           T0 == WithChild(T, o, x, rl)
           T1 == SetParent(T0, rl, x)
           T2 == SetParent(T1, r, T.parent[x])
           T3 == Relink(T2, x, r)
           T4 == WithChild(T3, d, r, x)
           U == SetParent(T4, x, r)
<1>1. U = Rotate(T, x, d)
  <2>1. x # Nil
    BY TreeAssumption
  <2> QED
    BY <2>1 DEF Rotate, SetParent, WithChild
<1>2. /\ o \in Sides /\ o # d /\ r \in Pointers /\ rl \in Pointers
      /\ T.parent[x] \in Pointers /\ x \in Pointers
      /\ \A e \in Sides : e = d \/ e = o
  BY OtherSide, FieldTypes DEF ChildOf, Pointers
<1> HIDE DEF o, r, rl
<1>3. ChildIs(T, T0, o, x, rl) /\ T0 \in Trees
  BY <1>2, ChildSet DEF ChildIs
<1> HIDE DEF T0
<1>4. ParentIs(T0, T1, rl, x) /\ T1 \in Trees
  BY <1>2, <1>3, ParentSet DEF ParentIs
<1> HIDE DEF T1
<1>5. ParentIs(T1, T2, r, T.parent[x]) /\ T2 \in Trees
  <2>1. ParentIs(T1, T2, r, T.parent[x])
    BY <1>2, <1>4, ParentSet
  <2> QED
    BY <2>1 DEF ParentIs
<1> HIDE DEF T2
<1>6. LinkIs(T2, T3, x, r) /\ T3 \in Trees
  <2>1. LinkIs(T2, T3, x, r)
    BY <1>2, <1>5, Relinked
  <2> QED
    BY <2>1 DEF LinkIs
<1> HIDE DEF T3
<1>7. ChildIs(T3, T4, d, r, x) /\ T4 \in Trees
  BY <1>2, <1>6, ChildSet DEF ChildIs
<1> HIDE DEF T4
<1>8. ParentIs(T4, U, x, r) /\ U \in Trees
  BY <1>2, <1>7, ParentSet DEF ParentIs
<1> HIDE DEF U
<1>9. ASSUME NEW S, Linked(T, S), x \in S, r # Nil, \A e \in Sides : T[e][r] # x
      PROVE  Turned(T, U, S, x, r, d)
  <2>1. r \in S /\ r # x /\ T.parent[r] = x
    BY <1>2, <1>9 DEF Linked, r
  <2>2. rl = T[d][r] /\ rl \in S \cup {Nil} /\ rl # x /\ rl # r
    <3>1. rl = T[d][r] /\ rl \in S \cup {Nil}
      BY <1>2, <1>9, <2>1 DEF Linked, rl, ChildOf
    <3>2. rl # Nil => T.parent[rl] = r
      BY <1>2, <1>9, <2>1, <3>1 DEF Linked
    <3> QED
      BY <1>2, <1>9, <2>1, <3>1, <3>2 DEF Linked
  <2> DEFINE p == T.parent[x]
  <2>3. p \in S \cup {Nil} /\ p # x /\ p # r /\ (p = Nil <=> T.root = x)
        /\ (p # Nil => \E e \in Sides : T[e][p] = x)
    <3>1. x # Nil
      BY TreeAssumption
    <3> QED
      BY <1>9, <2>1, <3>1 DEF Linked
  <2>4. T2.parent[x] = p
    BY <1>2, <1>3, <1>4, <1>5, <2>1, <2>2 DEF ParentIs, ChildIs
  <2>5. \A n \in S : n \in TreeNodes
    BY <1>9 DEF Linked
  <2>6. ASSUME NEW n \in S
        PROVE  U.parent[n] = IF n = x THEN r ELSE IF n = r THEN p
                             ELSE IF n = rl THEN x ELSE T.parent[n]
    <3>1. T3.parent[n] = IF n = r THEN p
                         ELSE IF n = rl THEN x ELSE T.parent[n]
      BY <1>2, <1>3, <1>4, <1>5, <1>6, <2>1, <2>2, <2>5, <2>6 DEF ParentIs, ChildIs, LinkIs
    <3> QED
      BY <1>7, <1>8, <2>5, <3>1 DEF ParentIs, ChildIs
  <2>7. T2.left = T0.left /\ T2.right = T0.right /\ T2.root = T.root
    BY <1>3, <1>4, <1>5 DEF ParentIs, ChildIs
  <2>8. ASSUME NEW e \in Sides, NEW n \in TreeNodes
        PROVE  T2[e][n] = IF e = o /\ n = x THEN rl ELSE T[e][n]
    <3>1. T2[e] = T0[e]
      BY <1>3, <1>5, <2>7, FieldTypes DEF Sides
    <3> QED
      BY <1>3, <3>1 DEF ChildIs
  <2>9. U.root = IF T.root = x THEN r ELSE T.root
    <3>1. U.root = T3.root
      BY <1>7, <1>8 DEF ParentIs, ChildIs
    <3> QED
      BY <1>6, <2>3, <2>4, <2>7, <3>1 DEF LinkIs, ChildIs
  <2>10. ASSUME NEW e \in Sides, NEW n \in TreeNodes
         PROVE  U[e][n] = IF e = d /\ n = r THEN x ELSE T3[e][n]
    <3>1. U[e] = T4[e]
      BY <1>7, <1>8, FieldTypes DEF Sides, ParentIs
    <3> QED
      BY <1>7, <3>1 DEF ChildIs
  <2>11. ASSUME NEW e \in Sides, NEW n \in S
         PROVE  T3[e][n] = IF n # x /\ T[e][n] = x THEN r ELSE T2[e][n]
    <3>1. CASE p = Nil
      <4>1. T[e][n] # x
        BY <1>9, <3>1, TreeAssumption DEF Linked
      <4> QED
        BY <1>6, <2>4, <2>5, <3>1, <4>1 DEF LinkIs
    <3>2. CASE p # Nil
      <4>1. PICK s \in Sides : /\ T2.left[p] = x <=> s = "left"
                               /\ ChildIs(T2, T3, s, p, r)
        BY <1>6, <2>4, <3>2 DEF LinkIs
      <4>2. T[e][n] = x => n = p
        <5>1. T[e][n] # Nil => T.parent[T[e][n]] = n
          BY <1>9 DEF Linked
        <5>2. x # Nil
          BY TreeAssumption
        <5> QED
          BY <5>1, <5>2
      <4>3. p \in TreeNodes /\ T2.left[p] = T.left[p]
        <5>1. p \in TreeNodes /\ "left" \in Sides
          BY <2>3, <2>5, <3>2 DEF Sides
        <5>2. T2["left"][p] = T["left"][p]
          BY <2>3, <2>8, <5>1
        <5> QED
          BY <1>5, <5>1, <5>2, FieldTypes
      <4>4. T[e][p] = x <=> e = s
        <5>1. PICK f \in Sides : T[f][p] = x
          BY <2>3, <3>2
        <5>2. T.left[p] = T.right[p] => T.left[p] = Nil
          BY <1>9, <2>3, <3>2 DEF Linked
        <5>3. T["left"] = T.left /\ T["right"] = T.right /\ x # Nil
          BY FieldTypes, TreeAssumption
        <5> QED
          BY <4>1, <4>3, <5>1, <5>2, <5>3 DEF Sides
      <4> QED
        BY <2>3, <2>5, <4>1, <4>2, <4>4 DEF ChildIs
    <3> QED
      BY <3>1, <3>2
  <2>12. SameEntries(T, U) /\ U.color = T.color
    BY <1>3, <1>4, <1>5, <1>6, <1>7, <1>8 DEF ParentIs, ChildIs, LinkIs, SameEntries
  <2>13. ASSUME NEW e \in Sides, NEW n \in S
         PROVE  U[e][n] = IF e = d /\ n = r THEN x
                          ELSE IF n # x /\ T[e][n] = x THEN r
                          ELSE IF e = o /\ n = x THEN rl ELSE T[e][n]
    BY <2>5, <2>8, <2>10, <2>11, <2>13
  <2>14. T[d][x] # x /\ T[o][x] # x /\ T[o][r] # x
    BY <1>2, <1>9, TreeAssumption DEF Linked
  <2>15. /\ U[d][x] = T[d][x] /\ U[o][x] = T[d][r]
         /\ U[d][r] = x /\ U[o][r] = T[o][r]
    BY <1>2, <1>9, <2>1, <2>2, <2>13, <2>14
  <2>16. ASSUME NEW n \in S \ {x, r}, NEW e \in Sides
         PROVE  U[e][n] = IF T[e][n] = x THEN r ELSE T[e][n]
    BY <2>13, <2>16
  <2>17. /\ U.parent[x] = r /\ U.parent[r] = T.parent[x]
         /\ \A n \in S \ {x, r} :
               U.parent[n] = IF n = T[d][r] THEN x ELSE T.parent[n]
    BY <1>9, <2>1, <2>2, <2>6
  <2>18. ASSUME NEW e \in Sides, NEW n \in TreeNodes \ S
         PROVE  U[e][n] = T[e][n]
    <3>1. n # x /\ n # r /\ n # p
      BY <1>9, <2>1, <2>3, TreeAssumption
    <3>2. T3[e][n] = T2[e][n]
      BY <1>6, <2>4, <3>1 DEF LinkIs, ChildIs
    <3> QED
      BY <2>8, <2>10, <3>1, <3>2
  <2> HIDE DEF p
  <2> QED
    BY <2>9, <2>12, <2>15, <2>16, <2>17, <2>18 DEF Turned, o
<1> QED
  <2>1. Rotate(T, x, d) \in Trees
    BY <1>1, <1>8
  <2> QED
    BY <1>1, <1>9, <2>1 DEF o, r

-----------------------------------------------------------------------------
(* The order of a search tree *)

\* a is on side d of b.
Before(d, a, b) == IF d = "left" THEN a < b ELSE a > b

\* The pointers of the nodes S agree.
Pointed(T, S) ==
    /\ S \subseteq TreeNodes
    /\ T.root \in S \cup {Nil}
    /\ T.root # Nil => T.parent[T.root] = Nil
    /\ \A n \in TreeNodes \ S, d \in Sides : T[d][n] = Nil
    /\ \A n \in S :
         /\ T.parent[n] \in S \cup {Nil}
         /\ T.parent[n] = Nil => T.root = n
         /\ T.parent[n] # Nil => \E d \in Sides : T[d][T.parent[n]] = n
         /\ \A d \in Sides : /\ T[d][n] \in S \cup {Nil}
                             /\ T[d][n] # Nil => T.parent[T[d][n]] = n

\* sub[n] are the nodes of the subtree of n, all nodes that of the root, and
\* those on the left of n are before n in the order of pos.
Ordered(T, S, sub, pos) ==
    /\ sub \in [Pointers -> SUBSET S]
    /\ sub[Nil] = {} /\ sub[T.root] = S
    /\ \A n \in S : pos[n] \in Int
    /\ \A n \in S : sub[n] = {n} \cup sub[T.left[n]] \cup sub[T.right[n]]
    /\ \A n \in S, d \in Sides : \A m \in sub[T[d][n]] :
           Before(d, pos[m], pos[n])

\* The links of T make a search tree of the nodes S.
Shape(T, S, sub, pos) == T \in Trees /\ Pointed(T, S) /\ Ordered(T, S, sub, pos)

\* A subtree is its root and the subtrees of its children.
LEMMA SubOf ==
  ASSUME NEW T, NEW S, NEW sub, NEW pos, Shape(T, S, sub, pos),
         NEW d \in Sides, NEW n \in S
  PROVE  /\ sub[n] = {n} \cup sub[T[d][n]] \cup sub[T[Opposite(d)][n]]
         /\ sub[n] \subseteq S
<1>1. T["left"] = T.left /\ T["right"] = T.right
  BY FieldTypes DEF Shape
<1>2. CASE d = "left"
  BY <1>1, <1>2 DEF Shape, Ordered, Opposite, Pointed, Pointers
<1>3. CASE d = "right"
  BY <1>1, <1>3 DEF Shape, Ordered, Opposite, Pointed, Pointers
<1> QED
  BY <1>2, <1>3 DEF Sides

\* A node, its children and what is below them are all apart.
LEMMA Apart ==
  ASSUME NEW T, NEW S, NEW sub, NEW pos, Shape(T, S, sub, pos),
         NEW d \in Sides, NEW n \in S
  PROVE  /\ n \in sub[n] /\ n # Nil
         /\ n \notin sub[T[d][n]]
         /\ sub[T[d][n]] \subseteq sub[n]
         /\ sub[T[d][n]] \cap sub[T[Opposite(d)][n]] = {}
         /\ T[d][n] \in S \cup {Nil}
         /\ T[d][n] # n
         /\ T[d][n] # Nil => /\ T[d][n] \in S
                             /\ T[d][n] \in sub[T[d][n]]
                             /\ T[d][n] # T[Opposite(d)][n]
                             /\ T.parent[T[d][n]] = n
                             /\ T[d][n] # T.root
<1> DEFINE o == Opposite(d)
<1>1. o \in Sides /\ o # d /\ Opposite(o) = d
  BY OtherSide
<1>2. n \in sub[n] /\ sub[T[d][n]] \subseteq sub[n] /\ sub[n] \subseteq S
      /\ sub[T[o][n]] \subseteq sub[n]
  BY <1>1, SubOf
<1>3. n # Nil /\ S \subseteq TreeNodes
  BY TreeAssumption DEF Shape, Pointed
<1>4. n \notin sub[T[d][n]]
  BY <1>2 DEF Shape, Ordered, Before
<1>5. ASSUME NEW m, m \in sub[T[d][n]], m \in sub[T[o][n]] PROVE FALSE
  <2>1. pos[m] \in Int /\ pos[n] \in Int
    BY <1>2, <1>5 DEF Shape, Ordered
  <2>2. Before(d, pos[m], pos[n]) /\ Before(o, pos[m], pos[n])
    BY <1>1, <1>5 DEF Shape, Ordered
  <2> QED
    BY <1>1, <2>1, <2>2 DEF Before, Sides
<1>6. T[d][n] \in S \cup {Nil} /\ (T[d][n] # Nil => T.parent[T[d][n]] = n)
  BY DEF Shape, Pointed
<1>7. T[d][n] # Nil => T[d][n] \in sub[T[d][n]]
  BY <1>6, SubOf
<1>8. T[d][n] # n
  BY <1>3, <1>4, <1>7
<1>9. T[d][n] # T.root
  <2> SUFFICES ASSUME T[d][n] = T.root PROVE FALSE
    OBVIOUS
  <2>1. T[d][n] # Nil
    <3>1. T.root = Nil => sub[T.root] = {} /\ sub[T.root] = S
      BY DEF Shape, Ordered
    <3> QED
      BY <3>1
  <2> QED
    BY <1>3, <1>6, <2>1 DEF Shape, Pointed
<1> QED
  BY <1>2, <1>3, <1>4, <1>5, <1>6, <1>7, <1>8, <1>9

\* A search tree has its links both ways, and no cycle of two nodes.
LEMMA ShapeLinked ==
  ASSUME NEW T, NEW S, NEW sub, NEW pos, Shape(T, S, sub, pos)
  PROVE  /\ Linked(T, S)
         /\ \A n \in S, d \in Sides, e \in Sides :
               T[d][n] # Nil => T[e][T[d][n]] # n
<1>1. \A n \in S : T.left[n] = T.right[n] => T.left[n] = Nil
  <2> SUFFICES ASSUME NEW n \in S, T.left[n] = T.right[n], T.left[n] # Nil
               PROVE  FALSE
    OBVIOUS
  <2>1. "left" \in Sides /\ Opposite("left") = "right"
    BY DEF Sides, Opposite
  <2>2. T["left"] = T.left /\ T["right"] = T.right
    BY FieldTypes DEF Shape
  <2> QED
    BY <2>1, <2>2, Apart
<1>2. \A n \in S : T.parent[n] # n
  <2> SUFFICES ASSUME NEW n \in S, T.parent[n] = n PROVE FALSE
    OBVIOUS
  <2>1. n # Nil
    BY TreeAssumption DEF Shape, Pointed
  <2>2. PICK d \in Sides : T[d][n] = n
    BY <2>1 DEF Shape, Pointed
  <2> QED
    BY <2>2, Apart
<1>3. ASSUME NEW n \in S, NEW d \in Sides, NEW e \in Sides, T[d][n] # Nil
      PROVE  T[e][T[d][n]] # n
  <2> DEFINE c == T[d][n]
  <2>1. c \in S /\ n \notin sub[c] /\ n \in sub[n]
    BY <1>3, Apart
  <2>2. sub[T[e][c]] \subseteq sub[c]
    BY <2>1, Apart
  <2> QED
    BY <2>1, <2>2
<1> QED
  BY <1>1, <1>2, <1>3 DEF Linked, Shape, Pointed

\* The subtrees after a rotation.
TurnedSub(T, sub, x, r, d) ==
    [sub EXCEPT ![x] = {x} \cup sub[T[d][x]] \cup sub[T[d][r]], ![r] = sub[x]]

\* A rotation keeps the order and the links.
LEMMA TurnKeepsShape ==
  ASSUME NEW T, NEW S, NEW sub, NEW pos, Shape(T, S, sub, pos),
         NEW x \in S, NEW d \in Sides, NEW r,
         r = T[Opposite(d)][x], r # Nil
  PROVE  LET U == Rotate(T, x, d)
         IN /\ Turned(T, U, S, x, r, d)
            /\ Shape(U, S, TurnedSub(T, sub, x, r, d), pos)
<1> DEFINE U == Rotate(T, x, d)
           o == Opposite(d)
           su == TurnedSub(T, sub, x, r, d)
<1>1. o \in Sides /\ o # d /\ Opposite(o) = d /\ \A e \in Sides : e = d \/ e = o
  BY OtherSide
<1>2. T \in Trees /\ x \in TreeNodes /\ S \subseteq TreeNodes /\ Nil \notin S
      /\ S \subseteq Pointers
  BY TreeAssumption DEF Shape, Pointed, Pointers
<1>3. Turned(T, U, S, x, r, d) /\ U \in Trees
  <2>1. \A e \in Sides : T[e][r] # x
    BY <1>1, ShapeLinked
  <2> QED
    BY <1>2, <2>1, ShapeLinked, RotateTurns
<1>4. r \in S /\ r # x /\ T.parent[r] = x /\ r # T.root
  BY <1>1, Apart
<1>5. /\ \A n \in S : su[n] = IF n = r THEN sub[x]
                       ELSE IF n = x THEN {x} \cup sub[T[d][x]] \cup sub[T[d][r]]
                       ELSE sub[n]
      /\ su[Nil] = {}
  BY <1>2, <1>4, Zenon DEF TurnedSub, Shape, Ordered, Pointers
<1> HIDE DEF U, su
<1> DEFINE rl == T[d][r]
           rr == T[o][r]
           m0 == T[d][x]
<1>6. /\ {rl, rr, m0} \subseteq S \cup {Nil}
      /\ rl \notin {x, r} /\ rr \notin {x, r} /\ m0 \notin {x, r}
      /\ rl # Nil => T.parent[rl] = r /\ rr # rl /\ m0 # rl /\ T.root # rl
      /\ rr # Nil => T.parent[rr] = r
      /\ m0 # Nil => T.parent[m0] = x
  <2>1. /\ m0 \in S \cup {Nil} /\ m0 # x
        /\ m0 # Nil => m0 # r /\ T.parent[m0] = x
    BY <1>1, Apart
  <2>2. /\ rl \in S \cup {Nil} /\ rl # r
        /\ rl # Nil => T.parent[rl] = r /\ rl # rr /\ T.root # rl
    BY <1>1, <1>4, Apart
  <2>3. rr \in S \cup {Nil} /\ rr # r /\ (rr # Nil => T.parent[rr] = r)
    BY <1>1, <1>4, Apart
  <2>4. rl # x /\ rr # x
    BY <1>1, ShapeLinked
  <2> QED
    BY <1>2, <1>4, <2>1, <2>2, <2>3, <2>4
<1>7. /\ U.root = IF T.root = x THEN r ELSE T.root
      /\ U[d][x] = m0 /\ U[o][x] = rl /\ U[d][r] = x /\ U[o][r] = rr
      /\ \A n \in S \ {x, r}, e \in Sides :
             U[e][n] = IF T[e][n] = x THEN r ELSE T[e][n]
      /\ U.parent[x] = r /\ U.parent[r] = T.parent[x]
      /\ \A n \in S \ {x, r} :
             U.parent[n] = IF n = rl THEN x ELSE T.parent[n]
      /\ \A n \in TreeNodes \ S, e \in Sides : U[e][n] = T[e][n]
  BY <1>3 DEF Turned
<1> HIDE DEF rl, rr, m0
<1>8. Pointed(U, S)
  <2>1. Pointed(T, S)
    BY DEF Shape
  <2>2. /\ U.root \in S \cup {Nil}
        /\ U.root # Nil => U.parent[U.root] = Nil
    <3>1. CASE T.root = x
      BY <1>2, <1>4, <1>7, <2>1, <3>1 DEF Pointed
    <3>2. CASE T.root # x
      BY <1>2, <1>4, <1>6, <1>7, <2>1, <3>2 DEF Pointed
    <3> QED
      BY <3>1, <3>2
  <2>3. ASSUME NEW n \in S
        PROVE  /\ U.parent[n] \in S \cup {Nil}
               /\ U.parent[n] = Nil => U.root = n
    <3>1. T.parent[n] \in S \cup {Nil} /\ (T.parent[n] = Nil => T.root = n)
          /\ T.parent[x] \in S \cup {Nil} /\ (T.parent[x] = Nil => T.root = x)
      BY <2>1 DEF Pointed
    <3> QED
      BY <1>2, <1>4, <1>7, <3>1
  <2>4. ASSUME NEW n \in S, U.parent[n] # Nil
        PROVE  \E e \in Sides : U[e][U.parent[n]] = n
    <3>1. CASE n = x
      BY <1>1, <1>7, <3>1
    <3>2. CASE n = r
      <4>1. T.parent[x] # Nil
        BY <1>7, <2>4, <3>2
      <4>2. PICK e \in Sides : T[e][T.parent[x]] = x
        BY <2>1, <4>1 DEF Pointed
      <4>3. T.parent[x] \in S \ {x, r}
        <5>1. T.parent[x] \in S /\ T.parent[x] # x
          BY <2>1, <4>1, ShapeLinked DEF Pointed, Linked
        <5>2. T[e][r] # x
          BY <1>1, ShapeLinked
        <5> QED
          BY <4>2, <5>1, <5>2
      <4> QED
        BY <1>7, <3>2, <4>2, <4>3
    <3>3. CASE n \notin {x, r} /\ n = rl
      BY <1>1, <1>7, <3>3
    <3>4. CASE n \notin {x, r} /\ n # rl
      <4> DEFINE p == T.parent[n]
      <4>1. U.parent[n] = p /\ p # Nil /\ p \in S
        BY <1>7, <2>1, <2>4, <3>4 DEF Pointed
      <4>2. PICK e \in Sides : T[e][p] = n
        BY <2>1, <4>1 DEF Pointed
      <4>3. CASE p = x
        <5>1. e # o
          BY <3>4, <4>2, <4>3
        <5>2. e = d /\ n = m0
          BY <1>1, <4>2, <4>3, <5>1 DEF m0
        <5> QED
          BY <1>1, <1>7, <4>1, <4>3, <5>2
      <4>4. CASE p = r
        <5>1. e = o /\ n = rr
          BY <1>1, <3>4, <4>2, <4>4 DEF rl, rr
        <5> QED
          BY <1>1, <1>7, <4>1, <4>4, <5>1
      <4>5. CASE p \notin {x, r}
        BY <1>7, <3>4, <4>1, <4>2, <4>5
      <4> QED
        BY <4>3, <4>4, <4>5
    <3> QED
      BY <3>1, <3>2, <3>3, <3>4
  <2>5. ASSUME NEW n \in S, NEW e \in Sides
        PROVE  /\ U[e][n] \in S \cup {Nil}
               /\ U[e][n] # Nil => U.parent[U[e][n]] = n
    <3>1. CASE n = x
      BY <1>1, <1>2, <1>4, <1>6, <1>7, <3>1
    <3>2. CASE n = r
      BY <1>1, <1>2, <1>4, <1>6, <1>7, <3>2
    <3>3. CASE n \notin {x, r}
      <4> DEFINE c == T[e][n]
      <4>1. c \in S \cup {Nil} /\ (c # Nil => T.parent[c] = n)
        BY <2>1 DEF Pointed
      <4>2. U[e][n] = IF c = x THEN r ELSE c
        BY <1>7, <3>3
      <4> HIDE DEF c
      <4> QED
        BY <1>2, <1>4, <1>6, <1>7, <3>3, <4>1, <4>2
    <3> QED
      BY <3>1, <3>2, <3>3
  <2>6. \A n \in TreeNodes \ S, e \in Sides : U[e][n] = Nil
    BY <1>7, <2>1 DEF Pointed
  <2> QED
    BY <1>2, <2>2, <2>3, <2>4, <2>5, <2>6 DEF Pointed
<1>9. Ordered(U, S, su, pos)
  <2>1. /\ sub[x] = {x} \cup sub[m0] \cup sub[r]
        /\ sub[r] = {r} \cup sub[rl] \cup sub[rr]
        /\ sub \in [Pointers -> SUBSET S] /\ sub[Nil] = {}
        /\ sub[T.root] = S /\ \A n \in S : pos[n] \in Int
    <3>1. sub[x] = {x} \cup sub[m0] \cup sub[r]
      BY <1>1, SubOf DEF m0
    <3>2. sub[r] = {r} \cup sub[rl] \cup sub[rr]
      BY <1>1, <1>4, SubOf DEF rl, rr
    <3> QED
      BY <3>1, <3>2 DEF Shape, Ordered
  <2>2. su \in [Pointers -> SUBSET S]
    <3>1. /\ sub[x] \in SUBSET S
          /\ {x} \cup sub[T[d][x]] \cup sub[T[d][r]] \in SUBSET S
      BY <1>2, <1>6, <2>1, Zenon DEF m0, rl, Pointers
    <3> QED
      BY <2>1, <3>1 DEF su, TurnedSub
  <2>3. su[U.root] = S
    <3>1. CASE T.root = x
      BY <1>4, <1>5, <1>7, <2>1, <3>1, Zenon
    <3>2. CASE T.root # x
      <4>1. T.root \in S \cup {Nil}
        BY DEF Shape, Pointed
      <4> QED
        BY <1>2, <1>4, <1>5, <1>7, <2>1, <3>2, <4>1
    <3> QED
      BY <3>1, <3>2
  <2>4. /\ su[m0] = sub[m0] /\ su[rl] = sub[rl] /\ su[rr] = sub[rr]
        /\ su[x] = {x} \cup sub[m0] \cup sub[rl] /\ su[r] = sub[x]
    BY <1>2, <1>4, <1>5, <1>6, <2>1, ZenonT(60) DEF m0, rl
  <2>5. ASSUME NEW n \in S \ {x, r}, NEW e \in Sides
        PROVE  su[U[e][n]] = sub[T[e][n]]
    <3> DEFINE c == T[e][n]
    <3>1. c \in S \cup {Nil} /\ (c # Nil => T.parent[c] = n)
      BY DEF Shape, Pointed
    <3>2. U[e][n] = IF c = x THEN r ELSE c
      BY <1>7
    <3> HIDE DEF c
    <3>3. c # r
      BY <1>2, <1>4, <3>1
    <3>4. su[U[e][n]] = sub[c]
      BY <1>5, <2>1, <3>1, <3>2, <3>3, <1>4, ZenonT(60)
    <3> QED
      BY <3>4 DEF c
  <2>6. ASSUME NEW n \in S
        PROVE  su[n] = {n} \cup su[U[d][n]] \cup su[U[o][n]]
    <3>1. CASE n = x
      BY <1>7, <2>4, <3>1
    <3>2. CASE n = r
      BY <1>7, <2>1, <2>4, <3>2
    <3>3. CASE n \notin {x, r}
      <4>1. su[n] = sub[n]
        BY <1>5, <3>3
      <4>2. sub[n] = {n} \cup sub[T[d][n]] \cup sub[T[o][n]]
        BY SubOf
      <4>3. su[U[d][n]] = sub[T[d][n]] /\ su[U[o][n]] = sub[T[o][n]]
        BY <1>1, <2>5, <3>3
      <4> QED
        BY <4>1, <4>2, <4>3
    <3> QED
      BY <3>1, <3>2, <3>3
  <2>7. ASSUME NEW n \in S
        PROVE  su[n] = {n} \cup su[U.left[n]] \cup su[U.right[n]]
    <3>1. U["left"] = U.left /\ U["right"] = U.right
      BY <1>3, FieldTypes
    <3>2. CASE d = "left"
      BY <2>6, <3>1, <3>2 DEF o, Opposite
    <3>3. CASE d = "right"
      BY <2>6, <3>1, <3>3 DEF o, Opposite
    <3> QED
      BY <3>2, <3>3 DEF Sides
  <2>8. ASSUME NEW n \in S, NEW e \in Sides, NEW m \in su[U[e][n]]
        PROVE  Before(e, pos[m], pos[n])
    <3>0. \A k \in S, f \in Sides : \A l \in sub[T[f][k]] :
              Before(f, pos[l], pos[k])
      BY DEF Shape, Ordered
    <3>1. CASE n = x /\ e = d
      BY <1>7, <2>4, <2>8, <3>0, <3>1 DEF m0
    <3>2. CASE n = x /\ e = o
      <4>1. m \in sub[rl] /\ m \in sub[r]
        BY <1>7, <2>1, <2>4, <2>8, <3>2
      <4> QED
        BY <1>1, <3>0, <3>2, <4>1
    <3>3. CASE n = r /\ e = o
      BY <1>1, <1>4, <1>7, <2>4, <2>8, <3>0, <3>3 DEF rr
    <3>4. CASE n = r /\ e = d
      <4>0. m \in {x} \cup sub[m0] \cup sub[rl]
        BY <1>7, <2>4, <2>8, <3>4
      <4>1. r \in sub[r]
        BY <2>1
      <4>2. Before(o, pos[r], pos[x]) /\ pos[r] \in Int /\ pos[x] \in Int
        BY <1>1, <1>4, <2>1, <3>0, <4>1
      <4>3. Before(d, pos[x], pos[r])
        BY <1>1, <4>2 DEF Before, Sides
      <4>4. CASE m = x
        BY <3>4, <4>3, <4>4
      <4>5. CASE m \in sub[m0]
        <5>1. Before(d, pos[m], pos[x])
          BY <3>0, <4>5 DEF m0
        <5>2. m \in S
          BY <2>1, <4>5, <1>2, <1>6
        <5> QED
          BY <2>1, <3>4, <4>2, <4>3, <5>1, <5>2 DEF Before
      <4>6. CASE m \in sub[rl]
        BY <1>4, <3>0, <3>4, <4>6 DEF rl
      <4> QED
        BY <4>0, <4>4, <4>5, <4>6
    <3>5. CASE n \notin {x, r}
      <4>1. m \in sub[T[e][n]]
        BY <2>5, <2>8, <3>5
      <4> QED
        BY <3>0, <4>1
    <3> QED
      BY <1>1, <3>1, <3>2, <3>3, <3>4, <3>5
  <2> QED
    BY <1>5, <2>1, <2>2, <2>3, <2>7, <2>8 DEF Ordered
<1> QED
  BY <1>3, <1>8, <1>9 DEF Shape, U, su

-----------------------------------------------------------------------------
(* Ways down the tree *)

\* Every subtree is finite and larger than those of its children.
LEMMA Shrinks ==
  ASSUME NEW T, NEW S, NEW sub, NEW pos, Shape(T, S, sub, pos)
  PROVE  /\ IsFiniteSet(S) /\ Cardinality(sub[Nil]) = 0
         /\ \A n \in S : Cardinality(sub[n]) \in Nat
         /\ \A n \in S, d \in Sides :
               Cardinality(sub[T[d][n]]) < Cardinality(sub[n])
<1>1. IsFiniteSet(S)
  BY TreeAssumption, FS_Subset DEF Shape, Pointed
<1>2. Cardinality(sub[Nil]) = 0
  BY FS_EmptySet DEF Shape, Ordered
<1>3. ASSUME NEW n \in S PROVE Cardinality(sub[n]) \in Nat /\ IsFiniteSet(sub[n])
  <2>1. sub[n] \subseteq S
    BY SubOf DEF Sides
  <2> QED
    BY <1>1, <2>1, FS_Subset, FS_CardinalityType
<1>4. ASSUME NEW n \in S, NEW d \in Sides
      PROVE  Cardinality(sub[T[d][n]]) < Cardinality(sub[n])
  <2>1. sub[T[d][n]] \subseteq sub[n] /\ sub[T[d][n]] # sub[n]
    BY Apart
  <2>2. IsFiniteSet(sub[T[d][n]])
    BY <1>3, <2>1, FS_Subset
  <2>3. /\ Cardinality(sub[T[d][n]]) <= Cardinality(sub[n])
        /\ Cardinality(sub[T[d][n]]) # Cardinality(sub[n])
    BY <1>3, <2>1, FS_Subset
  <2>4. Cardinality(sub[T[d][n]]) \in Nat
    BY <2>2, FS_CardinalityType
  <2> QED
    BY <1>3, <2>3, <2>4
<1> QED
  BY <1>1, <1>2, <1>3, <1>4

\* Induction over the tree: of some nodes one has no child among them.
LEMMA Lowest ==
  ASSUME NEW T, NEW S, NEW sub, NEW pos, Shape(T, S, sub, pos),
         NEW B, B \subseteq S, B # {}
  PROVE  \E n \in B : \A d \in Sides : T[d][n] \notin B
<1> DEFINE C == {Cardinality(sub[n]) : n \in B}
<1>1. C \in SUBSET Nat /\ C # {}
  BY Shrinks
<1>2. PICK c \in C : \A b \in C : ~(b < c)
  BY <1>1, HasLeast
<1>3. PICK n \in B : c = Cardinality(sub[n])
  BY <1>2
<1>4. ASSUME NEW d \in Sides, T[d][n] \in B PROVE FALSE
  BY <1>2, <1>3, <1>4, Shrinks
<1> QED
  BY <1>3, <1>4

\* A node in a subtree has its own subtree in it.
LEMMA Within ==
  ASSUME NEW T, NEW S, NEW sub, NEW pos, Shape(T, S, sub, pos),
         NEW n \in S, NEW m \in sub[n]
  PROVE  m \in S /\ sub[m] \subseteq sub[n]
<1> DEFINE B == {k \in S : \E l \in sub[k] : ~(sub[l] \subseteq sub[k])}
<1>1. CASE B = {}
  BY <1>1, SubOf DEF Sides
<1>2. CASE B # {}
  <2>1. PICK k \in B : \A d \in Sides : T[d][k] \notin B
    BY <1>2, Lowest
  <2>2. PICK l \in sub[k] : ~(sub[l] \subseteq sub[k])
    BY <2>1
  <2>3. PICK d \in Sides : l \in sub[T[d][k]]
    BY <2>1, <2>2, SubOf, OtherSide DEF Sides
  <2>4. T[d][k] \in S
    <3>1. sub[Nil] = {}
      BY DEF Shape, Ordered
    <3> QED
      BY <2>1, <2>3, <3>1, Apart
  <2> QED
    BY <2>1, <2>2, <2>3, <2>4, Apart
<1> QED
  BY <1>1, <1>2

\* The order on a side is transitive,
LEMMA BeforeTrans ==
  \A d \in Sides, a, b, c \in Int :
      Before(d, a, b) /\ Before(d, b, c) => Before(d, a, c)
BY DEF Before, Sides

\* total, and irreflexive.
LEMMA BeforeOther ==
  \A d \in Sides, a, b \in Int :
      /\ Before(d, a, b) <=> Before(Opposite(d), b, a)
      /\ ~(Before(d, a, b) /\ Before(Opposite(d), a, b))
      /\ a # b => Before(d, a, b) \/ Before(Opposite(d), a, b)
      /\ ~Before(d, a, a)
BY DEF Before, Sides, Opposite

\* A tree with nodes has a root.
LEMMA RootThere ==
  ASSUME NEW T, NEW S, NEW sub, NEW pos, Shape(T, S, sub, pos), S # {}
  PROVE  T.root \in S /\ T.root # Nil
<1>1. T.root # Nil
  BY DEF Shape, Ordered
<1> QED
  BY <1>1 DEF Shape, Pointed

\* A node outside a subtree is before or behind all of it.
LEMMA Convex ==
  ASSUME NEW T, NEW S, NEW sub, NEW pos, Shape(T, S, sub, pos),
         NEW n \in S, NEW m \in S \ sub[n]
  PROVE  \E d \in Sides : \A k \in sub[n] : Before(d, pos[k], pos[m])
<1> DEFINE B == {a \in S : n \in sub[a] /\ m \in sub[a]}
<1>1. T.root \in B
  BY RootThere DEF Shape, Ordered
<1>2. PICK a \in B : \A d \in Sides : T[d][a] \notin B
  BY <1>1, Lowest
<1>3. n # a
  BY <1>2
<1>4. PICK d \in Sides : n \in sub[T[d][a]]
  BY <1>2, <1>3, SubOf, OtherSide DEF Sides
<1> DEFINE c == T[d][a]
<1>5. c \in S
  <2>1. sub[Nil] = {}
    BY DEF Shape, Ordered
  <2> QED
    BY <1>2, <1>4, <2>1, Apart
<1>6. sub[n] \subseteq sub[c]
  BY <1>4, <1>5, Within
<1>7. m \notin sub[c]
  BY <1>2, <1>4, <1>5
<1>8. \A k \in sub[n] : Before(d, pos[k], pos[a])
  BY <1>2, <1>6 DEF Shape, Ordered
<1>9. CASE m = a
  BY <1>8, <1>9
<1>10. CASE m # a
  <2>1. m \in sub[T[Opposite(d)][a]]
    BY <1>2, <1>7, <1>10, SubOf
  <2>2. Before(Opposite(d), pos[m], pos[a])
    BY <1>2, <2>1, OtherSide DEF Shape, Ordered
  <2>3. pos[m] \in Int /\ pos[a] \in Int /\ \A k \in sub[n] : pos[k] \in Int
    <3>1. \A k \in sub[n] : k \in S
      BY SubOf DEF Sides
    <3> QED
      BY <1>2, <3>1 DEF Shape, Ordered
  <2>4. Before(d, pos[a], pos[m])
    BY <2>2, <2>3, BeforeOther, OtherSide
  <2> QED
    BY <1>8, <2>3, <2>4, BeforeTrans
<1> QED
  BY <1>9, <1>10

\* The keys that may be inserted.
TreeKeys == {p[1] : p \in Pairs}

\* SideOf is the side on which the key belongs.
LEMMA SideFacts ==
  ASSUME NEW T, NEW n, NEW key \in Int, T.key[n] \in Int
  PROVE  /\ SideOf(T, n, key) \in Sides
         /\ key # T.key[n] => Before(SideOf(T, n, key), key, T.key[n])
BY DEF SideOf, Sides, Before

\* The search ends at the node of the key, which is the only one.
LEMMA Search ==
  ASSUME NEW T, NEW S, NEW sub, Shape(T, S, sub, T.key), NEW key \in Int
  PROVE  /\ LookUp(T, key) \in S \cup {Nil}
         /\ LookUp(T, key) # Nil => T.key[LookUp(T, key)] = key
         /\ \A m \in S : T.key[m] = key => LookUp(T, key) = m
<1> DEFINE Stop == {n \in Pointers : n = Nil \/ T.key[n] = key}
           next == [n \in Pointers |-> T[SideOf(T, n, key)][n]]
           I == {n \in S \cup {Nil} : \A m \in S : T.key[m] = key => m \in sub[n]}
           mu == [n \in Pointers |->
                     IF n \in S \cup {Nil} THEN Cardinality(sub[n]) ELSE 0]
           Walk(f) == IsLoop(f, Pointers, Stop, next)
<1>1. /\ T \in Trees /\ S \subseteq TreeNodes /\ S \subseteq Pointers
      /\ Nil \in Pointers /\ Nil \notin S
      /\ \A n \in S : T.key[n] \in Int /\ sub[Nil] = {} /\ sub[T.root] = S
  BY TreeAssumption DEF Shape, Pointed, Ordered, Pointers
<1>2. \A n \in Pointers \ Stop : next[n] \in Pointers
  <2> SUFFICES ASSUME NEW n \in Pointers \ Stop PROVE next[n] \in Pointers
    OBVIOUS
  <2>1. n \in TreeNodes /\ SideOf(T, n, key) \in Sides
    BY DEF SideOf, Sides, Pointers
  <2> QED
    BY <1>1, <2>1, FieldTypes
<1>3. \E f : Walk(f)
  <2> HIDE DEF Stop, next
  <2> QED
    BY <1>2, LoopExists
<1>4. ASSUME NEW f
      PROVE  Walk(f) <=>
             f = [n \in Pointers |->
                     IF n = Nil \/ T.key[n] = key THEN n
                     ELSE f[T[SideOf(T, n, key)][n]]]
  BY DEF IsLoop
<1>5. PICK f : Walk(f) /\ LookUp(T, key) = f[T.root]
  <2> DEFINE w == CHOOSE f : f = [n \in Pointers |->
                     IF n = Nil \/ T.key[n] = key THEN n
                     ELSE f[T[SideOf(T, n, key)][n]]]
  <2>1. LookUp(T, key) = w[T.root]
    BY DEF LookUp
  <2>2. w = CHOOSE f : Walk(f)
    BY <1>4
  <2> HIDE DEF Walk
  <2>3. Walk(w)
    BY <1>3, <2>2
  <2> QED
    BY <2>1, <2>3
<1>6. mu \in [Pointers -> Nat]
  BY <1>1, Shrinks
<1>7. \A n \in I \ Stop : next[n] \in I /\ mu[next[n]] < mu[n]
  <2> SUFFICES ASSUME NEW n \in I \ Stop
               PROVE  next[n] \in I /\ mu[next[n]] < mu[n]
    OBVIOUS
  <2> DEFINE d == SideOf(T, n, key)
             c == T[d][n]
  <2>1. n \in S /\ T.key[n] \in Int /\ T.key[n] # key
    BY <1>1
  <2>2. d \in Sides /\ Before(d, key, T.key[n])
    BY <2>1, SideFacts
  <2> HIDE DEF d
  <2>3. c \in S \cup {Nil} /\ next[n] = c
    BY <1>1, <2>1, <2>2, Apart DEF d
  <2>4. ASSUME NEW m \in S, T.key[m] = key PROVE m \in sub[c]
    <3>1. m \in sub[n] /\ m # n
      BY <2>1, <2>4
    <3>2. m \notin sub[T[Opposite(d)][n]]
      <4> SUFFICES ASSUME m \in sub[T[Opposite(d)][n]] PROVE FALSE
        OBVIOUS
      <4>1. Before(Opposite(d), T.key[m], T.key[n])
        BY <2>1, <2>2, OtherSide DEF Shape, Ordered
      <4> QED
        BY <2>1, <2>2, <2>4, <4>1, BeforeOther
    <3> QED
      BY <2>1, <2>2, <3>1, <3>2, SubOf
  <2>5. mu[c] < mu[n]
    BY <1>1, <2>1, <2>2, <2>3, Shrinks
  <2> QED
    BY <2>3, <2>4, <2>5
<1>8. f[T.root] \in I \cap Stop
  <2>1. T.root \in I /\ Walk(f)
    BY <1>1, <1>5 DEF Shape, Pointed
  <2>2. I \in SUBSET Pointers
    BY <1>1
  <2> HIDE DEF I, Stop, next, mu
  <2> QED
    BY <1>6, <1>7, <2>1, <2>2, LoopEnds
<1>9. ASSUME NEW m \in S, T.key[m] = key PROVE LookUp(T, key) = m
  <2> DEFINE n == LookUp(T, key)
  <2>1. n \in S /\ T.key[n] = key /\ m \in sub[n]
    BY <1>1, <1>5, <1>8, <1>9
  <2>2. ASSUME NEW d \in Sides, m \in sub[T[d][n]] PROVE FALSE
    <3>1. Before(d, T.key[m], T.key[n])
      BY <2>1, <2>2 DEF Shape, Ordered
    <3> QED
      BY <1>9, <2>1, <3>1, BeforeOther
  <2>3. sub[n] = {n} \cup sub[T["left"][n]] \cup sub[T["right"][n]]
    BY <2>1, SubOf DEF Sides, Opposite
  <2> QED
    BY <2>1, <2>2, <2>3 DEF Sides
<1> QED
  BY <1>1, <1>5, <1>8, <1>9

\* What a loop down the tree relies on.
Descent(S, sub) ==
    [n \in TreeNodes |-> IF n \in S THEN Cardinality(sub[n]) ELSE 0]

\* The measure of a way down.
LEMMA DescentFalls ==
  ASSUME NEW T, NEW S, NEW sub, NEW pos, Shape(T, S, sub, pos)
  PROVE  /\ Descent(S, sub) \in [TreeNodes -> Nat]
         /\ \A n \in S, d \in Sides :
              T[d][n] # Nil =>
                 /\ T[d][n] \in S
                 /\ Descent(S, sub)[T[d][n]] < Descent(S, sub)[n]
<1>1. Descent(S, sub) \in [TreeNodes -> Nat]
  BY Shrinks DEF Descent
<1>2. ASSUME NEW n \in S, NEW d \in Sides, T[d][n] # Nil
      PROVE  /\ T[d][n] \in S
             /\ Descent(S, sub)[T[d][n]] < Descent(S, sub)[n]
  <2>1. T[d][n] \in S /\ S \subseteq TreeNodes
    BY <1>2 DEF Shape, Pointed
  <2> QED
    BY <2>1, Shrinks DEF Descent
<1> QED
  BY <1>1, <1>2

\* The key belongs on side d of t, where nobody is, and on the same side as
\* t of whoever is above t.
LEMMA LeafFound ==
  ASSUME NEW T, NEW S, NEW sub, Shape(T, S, sub, T.key), S # {},
         NEW key \in Int, \A m \in S : T.key[m] # key
  PROVE  LET t == LeafFor(T, key)
             d == SideOf(T, t, key)
         IN /\ t \in S /\ d \in Sides /\ T[d][t] = Nil
            /\ Before(d, key, T.key[t])
            /\ \A a \in S, e \in Sides :
                  t \in sub[T[e][a]] => Before(e, key, T.key[a])
<1> DEFINE Down(t) == T[SideOf(T, t, key)][t]
           Stop == {t \in TreeNodes : Down(t) = Nil}
           next == [t \in TreeNodes |-> Down(t)]
           SameSide(t, m) == \E e \in Sides :
                                 /\ Before(e, key, T.key[m])
                                 /\ \A k \in sub[t] : Before(e, T.key[k], T.key[m])
           I == {t \in S : \A m \in S \ sub[t] : SameSide(t, m)}
           mu == Descent(S, sub)
           Walk(f) == IsLoop(f, TreeNodes, Stop, next)
<1>1. /\ T \in Trees /\ S \subseteq TreeNodes
      /\ sub[T.root] = S /\ T.root \in S
      /\ \A n \in S : T.key[n] \in Int
  BY RootThere DEF Shape, Pointed, Ordered
<1>2. \A t \in TreeNodes \ Stop : next[t] \in TreeNodes
  <2> SUFFICES ASSUME NEW t \in TreeNodes \ Stop PROVE next[t] \in TreeNodes
    OBVIOUS
  <2>1. SideOf(T, t, key) \in Sides
    BY DEF SideOf, Sides
  <2>2. Down(t) \in Pointers
    BY <1>1, <2>1, FieldTypes
  <2> QED
    BY <2>2 DEF Pointers
<1>3. \E f : Walk(f)
  <2> HIDE DEF Stop, next
  <2> QED
    BY <1>2, LoopExists
<1>4. ASSUME NEW f
      PROVE  Walk(f) <=>
             f = [t \in TreeNodes |->
                     IF T[SideOf(T, t, key)][t] = Nil THEN t
                     ELSE f[T[SideOf(T, t, key)][t]]]
  BY DEF IsLoop
<1>5. PICK f : Walk(f) /\ LeafFor(T, key) = f[T.root]
  <2> DEFINE w == CHOOSE f : f = [t \in TreeNodes |->
                     IF T[SideOf(T, t, key)][t] = Nil THEN t
                     ELSE f[T[SideOf(T, t, key)][t]]]
  <2>1. LeafFor(T, key) = w[T.root]
    BY DEF LeafFor
  <2>2. w = CHOOSE f : Walk(f)
    BY <1>4
  <2> HIDE DEF Walk
  <2>3. Walk(w)
    BY <1>3, <2>2
  <2> QED
    BY <2>1, <2>3
<1>6. mu \in [TreeNodes -> Nat]
  BY DescentFalls
<1>7. ASSUME NEW t \in S
      PROVE  LET d == SideOf(T, t, key)
             IN d \in Sides /\ Before(d, key, T.key[t])
  BY <1>1, SideFacts
<1>8. \A t \in I \ Stop : next[t] \in I /\ mu[next[t]] < mu[t]
  <2> SUFFICES ASSUME NEW t \in I \ Stop
               PROVE  next[t] \in I /\ mu[next[t]] < mu[t]
    OBVIOUS
  <2> DEFINE d == SideOf(T, t, key)
             c == T[d][t]
  <2>1. t \in S /\ T.key[t] \in Int /\ d \in Sides /\ Before(d, key, T.key[t])
    BY <1>1, <1>7
  <2>2. c # Nil /\ next[t] = c
    BY <1>1, <2>1
  <2> HIDE DEF d
  <2>3. c \in S /\ mu[c] < mu[t] /\ sub[c] \subseteq sub[t]
    BY <2>1, <2>2, DescentFalls, Apart
  <2>4. \A k \in sub[c] : /\ Before(d, T.key[k], T.key[t])
                          /\ T.key[k] \in Int
    <3>1. \A k \in sub[c] : k \in S
      BY <2>3, Within
    <3> QED
      BY <1>1, <2>1, <3>1 DEF Shape, Ordered
  <2>5. ASSUME NEW m \in S \ sub[c] PROVE SameSide(c, m)
    <3>1. CASE m \notin sub[t]
      <4>1. PICK e \in Sides : /\ Before(e, key, T.key[m])
                               /\ \A k \in sub[t] : Before(e, T.key[k], T.key[m])
        BY <3>1
      <4> QED
        BY <2>3, <4>1
    <3>2. CASE m = t
      BY <2>1, <2>4, <3>2
    <3>3. CASE m \in sub[t] /\ m # t
      <4>1. m \in sub[T[Opposite(d)][t]]
        BY <2>1, <2>5, <3>3, SubOf
      <4>2. Before(Opposite(d), T.key[m], T.key[t]) /\ T.key[m] \in Int
        BY <1>1, <2>1, <4>1, OtherSide DEF Shape, Ordered
      <4>3. Before(d, T.key[t], T.key[m])
        BY <2>1, <4>2, BeforeOther, OtherSide
      <4>4. Before(d, key, T.key[m])
        BY <2>1, <4>2, <4>3, BeforeTrans
      <4>5. \A k \in sub[c] : Before(d, T.key[k], T.key[m])
        BY <2>1, <2>4, <4>2, <4>3, BeforeTrans
      <4> QED
        BY <2>1, <4>4, <4>5
    <3> QED
      BY <3>1, <3>2, <3>3
  <2> HIDE DEF SameSide
  <2> QED
    BY <2>2, <2>3, <2>5
<1>9. f[T.root] \in I \cap Stop
  <2>1. T.root \in I /\ Walk(f)
    BY <1>1, <1>5
  <2>2. I \in SUBSET TreeNodes
    BY <1>1
  <2> HIDE DEF I, Stop, next, mu
  <2> QED
    BY <1>6, <1>8, <2>1, <2>2, LoopEnds
<1> DEFINE t == LeafFor(T, key)
           d == SideOf(T, t, key)
<1>10. t \in S /\ t \in I /\ T[d][t] = Nil /\ d \in Sides /\ Before(d, key, T.key[t])
  BY <1>5, <1>7, <1>9
<1>11. ASSUME NEW a \in S, NEW e \in Sides, t \in sub[T[e][a]]
       PROVE  Before(e, key, T.key[a])
  <2>1. a \notin sub[t]
    <3>1. T[e][a] \in S
      BY <1>11, Apart, SMTT(30) DEF Shape, Ordered
    <3> QED
      BY <1>11, <3>1, Within, Apart
  <2>2. PICK s \in Sides : /\ Before(s, key, T.key[a])
                           /\ \A k \in sub[t] : Before(s, T.key[k], T.key[a])
    BY <1>10, <1>11, <2>1
  <2>3. Before(s, T.key[t], T.key[a])
    BY <1>10, <2>2, Apart
  <2>4. Before(e, T.key[t], T.key[a])
    BY <1>11 DEF Shape, Ordered
  <2>5. s = e
    BY <1>1, <1>10, <1>11, <2>2, <2>3, <2>4, BeforeOther, OtherSide
  <2> QED
    BY <2>2, <2>5
<1> QED
  BY <1>10, <1>11

\* The successor has nobody on its left, and no key is between the two.
LEMMA SuccessorFound ==
  ASSUME NEW T, NEW S, NEW sub, NEW pos, Shape(T, S, sub, pos),
         NEW p \in S, T.right[p] # Nil
  PROVE  LET s == Successor(T, p)
         IN /\ s \in S /\ s # p /\ T.left[s] = Nil
            /\ s \in sub[p]
            /\ pos[p] < pos[s]
            /\ \A m \in S : pos[m] <= pos[p] \/ pos[s] <= pos[m]
            /\ \A m \in S : pos[m] = pos[p] => m = p
            /\ \A m \in S : pos[m] = pos[s] => m = s
<1> DEFINE Stop == {m \in TreeNodes : T.left[m] = Nil}
           next == [m \in TreeNodes |-> T.left[m]]
           r == T.right[p]
           I == {m \in sub[r] : \A k \in sub[r] \ sub[m] :
                                   \A l \in sub[m] : pos[l] < pos[k]}
           mu == Descent(S, sub)
           Walk(f) == IsLoop(f, TreeNodes, Stop, next)
<1>1. /\ T \in Trees /\ S \subseteq TreeNodes
      /\ \A n \in S : pos[n] \in Int
      /\ "left" \in Sides /\ "right" \in Sides
      /\ Opposite("left") = "right" /\ Opposite("right") = "left"
      /\ T["left"] = T.left /\ T["right"] = T.right
  BY FieldTypes DEF Shape, Pointed, Ordered, Sides, Opposite
<1>2. \A m \in TreeNodes \ Stop : next[m] \in TreeNodes
  BY <1>1, FieldTypes DEF Pointers
<1>3. \E f : Walk(f)
  <2> HIDE DEF Stop, next
  <2> QED
    BY <1>2, LoopExists
<1>4. ASSUME NEW f
      PROVE  Walk(f) <=>
             f = [m \in TreeNodes |->
                     IF T.left[m] = Nil THEN m ELSE f[T.left[m]]]
  BY DEF IsLoop
<1>5. PICK f : Walk(f) /\ Successor(T, p) = f[r]
  <2> DEFINE w == CHOOSE f : f = [m \in TreeNodes |->
                     IF T.left[m] = Nil THEN m ELSE f[T.left[m]]]
  <2>1. Successor(T, p) = w[r]
    BY DEF Successor
  <2>2. w = CHOOSE f : Walk(f)
    BY <1>4
  <2> HIDE DEF Walk
  <2>3. Walk(w)
    BY <1>3, <2>2
  <2> QED
    BY <2>1, <2>3
<1>6. mu \in [TreeNodes -> Nat]
  BY DescentFalls
<1>7. r \in S /\ r \in sub[r] /\ sub[r] \subseteq S /\ sub[r] \subseteq sub[p]
      /\ p \notin sub[r]
  <2>1. r \in S /\ r \in sub[r] /\ sub[r] \subseteq sub[p] /\ p \notin sub[r]
    BY <1>1, Apart
  <2> QED
    BY <1>1, <2>1, SubOf
<1> HIDE DEF r
<1>8. \A m \in I \ Stop : next[m] \in I /\ mu[next[m]] < mu[m]
  <2> SUFFICES ASSUME NEW m \in I \ Stop
               PROVE  next[m] \in I /\ mu[next[m]] < mu[m]
    OBVIOUS
  <2> DEFINE c == T.left[m]
  <2>1. m \in S /\ m \in sub[r] /\ c # Nil /\ next[m] = c
    BY <1>1, <1>7
  <2>2. c \in S /\ mu[c] < mu[m] /\ c \in sub[c] /\ sub[c] \subseteq sub[m]
    <3>1. c \in S /\ mu[c] < mu[m]
      BY <1>1, <2>1, DescentFalls
    <3>2. c \in sub[c] /\ sub[c] \subseteq sub[m]
      BY <1>1, <2>1, Apart
    <3> QED
      BY <3>1, <3>2
  <2>3. c \in sub[r]
    BY <1>7, <2>1, <2>2, Within
  <2>4. \A l \in sub[c] : l \in S /\ pos[l] \in Int /\ pos[l] < pos[m]
    <3>1. \A l \in sub[c] : l \in S
      BY <2>2, Within
    <3>2. \A l \in sub[c] : Before("left", pos[l], pos[m])
      BY <1>1, <2>1 DEF Shape, Ordered
    <3> QED
      BY <1>1, <3>1, <3>2 DEF Before
  <2>5. ASSUME NEW k \in sub[r] \ sub[c], NEW l \in sub[c]
        PROVE  pos[l] < pos[k]
    <3>1. CASE k \notin sub[m]
      BY <2>2, <2>5, <3>1
    <3>2. CASE k = m
      BY <2>4, <3>2
    <3>3. CASE k \in sub[m] /\ k # m
      <4>1. k \in sub[T["right"][m]]
        BY <1>1, <2>1, <2>5, <3>3, SubOf
      <4>2. Before("right", pos[k], pos[m])
        BY <1>1, <2>1, <4>1 DEF Shape, Ordered
      <4>3. pos[k] \in Int /\ pos[m] \in Int /\ pos[m] < pos[k]
        BY <1>1, <1>7, <2>1, <4>2 DEF Before
      <4> QED
        BY <2>4, <4>3
    <3> QED
      BY <3>1, <3>2, <3>3
  <2> QED
    BY <2>1, <2>2, <2>3, <2>5
<1>9. f[r] \in I \cap Stop
  <2>1. r \in I /\ Walk(f)
    BY <1>5, <1>7
  <2>2. I \in SUBSET TreeNodes
    BY <1>1, <1>7
  <2> HIDE DEF I, Stop, next, mu
  <2> QED
    BY <1>6, <1>8, <2>1, <2>2, LoopEnds
<1> DEFINE s == Successor(T, p)
<1>10. s \in sub[r] /\ s \in S /\ T.left[s] = Nil /\ s \in I
  BY <1>5, <1>7, <1>9
<1>11. \A k \in sub[r] : k # s => pos[s] < pos[k]
  <2> SUFFICES ASSUME NEW k \in sub[r], k # s PROVE pos[s] < pos[k]
    OBVIOUS
  <2>1. CASE k \notin sub[s]
    <3>1. s \in sub[s]
      BY <1>1, <1>10, Apart
    <3> QED
      BY <1>10, <2>1, <3>1
  <2>2. CASE k \in sub[s]
    <3>1. k \in sub[T["right"][s]]
      <4>1. sub[s] = {s} \cup sub[T["left"][s]] \cup sub[T["right"][s]]
        BY <1>1, <1>10, SubOf
      <4>2. sub[T["left"][s]] = {}
        BY <1>1, <1>10 DEF Shape, Ordered
      <4> QED
        BY <2>2, <4>1, <4>2
    <3> QED
      BY <1>1, <1>10, <3>1 DEF Shape, Ordered, Before
  <2> QED
    BY <2>1, <2>2
<1>12. pos[p] < pos[s]
  <2>1. Before("right", pos[s], pos[p])
    BY <1>1, <1>10 DEF Shape, Ordered, r
  <2> QED
    BY <2>1 DEF Before
<1>13. ASSUME NEW m \in S PROVE /\ pos[m] <= pos[p] \/ pos[s] <= pos[m]
                                /\ m = p \/ pos[m] # pos[p]
                                /\ m = s \/ pos[m] # pos[s]
  <2>0. pos[m] \in Int /\ pos[p] \in Int /\ pos[s] \in Int
    BY <1>1, <1>10
  <2>1. CASE m \in sub[r]
    BY <1>11, <1>12, <2>0, <2>1
  <2>2. CASE m = p
    BY <1>12, <2>0, <2>2
  <2>3. CASE m \in sub[T["left"][p]]
    <3>1. Before("left", pos[m], pos[p])
      BY <1>1, <2>3 DEF Shape, Ordered
    <3> QED
      BY <1>12, <2>0, <3>1 DEF Before
  <2>4. CASE m \notin sub[p]
    <3>1. PICK d \in Sides : \A k \in sub[p] : Before(d, pos[k], pos[m])
      BY <2>4, Convex
    <3>2. p \in sub[p] /\ s \in sub[p]
      BY <1>1, <1>7, <1>10, Apart
    <3>3. Before(d, pos[p], pos[m]) /\ Before(d, pos[s], pos[m])
      BY <3>1, <3>2
    <3> QED
      BY <1>12, <2>0, <3>3 DEF Before, Sides
  <2>5. sub[p] = {p} \cup sub[T["left"][p]] \cup sub[r]
    BY <1>1, SubOf DEF r
  <2> QED
    BY <2>1, <2>2, <2>3, <2>4, <2>5
<1> QED
  BY <1>1, <1>7, <1>10, <1>12, <1>13

-----------------------------------------------------------------------------
(* Colors *)

\* A black node counts; q does not, it is about to go.
Weight(T, q, n) == IF T.color[n] = "black" /\ n # q THEN 1 ELSE 0

\* bh[n] black nodes are on every path down from n, one more counted at x.
Heights(T, S, bh, q, x) ==
    /\ bh \in [Pointers -> Nat] /\ bh[Nil] = 0
    /\ \A n \in S : T.color[n] \in {"red", "black"}
    /\ \A n \in S, d \in Sides :
           bh[n] = bh[T[d][n]] + Weight(T, q, n) + (IF n = x THEN 1 ELSE 0)

\* No red node has a red child, but for u as the parent and c as the child.
Reds(T, S, u, c) ==
    \A n \in S \ {u}, d \in Sides :
        T.color[n] = "red" => T[d][n] = c \/ ColorOf(T, T[d][n]) = "black"

\* Colors do not matter to the shape.
LEMMA ShapeColored ==
  ASSUME NEW T, NEW U \in Trees, NEW S, NEW sub, NEW pos,
         Shape(T, S, sub, pos), SameLinks(T, U)
  PROVE  Shape(U, S, sub, pos) /\ \A d \in Sides : U[d] = T[d]
<1>1. \A d \in Sides : U[d] = T[d]
  BY SameSides DEF Shape
<1>2. /\ U.root = T.root /\ U.parent = T.parent
      /\ U.left = T.left /\ U.right = T.right
  BY DEF SameLinks
<1>3. Pointed(U, S)
  BY <1>1, <1>2 DEF Shape, Pointed
<1>4. Ordered(U, S, sub, pos)
  BY <1>1, <1>2 DEF Shape, Ordered
<1> QED
  BY <1>1, <1>3, <1>4 DEF Shape

\* Before a turn of the loop of FixAfterInsertion.
Reddened(T, S, sub, pos, bh, x) ==
    /\ Shape(T, S, sub, pos)
    /\ Heights(T, S, bh, Nil, Nil)
    /\ Reds(T, S, Nil, x)
    /\ x \in S /\ T.color[x] = "red"
    /\ T.root = x \/ T.color[T.root] = "black"

\* The red parent of the red x, on the outside of the black g, goes up.
LEMMA ParentGoesUp ==
  ASSUME NEW T, NEW S, NEW sub, NEW pos, NEW bh, NEW x,
         Reddened(T, S, sub, pos, bh, x),
         NEW g \in S, NEW d \in Sides, NEW p \in S,
         T[d][g] = p, T[d][p] = x, T.color[p] = "red", T.color[g] = "black",
         ColorOf(T, T[Opposite(d)][g]) = "black"
  PROVE  LET U == ParentUp(T, x, d)
         IN /\ \E su, bu : Reddened(U, S, su, pos, bu, x)
            /\ SameEntries(T, U)
            /\ U.parent[x] = p /\ U.color[p] = "black"
<1> DEFINE o == Opposite(d)
           V == SetColor(T, p, "black")
           W == SetColor(V, g, "red")
           U == Rotate(W, g, o)
           bu == [bh EXCEPT ![g] = bh[p], ![p] = bh[g]]
           su == TurnedSub(W, sub, g, p, o)
<1>1. /\ T \in Trees /\ S \subseteq TreeNodes /\ x \in S
      /\ p \in Pointers /\ g \in Pointers /\ S \subseteq Pointers /\ Nil \notin S
      /\ Nil \in Pointers
      /\ o \in Sides /\ o # d /\ Opposite(o) = d
      /\ \A e \in Sides : e = d \/ e = o
  BY TreeAssumption, OtherSide DEF Reddened, Shape, Pointed, Pointers
<1>2. /\ x # p /\ p # g /\ x # g
      /\ T.parent[x] = p /\ T.parent[p] = g /\ T.root # p /\ T.root # x
      /\ \A n \in S, e \in Sides : /\ T[e][n] = x => n = p
                                   /\ T[e][n] = p => n = g
      /\ T[o][p] # x /\ T[o][g] # p
      /\ T[o][p] \in S \cup {Nil} /\ T[o][g] \in S \cup {Nil}
      /\ T[o][p] \notin {p, g} /\ T[o][g] \notin {g, p}
  <2>1. Shape(T, S, sub, pos)
    BY DEF Reddened
  <2>2. x # p /\ T.parent[x] = p /\ T.root # x /\ T[o][p] # x
    BY <1>1, <2>1, Apart
  <2>3. p # g /\ T.parent[p] = g /\ T.root # p /\ T[o][g] # p
    BY <1>1, <2>1, Apart
  <2>4. x # g /\ T[o][p] # g
    BY <1>1, <2>1, ShapeLinked
  <2>5. T[o][p] # p /\ T[o][g] # g
    BY <1>1, <2>1, Apart
  <2>6. \A n \in S, e \in Sides : T[e][n] \in S \cup {Nil}
            /\ (T[e][n] # Nil => T.parent[T[e][n]] = n)
    BY <2>1 DEF Shape, Pointed
  <2> QED
    BY <1>1, <2>2, <2>3, <2>4, <2>5, <2>6
<1>3. ParentUp(T, x, d) = U
  <2>1. ParentOf(T, x) = p /\ ParentOf(T, p) = g
    BY <1>1, <1>2 DEF ParentOf
  <2> QED
    BY <1>1, <2>1 DEF ParentUp
<1>4. ColorIs(T, V, p, "black") /\ V \in Trees
  BY <1>1, ColorSet DEF ColorIs
<1> HIDE DEF V
<1>5. ColorIs(V, W, g, "red") /\ W \in Trees
  BY <1>1, <1>4, ColorSet DEF ColorIs
<1> HIDE DEF W
<1>6. SameLinks(T, W) /\ SameEntries(T, W)
  BY <1>4, <1>5 DEF ColorIs, SameLinks, SameEntries
<1>7. Shape(W, S, sub, pos) /\ \A e \in Sides : W[e] = T[e]
  BY <1>5, <1>6, ShapeColored DEF Reddened
<1>8. \A n \in S : W.color[n] = IF n = g THEN "red"
                                ELSE IF n = p THEN "black" ELSE T.color[n]
  BY <1>1, <1>2, <1>4, <1>5 DEF ColorIs
<1>9. Turned(W, U, S, g, p, o) /\ Shape(U, S, su, pos)
  BY <1>1, <1>7, TurnKeepsShape
<1> HIDE DEF U
<1>10. /\ SameEntries(T, U) /\ \A n \in S : U.color[n] = W.color[n]
       /\ U[o][g] = T[o][g] /\ U[d][g] = T[o][p]
       /\ U[o][p] = g /\ U[d][p] = x
       /\ \A n \in S \ {g, p}, e \in Sides :
              U[e][n] = IF T[e][n] = g THEN p ELSE T[e][n]
       /\ U.root = IF T.root = g THEN p ELSE T.root
  BY <1>1, <1>6, <1>7, <1>9 DEF Turned, SameEntries, SameLinks
<1>11. U.parent[x] = p
  <2>1. U[d][p] # Nil => U.parent[U[d][p]] = p
    BY <1>9 DEF Shape, Pointed
  <2> QED
    BY <1>1, <1>10, <2>1
<1>12. Heights(U, S, bu, Nil, Nil)
  <2>1. /\ bu \in [Pointers -> Nat] /\ bu[Nil] = 0
        /\ \A n \in S \cup {Nil} : bu[n] = IF n = g THEN bh[p]
                                           ELSE IF n = p THEN bh[g] ELSE bh[n]
    BY <1>1, <1>2 DEF Reddened, Heights
  <2> HIDE DEF bu
  <2>2. \A n \in S : /\ T.color[n] \in {"red", "black"} /\ bh[n] \in Nat
                     /\ \A e \in Sides : /\ T[e][n] \in S \cup {Nil}
                                         /\ bh[T[e][n]] \in Nat
    <3>1. Shape(T, S, sub, pos) /\ Heights(T, S, bh, Nil, Nil)
      BY DEF Reddened
    <3>2. /\ \A n \in S, e \in Sides : T[e][n] \in S \cup {Nil}
          /\ S \cup {Nil} \subseteq Pointers
      BY <3>1, TreeAssumption DEF Shape, Pointed, Pointers
    <3>3. /\ bh \in [Pointers -> Nat]
          /\ \A n \in S : T.color[n] \in {"red", "black"}
      BY <3>1 DEF Heights
    <3> QED
      BY <3>2, <3>3
  <2>3. \A n \in S, e \in Sides :
            bh[n] = bh[T[e][n]] + (IF T.color[n] = "black" THEN 1 ELSE 0)
    BY <1>1, <2>2 DEF Reddened, Heights, Weight
  <2>4. bh[x] = bh[p] /\ bh[T[o][p]] = bh[p] /\ bh[g] = bh[p] + 1
        /\ bh[T[o][g]] = bh[p]
    BY <1>1, <2>2, <2>3
  <2>5. ASSUME NEW n \in S, NEW e \in Sides
        PROVE  bu[n] = bu[U[e][n]] + (IF U.color[n] = "black" THEN 1 ELSE 0)
    <3>1. CASE n = g
      BY <1>1, <1>2, <1>8, <1>10, <2>1, <2>2, <2>4, <3>1
    <3>2. CASE n = p
      BY <1>1, <1>2, <1>8, <1>10, <2>1, <2>2, <2>4, <3>2
    <3>3. CASE n \notin {g, p}
      <4>1. bu[U[e][n]] = bh[T[e][n]]
        BY <1>1, <1>2, <1>10, <2>1, <2>2, <3>3, SMTT(30)
      <4> QED
        BY <1>8, <1>10, <2>1, <2>3, <3>3, <4>1
    <3> QED
      BY <3>1, <3>2, <3>3
  <2> QED
    BY <1>1, <1>8, <1>10, <2>1, <2>2, <2>5 DEF Heights, Weight
<1>13. Reds(U, S, Nil, Nil)
  <2>1. \A n \in S, e \in Sides :
            T.color[n] = "red" => T[e][n] = x \/ ColorOf(T, T[e][n]) = "black"
    BY <1>1 DEF Reddened, Reds
  <2>2. ASSUME NEW n \in S, NEW e \in Sides, U.color[n] = "red"
        PROVE  ColorOf(U, U[e][n]) = "black"
    <3>1. T[e][n] \in S \cup {Nil}
      BY DEF Reddened, Shape, Pointed
    <3>2. CASE n = g
      <4>1. CASE e = o
        BY <1>1, <1>2, <1>8, <1>10, <3>2, <4>1 DEF ColorOf
      <4>2. CASE e = d
        <5>1. ColorOf(T, T[o][p]) = "black"
          BY <1>1, <1>2, <2>1
        <5> QED
          BY <1>1, <1>2, <1>8, <1>10, <3>2, <4>2, <5>1 DEF ColorOf
      <4> QED
        BY <1>1, <4>1, <4>2
    <3>3. CASE n = p
      BY <1>2, <1>8, <1>10, <2>2, <3>3
    <3>4. CASE n \notin {g, p}
      <4>1. T.color[n] = "red" /\ T[e][n] # x /\ T[e][n] # p
        BY <1>2, <1>8, <1>10, <2>2, <3>4
      <4>2. ColorOf(T, T[e][n]) = "black"
        BY <2>1, <4>1
      <4> QED
        BY <1>1, <1>2, <1>8, <1>10, <3>1, <3>4, <4>1, <4>2 DEF ColorOf
    <3> QED
      BY <3>2, <3>3, <3>4
  <2> QED
    BY <2>2 DEF Reds
<1>14. U.color[U.root] = "black" /\ U.color[x] = "red" /\ U.color[p] = "black"
  <2>1. T.root \in S
    BY <1>1, RootThere DEF Reddened
  <2> QED
    BY <1>1, <1>2, <1>8, <1>10, <2>1 DEF Reddened
<1>15. Reddened(U, S, su, pos, bu, x)
  <2>1. Reds(U, S, Nil, x)
    BY <1>13 DEF Reds, ColorOf
  <2> QED
    BY <1>1, <1>9, <1>12, <1>14, <2>1 DEF Reddened
<1> HIDE DEF su, bu
<1> QED
  BY <1>3, <1>10, <1>11, <1>14, <1>15

-----------------------------------------------------------------------------
(* Insertion *)

\* The red nodes.
RedOnes(T, S) == {n \in S : T.color[n] = "red"}

\* The loop of FixAfterInsertion ends here.
Settled(T, x) ==
    x = Nil \/ x = T.root \/ ColorOf(T, ParentOf(T, x)) # "red"

\* What the links of a search tree say of a node, its children and its parent.
LEMMA Neighbours ==
  ASSUME NEW T, NEW S, NEW sub, NEW pos, Shape(T, S, sub, pos)
  PROVE  /\ T \in Trees /\ S \subseteq TreeNodes /\ S \subseteq Pointers
         /\ Nil \notin S /\ Nil \in Pointers
         /\ \A n \in S, e \in Sides :
              /\ T[e][n] \in S \cup {Nil} /\ T[e][n] # n
              /\ T[e][n] # Nil => /\ T[e][n] # T[Opposite(e)][n]
                                  /\ T.parent[T[e][n]] = n
                                  /\ T[e][n] # T.root
                                  /\ \A f \in Sides : T[f][T[e][n]] # n
         /\ \A n \in S : /\ T.parent[n] \in S \cup {Nil}
                         /\ T.parent[n] = Nil <=> T.root = n
                         /\ T.parent[n] # Nil =>
                                \E d \in Sides : T[d][T.parent[n]] = n
<1>1. /\ T \in Trees /\ S \subseteq TreeNodes /\ S \subseteq Pointers
      /\ Nil \notin S /\ Nil \in Pointers
  BY TreeAssumption DEF Shape, Pointed, Pointers
<1>2. \A n \in S, e \in Sides :
        /\ T[e][n] \in S \cup {Nil} /\ T[e][n] # n
        /\ T[e][n] # Nil => /\ T[e][n] # T[Opposite(e)][n]
                            /\ T.parent[T[e][n]] = n
                            /\ T[e][n] # T.root
  BY Apart
<1>3. \A n \in S, e \in Sides, f \in Sides :
          T[e][n] # Nil => T[f][T[e][n]] # n
  BY ShapeLinked
<1>4. \A n \in S : /\ T.parent[n] \in S \cup {Nil}
                   /\ T.parent[n] = Nil <=> T.root = n
                   /\ T.parent[n] # Nil =>
                          \E d \in Sides : T[d][T.parent[n]] = n
  BY <1>1 DEF Shape, Pointed
<1> QED
  BY <1>1, <1>2, <1>3, <1>4

\* Parent and uncle are red: both turn black, and it is the grandparent's turn.
LEMMA UncleRed ==
  ASSUME NEW T, NEW S, NEW sub, NEW pos, NEW bh, NEW x,
         Reddened(T, S, sub, pos, bh, x),
         NEW g \in S, NEW d \in Sides, NEW p \in S, NEW y \in S,
         T[d][g] = p, T.parent[x] = p, T[Opposite(d)][g] = y,
         T.color[p] = "red", T.color[y] = "red", T.color[g] = "black",
         T.root # x
  PROVE  LET U == SetColor(SetColor(SetColor(T, p, "black"), y, "black"),
                           g, "red")
         IN /\ \E bu : Reddened(U, S, sub, pos, bu, g)
            /\ SameEntries(T, U)
            /\ Cardinality(RedOnes(U, S)) \in Nat
            /\ Cardinality(RedOnes(T, S)) \in Nat
            /\ Cardinality(RedOnes(U, S)) < Cardinality(RedOnes(T, S))
<1> DEFINE o == Opposite(d)
           V == SetColor(T, p, "black")
           W == SetColor(V, y, "black")
           U == SetColor(W, g, "red")
           bu == [bh EXCEPT ![p] = bh[p] + 1, ![y] = bh[y] + 1]
<1>1. Shape(T, S, sub, pos) /\ o \in Sides /\ o # d /\ Opposite(o) = d
      /\ \A e \in Sides : e = d \/ e = o
  BY OtherSide DEF Reddened
<1>2. /\ T \in Trees /\ S \subseteq TreeNodes /\ S \subseteq Pointers
      /\ Nil \notin S /\ Nil \in Pointers
      /\ \A n \in S, e \in Sides :
           /\ T[e][n] \in S \cup {Nil}
           /\ T[e][n] # Nil => T.parent[T[e][n]] = n
      /\ T.parent[p] = g /\ T.parent[y] = g /\ p # g /\ y # g /\ p # y
      /\ T.root # p /\ T.root # y
  BY <1>1, Neighbours
<1>3. ColorIs(T, V, p, "black") /\ V \in Trees
  BY <1>2, ColorSet DEF ColorIs
<1> HIDE DEF V
<1>4. ColorIs(V, W, y, "black") /\ W \in Trees
  BY <1>2, <1>3, ColorSet DEF ColorIs
<1> HIDE DEF W
<1>5. ColorIs(W, U, g, "red") /\ U \in Trees
  BY <1>2, <1>4, ColorSet DEF ColorIs
<1> HIDE DEF U
<1>6. SameLinks(T, U) /\ SameEntries(T, U)
  BY <1>3, <1>4, <1>5 DEF ColorIs, SameLinks, SameEntries
<1>7. Shape(U, S, sub, pos) /\ (\A e \in Sides : U[e] = T[e]) /\ U.root = T.root
  BY <1>1, <1>5, <1>6, ShapeColored DEF SameLinks
<1>8. \A n \in S : U.color[n] = IF n = g THEN "red"
                                ELSE IF n \in {p, y} THEN "black" ELSE T.color[n]
  BY <1>2, <1>3, <1>4, <1>5 DEF ColorIs
<1>9. Heights(U, S, bu, Nil, Nil)
  <2>1. /\ bu \in [Pointers -> Nat] /\ bu[Nil] = 0
        /\ \A n \in S \cup {Nil} :
               bu[n] = IF n \in {p, y} THEN bh[n] + 1 ELSE bh[n]
    BY <1>2 DEF Reddened, Heights
  <2> HIDE DEF bu
  <2>2. \A n \in S : /\ T.color[n] \in {"red", "black"} /\ bh[n] \in Nat
                     /\ \A e \in Sides : bh[T[e][n]] \in Nat
    BY <1>2 DEF Reddened, Heights
  <2>3. \A n \in S, e \in Sides :
            bh[n] = bh[T[e][n]] + (IF T.color[n] = "black" THEN 1 ELSE 0)
    BY <1>2, <2>2 DEF Reddened, Heights, Weight
  <2>4. ASSUME NEW n \in S, NEW e \in Sides
        PROVE  bu[n] = bu[T[e][n]] + (IF U.color[n] = "black" THEN 1 ELSE 0)
    <3>1. CASE n = g
      <4>1. T[e][n] \in {p, y}
        BY <1>1, <3>1
      <4> QED
        BY <1>2, <1>8, <2>1, <2>2, <2>3, <3>1, <4>1
    <3>2. CASE n # g
      <4>1. T[e][n] \notin {p, y}
        BY <1>2, <3>2
      <4>2. bu[T[e][n]] = bh[T[e][n]]
        BY <1>2, <2>1, <4>1
      <4> QED
        BY <1>8, <2>1, <2>2, <2>3, <3>2, <4>2
    <3> QED
      BY <3>1, <3>2
  <2> QED
    BY <1>2, <1>7, <1>8, <2>1, <2>2, <2>4 DEF Heights, Weight
<1>10. Reds(U, S, Nil, g)
  <2>1. \A n \in S, e \in Sides :
            T.color[n] = "red" => T[e][n] = x \/ ColorOf(T, T[e][n]) = "black"
    BY <1>2 DEF Reddened, Reds
  <2>2. ASSUME NEW n \in S, NEW e \in Sides, U.color[n] = "red"
        PROVE  T[e][n] = g \/ ColorOf(U, T[e][n]) = "black"
    <3>1. CASE n = g
      <4>1. T[e][n] \in {p, y}
        BY <1>1, <3>1
      <4> QED
        BY <1>2, <1>8, <4>1 DEF ColorOf
    <3>2. CASE n # g
      <4>1. T.color[n] = "red" /\ n # p
        BY <1>8, <2>2, <3>2
      <4>2. T[e][n] # x
        BY <1>2, <4>1 DEF Reddened
      <4>3. ColorOf(T, T[e][n]) = "black"
        BY <2>1, <4>1, <4>2
      <4> QED
        BY <1>2, <1>8, <4>3 DEF ColorOf
    <3> QED
      BY <3>1, <3>2
  <2> QED
    BY <1>7, <2>2 DEF Reds
<1>11. Reddened(U, S, sub, pos, bu, g)
  <2>1. T.root \in S
    BY <1>1, RootThere
  <2> QED
    BY <1>2, <1>7, <1>8, <1>9, <1>10, <2>1 DEF Reddened
<1>12. /\ Cardinality(RedOnes(U, S)) \in Nat
       /\ Cardinality(RedOnes(T, S)) \in Nat
       /\ Cardinality(RedOnes(U, S)) < Cardinality(RedOnes(T, S))
  <2> DEFINE R == RedOnes(T, S)
  <2>1. IsFiniteSet(S) /\ R \subseteq S
    BY <1>1, Shrinks DEF RedOnes
  <2>2. IsFiniteSet(R)
    BY <2>1, FS_Subset
  <2>3. RedOnes(U, S) = ((R \ {p}) \ {y}) \cup {g}
    BY <1>2, <1>8 DEF RedOnes
  <2>4. p \in R /\ y \in R \ {p} /\ g \notin (R \ {p}) \ {y}
    BY <1>2 DEF RedOnes
  <2> HIDE DEF R
  <2>5. /\ IsFiniteSet(R \ {p}) /\ Cardinality(R \ {p}) = Cardinality(R) - 1
    BY <2>2, <2>4, FS_RemoveElement
  <2>6. /\ IsFiniteSet((R \ {p}) \ {y})
        /\ Cardinality((R \ {p}) \ {y}) = Cardinality(R \ {p}) - 1
    BY <2>4, <2>5, FS_RemoveElement, ZenonT(60)
  <2>7. /\ IsFiniteSet(RedOnes(U, S))
        /\ Cardinality(RedOnes(U, S)) = Cardinality((R \ {p}) \ {y}) + 1
    <3>1. IsFiniteSet((R \ {p}) \ {y}) /\ g \notin (R \ {p}) \ {y}
      BY <2>4, <2>6
    <3> DEFINE X == (R \ {p}) \ {y}
    <3> HIDE DEF X
    <3>2. IsFiniteSet(X \cup {g}) /\ Cardinality(X \cup {g}) = Cardinality(X) + 1
      BY <3>1, FS_AddElement DEF X
    <3> QED
      BY <2>3, <3>2 DEF X
  <2>8. Cardinality(R) \in Nat /\ Cardinality(RedOnes(U, S)) \in Nat
    BY <2>2, <2>7, FS_CardinalityType
  <2>9. Cardinality(RedOnes(U, S)) < Cardinality(R)
    BY <2>5, <2>6, <2>7, <2>8
  <2> QED
    BY <2>8, <2>9 DEF R
<1> HIDE DEF bu
<1> QED
  BY <1>6, <1>11, <1>12 DEF U, W, V

\* x is on the inside: its parent goes down first.
LEMMA InnerGoesUp ==
  ASSUME NEW T, NEW S, NEW sub, NEW pos, NEW bh, NEW x,
         Reddened(T, S, sub, pos, bh, x),
         NEW g \in S, NEW d \in Sides, NEW p \in S,
         T[d][g] = p, T[Opposite(d)][p] = x, T.color[p] = "red",
         T.color[g] = "black", ColorOf(T, T[Opposite(d)][g]) = "black"
  PROVE  LET U == Rotate(T, p, d)
         IN /\ \E su : Reddened(U, S, su, pos, bh, p)
            /\ SameEntries(T, U)
            /\ U[d][g] = x /\ U[d][x] = p
            /\ U.color[x] = "red" /\ U.color[g] = "black"
            /\ ColorOf(U, U[Opposite(d)][g]) = "black"
<1> DEFINE o == Opposite(d)
           U == Rotate(T, p, d)
           su == TurnedSub(T, sub, p, x, d)
<1>1. Shape(T, S, sub, pos) /\ o \in Sides /\ o # d /\ Opposite(o) = d
      /\ (\A e \in Sides : e = d \/ e = o) /\ x \in S
  BY OtherSide DEF Reddened
<1>2. /\ T \in Trees /\ S \subseteq TreeNodes /\ S \subseteq Pointers
      /\ Nil \notin S /\ Nil \in Pointers
      /\ \A n \in S, e \in Sides :
           /\ T[e][n] \in S \cup {Nil} /\ T[e][n] # n
           /\ T[e][n] # Nil => T.parent[T[e][n]] = n
      /\ T.parent[p] = g /\ T.parent[x] = p
      /\ p # g /\ x # g /\ x # p
      /\ T.root # p /\ T.root # x
      /\ T[d][p] # x /\ T[o][g] # p
  <2>1. /\ T \in Trees /\ S \subseteq TreeNodes /\ S \subseteq Pointers
        /\ Nil \notin S /\ Nil \in Pointers
        /\ \A n \in S, e \in Sides :
             /\ T[e][n] \in S \cup {Nil} /\ T[e][n] # n
             /\ T[e][n] # Nil => T.parent[T[e][n]] = n
    BY <1>1, Neighbours
  <2>2. T[d][p] # x /\ x # p /\ T.root # x
    BY <1>1, <2>1, Neighbours
  <2>3. T[o][g] # p /\ p # g /\ T.root # p /\ x # g
    BY <1>1, <2>1, Neighbours
  <2>4. T.parent[p] = g /\ T.parent[x] = p
    BY <1>1, <2>1
  <2> QED
    BY <2>1, <2>2, <2>3, <2>4
<1>3. Turned(T, U, S, p, x, d) /\ Shape(U, S, su, pos)
  BY <1>1, <1>2, TurnKeepsShape
<1> HIDE DEF U
<1>4. /\ SameEntries(T, U) /\ U.color = T.color
      /\ U[d][p] = T[d][p] /\ U[o][p] = T[d][x]
      /\ U[d][x] = p /\ U[o][x] = T[o][x]
      /\ \A n \in S \ {p, x}, e \in Sides :
             U[e][n] = IF T[e][n] = p THEN x ELSE T[e][n]
      /\ U.root = T.root
  BY <1>1, <1>2, <1>3 DEF Turned
<1>5. U[d][g] = x /\ U[o][g] = T[o][g]
  BY <1>1, <1>2, <1>4
<1>6. Heights(U, S, bh, Nil, Nil)
  <2>1. /\ bh \in [Pointers -> Nat] /\ bh[Nil] = 0
        /\ \A n \in S : T.color[n] \in {"red", "black"}
    BY DEF Reddened, Heights
  <2>2. \A n \in S, e \in Sides :
            bh[n] = bh[T[e][n]] + Weight(T, Nil, n)
    BY <1>2, <2>1 DEF Reddened, Heights, Weight
  <2>3. \A n \in S : Weight(U, Nil, n) = Weight(T, Nil, n)
    BY <1>4 DEF Weight
  <2>4. Weight(T, Nil, p) = 0 /\ Weight(T, Nil, x) = 0
    BY DEF Weight, Reddened
  <2>5. ASSUME NEW n \in S, NEW e \in Sides
        PROVE  bh[n] = bh[U[e][n]] + Weight(U, Nil, n)
    <3>0. bh[p] = bh[x] /\ bh[T[d][x]] = bh[x] /\ bh[p] \in Nat
          /\ bh[T[d][x]] \in Nat
      BY <1>1, <1>2, <2>1, <2>2, <2>4
    <3>1. CASE n = p
      BY <1>1, <1>4, <2>2, <2>3, <2>4, <3>0, <3>1
    <3>2. CASE n = x
      BY <1>1, <1>4, <2>2, <2>3, <2>4, <3>0, <3>2
    <3>3. CASE n \notin {p, x}
      BY <1>4, <2>2, <2>3, <3>0, <3>3
    <3> QED
      BY <3>1, <3>2, <3>3
  <2>6. \A n \in S : n # Nil
    BY <1>2
  <2>7. \A n \in S, e \in Sides :
           /\ bh[U[e][n]] \in Nat
           /\ Weight(U, Nil, n) \in Nat
    <3>1. \A n \in S, e \in Sides : U[e][n] \in Pointers
      BY <1>2, <1>3, Neighbours
    <3> QED
      BY <2>1, <3>1 DEF Weight
  <2> QED
    BY <1>4, <2>1, <2>5, <2>6, <2>7 DEF Heights
<1>7. Reds(U, S, Nil, p)
  <2>1. \A n \in S, e \in Sides :
            T.color[n] = "red" => T[e][n] = x \/ ColorOf(T, T[e][n]) = "black"
    BY <1>2 DEF Reddened, Reds
  <2>2. ASSUME NEW n \in S, NEW e \in Sides, U.color[n] = "red"
        PROVE  U[e][n] = p \/ ColorOf(U, U[e][n]) = "black"
    <3>0. T.color[x] = "red" /\ T[d][x] # x /\ T[o][x] # x
      BY <1>1, <1>2 DEF Reddened
    <3>1. CASE n = p
      BY <1>1, <1>2, <1>4, <2>1, <3>0, <3>1 DEF ColorOf
    <3>2. CASE n = x
      BY <1>1, <1>2, <1>4, <2>1, <3>0, <3>2 DEF ColorOf
    <3>3. CASE n \notin {p, x}
      <4>1. T[e][n] # x /\ T[e][n] # p
        <5>1. n # g
          BY <1>4, <2>2
        <5> QED
          BY <1>1, <1>2, <3>3, <5>1
      <4>2. U[e][n] = T[e][n]
        BY <1>4, <3>3, <4>1
      <4> QED
        BY <1>4, <2>1, <2>2, <4>1, <4>2 DEF ColorOf
    <3> QED
      BY <3>1, <3>2, <3>3
  <2> QED
    BY <2>2 DEF Reds
<1>8. Reddened(U, S, su, pos, bh, p)
  BY <1>2, <1>3, <1>4, <1>6, <1>7 DEF Reddened
<1> HIDE DEF su
<1>9. U.color[x] = "red" /\ U.color[g] = "black"
      /\ ColorOf(U, U[o][g]) = "black"
  BY <1>4, <1>5 DEF Reddened, ColorOf
<1> QED
  BY <1>4, <1>5, <1>8, <1>9 DEF U

\* The fields of a node, or of nullptr.
LEMMA FieldOf ==
  ASSUME NEW T \in Trees, NEW n \in Pointers, NEW d \in Sides
  PROVE  /\ ParentOf(T, n) \in Pointers /\ ChildOf(T, d, n) \in Pointers
         /\ ColorOf(T, n) \in {"red", "black", Nil}
BY FieldTypes DEF ParentOf, ChildOf, ColorOf, Pointers

\* ParentUp and
LEMMA ParentUpTypes ==
  ASSUME NEW T \in Trees, NEW x \in Pointers, NEW d \in Sides
  PROVE  ParentUp(T, x, d) \in Trees
<1> DEFINE p == ParentOf(T, x)
           g == ParentOf(T, p)
           V == SetColor(T, p, "black")
           W == SetColor(V, g, "red")
<1>1. p \in Pointers /\ g \in Pointers /\ Opposite(d) \in Sides
  BY FieldOf, OtherSide
<1>2. ParentUp(T, x, d) = IF g = Nil THEN W ELSE Rotate(W, g, Opposite(d))
  BY DEF ParentUp
<1> HIDE DEF p, g
<1>3. V \in Trees
  BY <1>1, ColorSet DEF ColorIs
<1> HIDE DEF V
<1>4. W \in Trees
  BY <1>1, <1>3, ColorSet DEF ColorIs
<1> HIDE DEF W
<1>5. g # Nil => Rotate(W, g, Opposite(d)) \in Trees
  BY <1>1, <1>4, RotateTurns DEF Pointers
<1> QED
  BY <1>2, <1>4, <1>5

\* RedParent stay within the domains of the loop.
LEMMA RedParentTypes ==
  ASSUME NEW T \in Trees, NEW x \in Pointers, ~Settled(T, x)
  PROVE  RedParent(T, x) \in LoopTurns
<1> DEFINE p == ParentOf(T, x)
           g == ParentOf(T, p)
           d == IF p = ChildOf(T, "left", g) THEN "left" ELSE "right"
           y == ChildOf(T, Opposite(d), g)
           A == SetColor(T, p, "black")
           B == SetColor(A, y, "black")
           C == SetColor(B, g, "red")
           R == Rotate(T, p, d)
<1>1. d \in Sides /\ Opposite(d) \in Sides
  BY OtherSide DEF Sides
<1>2. RedParent(T, x) = IF ColorOf(T, y) = "red" THEN [tree |-> C, node |-> g]
                        ELSE IF x = ChildOf(T, Opposite(d), p)
                        THEN [tree |-> ParentUp(R, p, d), node |-> p]
                        ELSE [tree |-> ParentUp(T, x, d), node |-> x]
  BY DEF RedParent
<1>3. p # Nil
  BY DEF Settled, ColorOf
<1> HIDE DEF d
<1>4. p \in Pointers /\ g \in Pointers /\ y \in Pointers
  BY <1>1, FieldOf
<1> HIDE DEF p, g, y
<1>5. A \in Trees
  BY <1>4, ColorSet DEF ColorIs
<1> HIDE DEF A
<1>6. B \in Trees
  BY <1>4, <1>5, ColorSet DEF ColorIs
<1> HIDE DEF B
<1>7. C \in Trees
  BY <1>4, <1>6, ColorSet DEF ColorIs
<1> HIDE DEF C
<1>8. R \in Trees
  BY <1>1, <1>3, <1>4, RotateTurns DEF Pointers
<1> HIDE DEF R
<1>9. ParentUp(R, p, d) \in Trees /\ ParentUp(T, x, d) \in Trees
  BY <1>1, <1>4, <1>8, ParentUpTypes
<1> QED
  BY <1>2, <1>4, <1>7, <1>9 DEF LoopTurns

\* A turn of the loop: the red x is further up, or the loop is at its end.
LEMMA RedParentTurn ==
  ASSUME NEW T, NEW S, NEW sub, NEW pos, NEW bh, NEW x,
         Reddened(T, S, sub, pos, bh, x), ~Settled(T, x)
  PROVE  LET t == RedParent(T, x)
         IN /\ \E su, bu : Reddened(t.tree, S, su, pos, bu, t.node)
            /\ SameEntries(T, t.tree)
            /\ \/ Settled(t.tree, t.node)
               \/ /\ Cardinality(RedOnes(t.tree, S)) \in Nat
                  /\ Cardinality(RedOnes(T, S)) \in Nat
                  /\ Cardinality(RedOnes(t.tree, S))
                         < Cardinality(RedOnes(T, S))
<1> DEFINE p == T.parent[x]
           g == T.parent[p]
           d == IF p = ChildOf(T, "left", g) THEN "left" ELSE "right"
           o == Opposite(d)
           y == T[o][g]
           t == RedParent(T, x)
<1>1. Shape(T, S, sub, pos) /\ x \in S /\ x # Nil /\ T.root # x
      /\ T.color[T.root] = "black"
  BY DEF Settled, Reddened
<1>2. p \in S /\ p # Nil /\ T.color[p] = "red" /\ ParentOf(T, x) = p
  <2>1. p \in S /\ p # Nil
    BY <1>1, Neighbours
  <2> QED
    BY <1>1, <2>1 DEF Settled, ParentOf, ColorOf
<1>3. g \in S /\ g # Nil /\ ParentOf(T, p) = g
      /\ \E e \in Sides : T[e][g] = p
  <2>1. T.root # p
    BY <1>1, <1>2
  <2> QED
    BY <1>1, <1>2, <2>1, Neighbours DEF ParentOf
<1>4. T.color[g] = "black"
  <2>1. PICK e \in Sides : T[e][g] = p
    BY <1>3
  <2>2. p # x
    BY <1>1, <1>2, Apart DEF Shape, Pointed
  <2>3. T.color[g] # "red"
    BY <1>2, <1>3, <2>1, <2>2 DEF Reddened, Reds, ColorOf
  <2> QED
    BY <1>3, <2>3 DEF Reddened, Heights
<1>5. /\ d \in Sides /\ T[d][g] = p /\ o \in Sides /\ o # d
      /\ \A e \in Sides : e = d \/ e = o
  <2>1. d \in Sides /\ o \in Sides /\ o # d /\ \A e \in Sides : e = d \/ e = o
    BY OtherSide DEF Sides
  <2>2. T[d][g] = p
    BY <1>3 DEF ChildOf, Sides
  <2> QED
    BY <2>1, <2>2
<1>6. ChildOf(T, o, g) = y /\ ChildOf(T, o, p) = T[o][p]
  BY <1>2, <1>3 DEF ChildOf
<1>7. t = IF ColorOf(T, y) = "red"
          THEN [tree |-> SetColor(SetColor(SetColor(T, p, "black"), y, "black"),
                                  g, "red"),
                node |-> g]
          ELSE IF x = T[o][p]
          THEN [tree |-> ParentUp(Rotate(T, p, d), p, d), node |-> p]
          ELSE [tree |-> ParentUp(T, x, d), node |-> x]
  BY <1>2, <1>3, <1>6 DEF RedParent
<1> HIDE DEF d, t
<1>8. y \in S \cup {Nil}
  BY <1>1, <1>3, <1>5, Neighbours
<1>9. CASE ColorOf(T, y) = "red"
  <2>1. y \in S /\ T.color[y] = "red"
    BY <1>8, <1>9 DEF ColorOf
  <2>0. T.parent[x] = p /\ T[Opposite(d)][g] = y
    OBVIOUS
  <2> HIDE DEF p, g, o, y
  <2> DEFINE U == SetColor(SetColor(SetColor(T, p, "black"), y, "black"),
                                  g, "red")
  <2>2. /\ \E bu : Reddened(U, S, sub, pos, bu, g)
        /\ SameEntries(T, U)
        /\ Cardinality(RedOnes(U, S)) \in Nat
        /\ Cardinality(RedOnes(T, S)) \in Nat
        /\ Cardinality(RedOnes(U, S)) < Cardinality(RedOnes(T, S))
    BY <1>1, <1>2, <1>3, <1>4, <1>5, <2>0, <2>1, UncleRed
  <2>3. t.tree = U /\ t.node = g
    BY <1>7, <1>9
  <2> HIDE DEF U
  <2> QED
    BY <2>2, <2>3 DEF t
<1>10. CASE ColorOf(T, y) # "red"
  <2>1. ColorOf(T, y) = "black"
    BY <1>8, <1>10 DEF ColorOf, Reddened, Heights
  <2>2. CASE x = T[o][p]
    <3> DEFINE V == Rotate(T, p, d)
               U == ParentUp(V, p, d)
    <3>1. /\ \E su : Reddened(V, S, su, pos, bh, p)
          /\ SameEntries(T, V)
          /\ V[d][g] = x /\ V[d][x] = p
          /\ V.color[x] = "red" /\ V.color[g] = "black"
          /\ ColorOf(V, V[o][g]) = "black"
      BY <1>2, <1>3, <1>4, <1>5, <2>1, <2>2, InnerGoesUp
    <3> HIDE DEF V
    <3>2. PICK su : Reddened(V, S, su, pos, bh, p)
      BY <3>1
    <3>3. /\ \E sv, bu : Reddened(U, S, sv, pos, bu, p)
          /\ SameEntries(V, U)
          /\ U.parent[p] = x /\ U.color[x] = "black"
      BY <1>1, <1>3, <1>5, <3>1, <3>2, ParentGoesUp
    <3>4. t.tree = U /\ t.node = p
      BY <1>7, <1>10, <2>2 DEF V
    <3> HIDE DEF U
    <3>5. Settled(U, p)
      BY <1>1, <1>2, <3>3 DEF Settled, ParentOf, ColorOf
    <3>6. SameEntries(T, U)
      BY <3>1, <3>3 DEF SameEntries
    <3> QED
      BY <3>3, <3>4, <3>5, <3>6 DEF t
  <2>3. CASE x # T[o][p]
    <3> DEFINE U == ParentUp(T, x, d)
    <3>1. T[d][p] = x
      BY <1>1, <1>2, <1>5, <2>3, Neighbours
    <3>2. /\ \E sv, bu : Reddened(U, S, sv, pos, bu, x)
          /\ SameEntries(T, U)
          /\ U.parent[x] = p /\ U.color[p] = "black"
      BY <1>1, <1>2, <1>3, <1>4, <1>5, <2>1, <3>1, ParentGoesUp
    <3>3. t.tree = U /\ t.node = x
      BY <1>7, <1>10, <2>3
    <3> HIDE DEF U
    <3>4. Settled(U, x)
      BY <1>1, <1>2, <3>2 DEF Settled, ParentOf, ColorOf
    <3> QED
      BY <3>2, <3>3, <3>4 DEF t
  <2> QED
    BY <2>2, <2>3
<1> QED
  BY <1>9, <1>10

\* What holds of the tree between calls, with pos for the keys.
Sound(T, S, sub, pos, bh) ==
    /\ Shape(T, S, sub, pos)
    /\ Heights(T, S, bh, Nil, Nil)
    /\ Reds(T, S, Nil, Nil)
    /\ ColorOf(T, T.root) = "black"

\* FixAfterInsertion makes a sound tree of one whose x is red under red.
LEMMA InsertionFixed ==
  ASSUME NEW T, NEW S, NEW sub, NEW pos, NEW bh, NEW x,
         Reddened(T, S, sub, pos, bh, x)
  PROVE  LET U == FixAfterInsertion(T, x)
         IN /\ \E su, bu : Sound(U, S, su, pos, bu)
            /\ SameEntries(T, U)
<1> DEFINE Stop == {s \in LoopTurns : Settled(s.tree, s.node)}
           next == [s \in LoopTurns |-> RedParent(s.tree, s.node)]
           Ok(s) == /\ \E su, bu : Reddened(s.tree, S, su, pos, bu, s.node)
                    /\ SameEntries(T, s.tree)
           I == {s \in LoopTurns : Ok(s)}
           reds(s) == Cardinality(RedOnes(s.tree, S))
           mu == [s \in LoopTurns |-> IF s \in I \ Stop THEN 1 + reds(s) ELSE 0]
           Walk(f) == IsLoop(f, LoopTurns, Stop, next)
           s0 == [tree |-> T, node |-> x]
<1>1. \A s \in LoopTurns : s.tree \in Trees /\ s.node \in Pointers
  BY DEF LoopTurns
<1>2. \A s \in LoopTurns \ Stop : next[s] \in LoopTurns
  BY <1>1, RedParentTypes
<1>3. \E f : Walk(f)
  <2> HIDE DEF Stop, next
  <2> QED
    BY <1>2, LoopExists
<1>4. ASSUME NEW f
      PROVE  Walk(f) <=>
             f = [s \in LoopTurns |->
                    IF \/ s.node = Nil \/ s.node = s.tree.root
                       \/ ColorOf(s.tree, ParentOf(s.tree, s.node)) # "red"
                    THEN s
                    ELSE f[RedParent(s.tree, s.node)]]
  BY DEF IsLoop, Settled
<1>5. PICK f : /\ Walk(f)
               /\ FixAfterInsertion(T, x) =
                    SetColor(f[s0].tree, f[s0].tree.root, "black")
  <2> DEFINE w == CHOOSE f : f = [s \in LoopTurns |->
                    IF \/ s.node = Nil \/ s.node = s.tree.root
                       \/ ColorOf(s.tree, ParentOf(s.tree, s.node)) # "red"
                    THEN s
                    ELSE f[RedParent(s.tree, s.node)]]
  <2>1. FixAfterInsertion(T, x) = SetColor(w[s0].tree, w[s0].tree.root, "black")
    BY DEF FixAfterInsertion
  <2>2. w = CHOOSE f : Walk(f)
    <3> HIDE DEF Walk
    <3> QED
      BY <1>4
  <2> HIDE DEF Walk
  <2>3. Walk(w)
    BY <1>3, <2>2
  <2> HIDE DEF w
  <2> QED
    BY <2>1, <2>3
<1>6. ASSUME NEW s \in I PROVE reds(s) \in Nat
  <2>1. PICK su, bu : Reddened(s.tree, S, su, pos, bu, s.node)
    OBVIOUS
  <2>2. IsFiniteSet(S)
    BY <2>1, Shrinks DEF Reddened
  <2>3. IsFiniteSet(RedOnes(s.tree, S))
    BY <2>2, FS_Subset DEF RedOnes
  <2> QED
    BY <2>3, FS_CardinalityType
<1>7. mu \in [LoopTurns -> Nat]
  <2> HIDE DEF I, Stop, reds
  <2> QED
    BY <1>6
<1>8. ASSUME NEW s \in I \ Stop
      PROVE  next[s] \in I /\ mu[next[s]] < mu[s]
  <2> DEFINE t == RedParent(s.tree, s.node)
  <2>1. PICK su, bu : Reddened(s.tree, S, su, pos, bu, s.node)
    OBVIOUS
  <2>2. /\ \E sv, bv : Reddened(t.tree, S, sv, pos, bv, t.node)
        /\ SameEntries(s.tree, t.tree)
        /\ Settled(t.tree, t.node) \/ reds(t) < reds(s)
    BY <2>1, RedParentTurn
  <2>3. t \in LoopTurns /\ next[s] = t
    BY <1>2
  <2>4. SameEntries(T, t.tree)
    BY <2>2 DEF SameEntries
  <2> HIDE DEF t
  <2>5. t \in I /\ (t \in Stop \/ reds(t) < reds(s))
    BY <2>2, <2>3, <2>4
  <2>6. reds(t) \in Nat /\ reds(s) \in Nat
    BY <1>6, <2>5
  <2> HIDE DEF I, Stop, next, reds
  <2>7. mu[s] = 1 + reds(s) /\ mu[t] = (IF t \in Stop THEN 0 ELSE 1 + reds(t))
    BY <2>3, <2>5, <1>8 DEF I
  <2> QED
    BY <2>3, <2>5, <2>6, <2>7
<1>9. f[s0] \in I \cap Stop
  <2>1. s0 \in I
    <3>1. T \in Trees /\ x \in Pointers
      BY DEF Reddened, Shape, Pointed, Pointers
    <3>2. SameEntries(T, T)
      BY DEF SameEntries
    <3> QED
      BY <3>1, <3>2 DEF LoopTurns
  <2>2. I \in SUBSET LoopTurns /\ Walk(f)
    BY <1>5
  <2> HIDE DEF I, Stop, next, mu
  <2> QED
    BY <1>7, <1>8, <2>1, <2>2, LoopEnds
<1> DEFINE A == f[s0].tree
           z == f[s0].node
           U == SetColor(A, A.root, "black")
<1>10. A \in Trees /\ Settled(A, z) /\ SameEntries(T, A)
       /\ \E su, bu : Reddened(A, S, su, pos, bu, z)
  BY <1>9, <1>1
<1>11. PICK su, bu : Reddened(A, S, su, pos, bu, z)
  BY <1>10
<1> HIDE DEF A, z
<1>12. Shape(A, S, su, pos) /\ A.root \in S /\ A.root # Nil /\ A.root \in Pointers
       /\ z \in S /\ z # Nil /\ Nil \notin S
  <2>1. Shape(A, S, su, pos) /\ z \in S
    BY <1>11 DEF Reddened
  <2> QED
    BY <2>1, RootThere, Neighbours
<1>13. ColorIs(A, U, A.root, "black") /\ U \in Trees
  BY <1>10, <1>12, ColorSet, SMTT(30) DEF ColorIs
<1> HIDE DEF U
<1>14. /\ SameEntries(T, U) /\ U.root = A.root
       /\ Shape(U, S, su, pos) /\ \A e \in Sides : U[e] = A[e]
       /\ \A n \in S : U.color[n] = IF n = A.root THEN "black" ELSE A.color[n]
  <2>1. SameLinks(A, U) /\ SameEntries(A, U)
    BY <1>13 DEF ColorIs
  <2>2. Shape(U, S, su, pos) /\ \A e \in Sides : U[e] = A[e]
    BY <1>12, <1>13, <2>1, ShapeColored
  <2>3. S \subseteq TreeNodes
    BY <1>12, Neighbours
  <2> QED
    BY <1>10, <1>13, <2>1, <2>2, <2>3 DEF ColorIs, SameEntries, SameLinks
<1>15. Reds(U, S, Nil, Nil)
  <2>1. \A n \in S, e \in Sides :
            A.color[n] = "red" => A[e][n] = z \/ ColorOf(A, A[e][n]) = "black"
    BY <1>11, <1>12 DEF Reddened, Reds
  <2>2. ASSUME NEW n \in S, NEW e \in Sides, U.color[n] = "red"
        PROVE  ColorOf(U, U[e][n]) = "black"
    <3>1. A.color[n] = "red"
      BY <1>14, <2>2
    <3>2. A[e][n] # z
      <4> SUFFICES ASSUME A[e][n] = z PROVE FALSE
        OBVIOUS
      <4>1. A.parent[z] = n /\ z # A.root
        BY <1>12, Neighbours
      <4> QED
        BY <1>10, <1>12, <3>1, <4>1 DEF Settled, ParentOf, ColorOf
    <3>3. A[e][n] \in S \cup {Nil} /\ ColorOf(A, A[e][n]) = "black"
      BY <1>12, <2>1, <3>1, <3>2, Neighbours
    <3> QED
      BY <1>12, <1>14, <3>3 DEF ColorOf
  <2> QED
    BY <2>2 DEF Reds
<1>16. \E bv : Heights(U, S, bv, Nil, Nil)
  <2> DEFINE bv == [bu EXCEPT ![A.root] = bu[A.root] + Weight(U, Nil, A.root)
                                          - Weight(A, Nil, A.root)]
  <2>1. Heights(A, S, bu, Nil, Nil)
    BY <1>11 DEF Reddened
  <2>2. /\ bv[Nil] = 0
        /\ \A n \in S : bv[n] = IF n = A.root
                                THEN bu[n] + Weight(U, Nil, n) - Weight(A, Nil, n)
                                ELSE bu[n]
        /\ \A n \in S : bu[n] \in Nat
        /\ S \subseteq Pointers
    <3>1. S \subseteq Pointers /\ Nil \in Pointers
      BY <1>12, Neighbours
    <3> QED
      BY <1>12, <2>1, <3>1 DEF Heights
  <2>3. Weight(U, Nil, A.root) = 1 /\ Weight(A, Nil, A.root) \in {0, 1}
    BY <1>12, <1>14 DEF Weight
  <2>4. bv \in [Pointers -> Nat]
    <3>1. bu[A.root] + Weight(U, Nil, A.root) - Weight(A, Nil, A.root) \in Nat
      BY <1>12, <2>2, <2>3
    <3> QED
      BY <2>1, <3>1 DEF Heights
  <2> HIDE DEF bv
  <2>5. ASSUME NEW n \in S, NEW e \in Sides
        PROVE  bv[n] = bv[U[e][n]] + Weight(U, Nil, n) + (IF n = Nil THEN 1 ELSE 0)
    <3>1. A[e][n] # A.root /\ A[e][n] \in S \cup {Nil} /\ n # Nil
      BY <1>12, Neighbours
    <3>2. bv[U[e][n]] = bu[A[e][n]] /\ bu[A[e][n]] \in Nat
      BY <1>14, <2>1, <2>2, <3>1 DEF Heights
    <3>3. bu[n] = bu[A[e][n]] + Weight(A, Nil, n)
      BY <2>1, <2>2, <3>1, <3>2 DEF Heights, Weight
    <3>4. CASE n = A.root
      BY <2>2, <2>3, <3>1, <3>2, <3>3, <3>4
    <3>5. CASE n # A.root
      <4>1. Weight(U, Nil, n) = Weight(A, Nil, n)
        BY <1>14, <3>5 DEF Weight
      <4>2. Weight(A, Nil, n) \in Nat
        BY DEF Weight
      <4> QED
        BY <2>2, <3>1, <3>2, <3>3, <3>5, <4>1, <4>2
    <3> QED
      BY <3>4, <3>5
  <2>6. \A n \in S : U.color[n] \in {"red", "black"}
    BY <1>14, <2>1 DEF Heights
  <2>7. Heights(U, S, bv, Nil, Nil)
    BY <2>2, <2>4, <2>5, <2>6 DEF Heights
  <2> QED
    BY <2>7
<1>17. ColorOf(U, U.root) = "black"
  BY <1>12, <1>14 DEF ColorOf
<1>18. U = FixAfterInsertion(T, x)
  BY <1>5 DEF U, A
<1> QED
  BY <1>14, <1>15, <1>16, <1>17, <1>18 DEF Sound

\* The data that may be inserted.
TreeData == {p[2] : p \in Pairs}

\* F is T but for the fields of n.
FilledIs(T, F, n, key, value, parent) ==
    /\ F \in Trees /\ F.root = T.root
    /\ F.key = [T.key EXCEPT ![n] = key]
    /\ F.data = [T.data EXCEPT ![n] = value]
    /\ \A m \in TreeNodes :
         /\ F.parent[m] = IF m = n THEN parent ELSE T.parent[m]
         /\ F.color[m] = IF m = n THEN "black" ELSE T.color[m]
         /\ \A e \in Sides : F[e][m] = IF m = n THEN Nil ELSE T[e][m]

\* Filled sets the fields of one node.
LEMMA FilledFields ==
  ASSUME NEW T \in Trees, NEW n \in TreeNodes, NEW key \in TreeKeys,
         NEW value \in TreeData, NEW parent \in Pointers
  PROVE  FilledIs(T, Filled(T, n, key, value, parent), n, key, value, parent)
<1> DEFINE F == Filled(T, n, key, value, parent)
<1>1. /\ F.root = T.root
      /\ F.key = [T.key EXCEPT ![n] = key]
      /\ F.data = [T.data EXCEPT ![n] = value]
      /\ F.parent = [T.parent EXCEPT ![n] = parent]
      /\ F.left = [T.left EXCEPT ![n] = Nil]
      /\ F.right = [T.right EXCEPT ![n] = Nil]
      /\ F.color = [T.color EXCEPT ![n] = "black"]
      /\ F = [root |-> F.root, key |-> F.key, data |-> F.data,
              left |-> F.left, right |-> F.right, parent |-> F.parent,
              color |-> F.color]
  <2> DEFINE T1 == [T EXCEPT !.key[n] = key]
             T2 == [T1 EXCEPT !.data[n] = value]
             T3 == [T2 EXCEPT !.parent[n] = parent]
             T4 == [T3 EXCEPT !.left[n] = Nil]
             T5 == [T4 EXCEPT !.right[n] = Nil]
             T6 == [T5 EXCEPT !.color[n] = "black"]
             All(x) == x = [root |-> x.root, key |-> x.key, data |-> x.data,
                            left |-> x.left, right |-> x.right,
                            parent |-> x.parent, color |-> x.color]
  <2>0. All(T)
    BY DEF Trees
  <2>1. T1 = [T EXCEPT !.key = [T.key EXCEPT ![n] = key]] /\ All(T1)
    BY <2>0
  <2>7. F = T6
    BY DEF Filled
  <2> QED
    BY <2>0, <2>1, <2>7, ZenonT(60)
<1> HIDE DEF F
<1>2. Nil \in Pointers
  BY DEF Pointers
<1>3. /\ F.root \in Pointers
      /\ F.key \in [TreeNodes -> TreeKeys \cup {Nil}]
      /\ F.data \in [TreeNodes -> TreeData \cup {Nil}]
      /\ F.parent \in [TreeNodes -> Pointers]
      /\ F.left \in [TreeNodes -> Pointers]
      /\ F.right \in [TreeNodes -> Pointers]
      /\ F.color \in [TreeNodes -> {"red", "black", Nil}]
  <2>1. /\ T.root \in Pointers
        /\ T.key \in [TreeNodes -> TreeKeys \cup {Nil}]
        /\ T.data \in [TreeNodes -> TreeData \cup {Nil}]
        /\ T.parent \in [TreeNodes -> Pointers]
        /\ T.left \in [TreeNodes -> Pointers]
        /\ T.right \in [TreeNodes -> Pointers]
        /\ T.color \in [TreeNodes -> {"red", "black", Nil}]
    BY FieldTypes DEF TreeKeys, TreeData
  <2>2. /\ F.key \in [TreeNodes -> TreeKeys \cup {Nil}]
        /\ F.data \in [TreeNodes -> TreeData \cup {Nil}]
    BY <1>1, <2>1
  <2>3. /\ F.parent \in [TreeNodes -> Pointers]
        /\ F.left \in [TreeNodes -> Pointers]
        /\ F.right \in [TreeNodes -> Pointers]
    BY <1>1, <1>2, <2>1
  <2>4. F.color \in [TreeNodes -> {"red", "black", Nil}]
    BY <1>1, <2>1
  <2> QED
    BY <1>1, <2>1, <2>2, <2>3, <2>4
<1>4. F \in Trees
  BY <1>1, <1>3 DEF Trees, TreeKeys, TreeData
<1>5. /\ F["left"] = F.left /\ F["right"] = F.right
      /\ T["left"] = T.left /\ T["right"] = T.right
  BY <1>4, FieldTypes
<1>6. \A m \in TreeNodes :
         /\ F.parent[m] = IF m = n THEN parent ELSE T.parent[m]
         /\ F.color[m] = IF m = n THEN "black" ELSE T.color[m]
         /\ F.left[m] = IF m = n THEN Nil ELSE T.left[m]
         /\ F.right[m] = IF m = n THEN Nil ELSE T.right[m]
  BY <1>1, FieldTypes
<1>7. \A m \in TreeNodes, e \in Sides : F[e][m] = IF m = n THEN Nil ELSE T[e][m]
  BY <1>5, <1>6 DEF Sides
<1> QED
  BY <1>1, <1>4, <1>6, <1>7 DEF FilledIs, F

\* The tree that InsertNode hands to FixAfterInsertion.
NewLeaf(T, key, value, n) ==
    LET t == LeafFor(T, key)
    IN [Filled(T, n, key, value, t)
           EXCEPT ![SideOf(T, t, key)][t] = n, !.color[n] = "red"]

\* U is T with one more node, a red leaf.
NewLeafIs(T, U, S, n, key, value) ==
    /\ \E su, bu : Reddened(U, S \cup {n}, su, U.key, bu, n)
    /\ U.key = [T.key EXCEPT ![n] = key]
    /\ U.data = [T.data EXCEPT ![n] = value]

\* A new node at a leaf, red.
LEMMA LeafAdded ==
  ASSUME NEW T, NEW S, NEW sub, NEW bh, Sound(T, S, sub, T.key, bh),
         T.root # Nil, NEW n \in TreeNodes \ S, NEW key \in TreeKeys,
         NEW value \in TreeData, \A m \in S : T.key[m] # key
  PROVE  NewLeafIs(T, NewLeaf(T, key, value, n), S, n, key, value)
<1> DEFINE t == LeafFor(T, key)
           d == SideOf(T, t, key)
           o == Opposite(d)
           F == Filled(T, n, key, value, t)
           V == WithChild(F, d, t, n)
           U == SetColor(V, n, "red")
           R == S \cup {n}
           su == [m \in Pointers |-> IF m = n THEN {n}
                                     ELSE IF t \in sub[m] THEN sub[m] \cup {n}
                                     ELSE sub[m]]
           bu == [bh EXCEPT ![n] = 0]
<1>1. /\ Shape(T, S, sub, T.key) /\ T \in Trees /\ S \subseteq TreeNodes
      /\ S \subseteq Pointers /\ Nil \notin S /\ Nil \in Pointers /\ n # Nil
      /\ n \in Pointers /\ n \notin S
      /\ \A m \in S, e \in Sides : T[e][m] \in S \cup {Nil} /\ T[e][m] # n
      /\ \A m \in S : T.parent[m] \in S \cup {Nil} /\ T.parent[m] # n
  <2>1. Shape(T, S, sub, T.key)
    BY DEF Sound
  <2> QED
    BY <2>1, Neighbours, TreeAssumption DEF Pointers
<1>2. T.root \in S /\ S # {}
  BY <1>1 DEF Shape, Pointed
<1>3. key \in Int
  BY TreeAssumption DEF TreeKeys
<1>4. /\ t \in S /\ d \in Sides /\ T[d][t] = Nil
      /\ Before(d, key, T.key[t])
      /\ \A a \in S, e \in Sides :
            t \in sub[T[e][a]] => Before(e, key, T.key[a])
  BY <1>1, <1>2, <1>3, LeafFound
<1>5. o \in Sides /\ o # d /\ \A e \in Sides : e = d \/ e = o
  BY <1>4, OtherSide
<1>6. U = NewLeaf(T, key, value, n)
  <2>1. U = [F EXCEPT ![d][t] = n, !.color[n] = "red"]
    BY <1>1 DEF SetColor, WithChild
  <2> QED
    BY <2>1 DEF NewLeaf
<1> HIDE DEF t, d, o
<1>7. FilledIs(T, F, n, key, value, t) /\ F \in Trees
  <2>1. t \in Pointers
    BY <1>1, <1>4
  <2>2. FilledIs(T, F, n, key, value, t)
    BY <1>1, <2>1, FilledFields
  <2> QED
    BY <2>2 DEF FilledIs
<1> HIDE DEF F
<1>8. ChildIs(F, V, d, t, n) /\ V \in Trees
  <2>1. ChildIs(F, V, d, t, n)
    BY <1>1, <1>4, <1>7, ChildSet
  <2> QED
    BY <2>1 DEF ChildIs
<1> HIDE DEF V
<1>9. ColorIs(V, U, n, "red") /\ U \in Trees
  BY <1>1, <1>8, ColorSet DEF ColorIs
<1>10. /\ U.root = T.root
       /\ U.key = [T.key EXCEPT ![n] = key]
       /\ U.data = [T.data EXCEPT ![n] = value]
  BY <1>7, <1>8, <1>9 DEF ColorIs, ChildIs, FilledIs, SameEntries, SameLinks
<1>11. \A m \in TreeNodes :
         /\ U.parent[m] = IF m = n THEN t ELSE T.parent[m]
         /\ U.color[m] = IF m = n THEN "red" ELSE T.color[m]
  BY <1>7, <1>8, <1>9 DEF ColorIs, ChildIs, FilledIs, SameLinks
<1>12. \A m \in TreeNodes, e \in Sides :
           U[e][m] = IF m = n THEN Nil
                     ELSE IF e = d /\ m = t THEN n ELSE T[e][m]
  <2>1. \A e \in Sides : U[e] = V[e]
    BY <1>8, <1>9, SameSides DEF ColorIs
  <2> QED
    BY <1>1, <1>4, <1>7, <1>8, <2>1 DEF ChildIs, FilledIs
<1> HIDE DEF U
<1>13. U.key[n] = key /\ \A m \in S : U.key[m] = T.key[m]
  BY <1>1, <1>10, FieldTypes
<1>14. Pointed(U, R)
  <2>0. Pointed(T, S)
    BY <1>1 DEF Shape
  <2>1. /\ U.root \in R \cup {Nil} /\ R \subseteq TreeNodes
        /\ U.root # Nil => U.parent[U.root] = Nil
        /\ \A m \in TreeNodes \ R, e \in Sides : U[e][m] = Nil
    BY <1>1, <1>2, <1>4, <1>10, <1>11, <1>12, <2>0 DEF Pointed
  <2>2. ASSUME NEW m \in R
        PROVE  /\ U.parent[m] \in R \cup {Nil}
               /\ U.parent[m] = Nil => U.root = m
               /\ U.parent[m] # Nil => \E e \in Sides : U[e][U.parent[m]] = m
    <3>1. CASE m = n
      <4>1. U.parent[m] = t /\ U[d][t] = n
        BY <1>1, <1>4, <1>11, <1>12, <3>1
      <4> QED
        BY <1>1, <1>4, <3>1, <4>1
    <3>2. CASE m # n
      <4> DEFINE p == T.parent[m]
      <4>1. m \in S /\ U.parent[m] = p
        BY <1>1, <1>11, <3>2
      <4>2. p \in S \cup {Nil} /\ (p = Nil => T.root = m)
            /\ (p # Nil => \E e \in Sides : T[e][p] = m)
        BY <2>0, <4>1 DEF Pointed
      <4>3. ASSUME p # Nil PROVE \E e \in Sides : U[e][p] = m
        <5>1. PICK e \in Sides : T[e][p] = m
          BY <4>2, <4>3
        <5>2. ~(e = d /\ p = t) /\ p # n /\ p \in TreeNodes
          BY <1>1, <1>4, <4>1, <4>2, <4>3, <5>1
        <5> QED
          BY <1>12, <5>1, <5>2
      <4> HIDE DEF p
      <4> QED
        BY <1>10, <4>1, <4>2, <4>3
    <3> QED
      BY <3>1, <3>2
  <2>3. ASSUME NEW m \in R, NEW e \in Sides
        PROVE  /\ U[e][m] \in R \cup {Nil}
               /\ U[e][m] # Nil => U.parent[U[e][m]] = m
    <3>1. CASE m = n
      BY <1>1, <1>12, <3>1
    <3>2. CASE e = d /\ m = t
      BY <1>1, <1>4, <1>11, <1>12, <3>2
    <3>3. CASE m # n /\ ~(e = d /\ m = t)
      <4>1. m \in S /\ U[e][m] = T[e][m]
        BY <1>1, <1>12, <3>3
      <4>2. T[e][m] \in S \cup {Nil} /\ (T[e][m] # Nil => T.parent[T[e][m]] = m)
        BY <2>0, <4>1 DEF Pointed
      <4> QED
        BY <1>1, <1>11, <4>1, <4>2
    <3> QED
      BY <3>1, <3>2, <3>3
  <2> QED
    BY <2>1, <2>2, <2>3 DEF Pointed
<1>15. Ordered(U, R, su, U.key)
  <2>1. /\ sub \in [Pointers -> SUBSET S] /\ sub[Nil] = {} /\ sub[T.root] = S
        /\ \A m \in S : T.key[m] \in Int
        /\ \A m \in S, e \in Sides : \A k \in sub[T[e][m]] :
               Before(e, T.key[k], T.key[m])
    BY <1>1 DEF Shape, Ordered
  <2>2. /\ su \in [Pointers -> SUBSET R] /\ su[Nil] = {} /\ su[n] = {n}
        /\ \A m \in S \cup {Nil} : su[m] = IF t \in sub[m] THEN sub[m] \cup {n}
                                           ELSE sub[m]
    BY <1>1, <2>1
  <2> HIDE DEF su
  <2>3. su[U.root] = R
    BY <1>2, <1>4, <1>10, <2>1, <2>2
  <2>4. \A m \in R : U.key[m] \in Int
    BY <1>3, <1>13, <2>1
  <2>5. ASSUME NEW m \in S
        PROVE  su[m] = {m} \cup su[U[d][m]] \cup su[U[o][m]]
    <3>1. sub[m] = {m} \cup sub[T[d][m]] \cup sub[T[o][m]]
      BY <1>1, <1>4, SubOf DEF o
    <3>2. CASE m = t
      <4>1. U[d][m] = n /\ U[o][m] = T[o][m] /\ T[d][m] = Nil
        BY <1>1, <1>4, <1>5, <1>12, <3>2
      <4>2. t \notin sub[T[o][m]] /\ t \in sub[t]
        BY <1>1, <1>4, <1>5, <3>2, Apart
      <4>3. su[T[o][m]] = sub[T[o][m]] /\ su[m] = sub[m] \cup {n}
        BY <1>1, <1>5, <2>2, <3>2, <4>2
      <4> QED
        BY <2>1, <2>2, <3>1, <4>1, <4>3
    <3>3. CASE m # t
      <4>1. U[d][m] = T[d][m] /\ U[o][m] = T[o][m]
        BY <1>1, <1>4, <1>5, <1>12, <3>3
      <4>2. T[d][m] \in S \cup {Nil} /\ T[o][m] \in S \cup {Nil}
        BY <1>1, <1>4, <1>5
      <4>3. su[T[d][m]] = IF t \in sub[T[d][m]] THEN sub[T[d][m]] \cup {n}
                          ELSE sub[T[d][m]]
        BY <2>2, <4>2
      <4>4. su[T[o][m]] = IF t \in sub[T[o][m]] THEN sub[T[o][m]] \cup {n}
                          ELSE sub[T[o][m]]
        BY <2>2, <4>2
      <4>5. su[m] = IF t \in sub[m] THEN sub[m] \cup {n} ELSE sub[m]
        BY <2>2
      <4> QED
        BY <3>1, <3>3, <4>1, <4>3, <4>4, <4>5
    <3> QED
      BY <3>2, <3>3
  <2>6. ASSUME NEW m \in R
        PROVE  su[m] = {m} \cup su[U.left[m]] \cup su[U.right[m]]
    <3>1. U["left"] = U.left /\ U["right"] = U.right
      BY <1>9, FieldTypes
    <3>2. CASE m = n
      <4>1. U.left[m] = Nil /\ U.right[m] = Nil
        BY <1>12, <3>1, <3>2 DEF Sides
      <4> QED
        BY <2>2, <3>2, <4>1
    <3>3. CASE m # n
      <4>1. m \in S
        BY <3>3
      <4>2. CASE d = "left"
        BY <2>5, <3>1, <4>1, <4>2 DEF o, Opposite
      <4>3. CASE d = "right"
        BY <2>5, <3>1, <4>1, <4>3 DEF o, Opposite
      <4> QED
        BY <1>4, <4>2, <4>3 DEF Sides
    <3> QED
      BY <3>2, <3>3
  <2>7. ASSUME NEW m \in R, NEW e \in Sides, NEW k \in su[U[e][m]]
        PROVE  Before(e, U.key[k], U.key[m])
    <3>1. m # n
      BY <1>12, <2>2, <2>7
    <3>2. m \in S
      BY <3>1
    <3>3. CASE e = d /\ m = t
      <4>1. k = n
        BY <1>1, <1>4, <1>12, <2>2, <2>7, <3>1, <3>3
      <4> QED
        BY <1>4, <1>13, <3>3, <4>1
    <3>4. CASE ~(e = d /\ m = t)
      <4>1. U[e][m] = T[e][m] /\ T[e][m] \in S \cup {Nil}
        BY <1>1, <1>12, <3>1, <3>2, <3>4
      <4>2. CASE k = n
        <5>1. t \in sub[T[e][m]]
          <6>1. sub[T[e][m]] \in SUBSET S
            BY <1>1, <2>1, <4>1
          <6>2. n \in su[T[e][m]] /\ n \notin sub[T[e][m]] /\ T[e][m] # n
            BY <1>1, <2>7, <4>1, <4>2, <6>1
          <6>3. su[T[e][m]] = IF t \in sub[T[e][m]] THEN sub[T[e][m]] \cup {n}
                              ELSE sub[T[e][m]]
            BY <2>2, <4>1
          <6> QED
            BY <6>2, <6>3
        <5> QED
          BY <1>4, <1>13, <3>2, <4>2, <5>1
      <4>3. CASE k # n
        <5>1. k \in sub[T[e][m]]
          <6>1. su[T[e][m]] = IF t \in sub[T[e][m]] THEN sub[T[e][m]] \cup {n}
                              ELSE sub[T[e][m]]
            BY <2>2, <4>1
          <6> QED
            BY <2>7, <4>1, <4>3, <6>1
        <5>2. k \in S
          BY <1>1, <2>1, <4>1, <5>1
        <5> QED
          BY <1>13, <2>1, <3>2, <5>1, <5>2
      <4> QED
        BY <4>2, <4>3
    <3> QED
      BY <3>3, <3>4
  <2> QED
    BY <2>2, <2>3, <2>4, <2>6, <2>7 DEF Ordered
<1>16. Heights(U, R, bu, Nil, Nil)
  <2>1. Heights(T, S, bh, Nil, Nil)
    BY DEF Sound
  <2>2. /\ bu \in [Pointers -> Nat] /\ bu[Nil] = 0 /\ bu[n] = 0
        /\ \A m \in S : bu[m] = bh[m]
        /\ bh[Nil] = 0
    BY <1>1, <2>1 DEF Heights
  <2> HIDE DEF bu
  <2>3. \A m \in S : U.color[m] = T.color[m] /\ T.color[m] \in {"red", "black"}
    BY <1>1, <1>11, <2>1 DEF Heights
  <2>4. \A m \in S : Weight(U, Nil, m) = Weight(T, Nil, m)
    BY <2>3 DEF Weight
  <2>5. U.color[n] = "red" /\ Weight(U, Nil, n) = 0
    BY <1>11 DEF Weight
  <2>6. ASSUME NEW m \in R, NEW e \in Sides
        PROVE  bu[m] = bu[U[e][m]] + Weight(U, Nil, m) + (IF m = Nil THEN 1 ELSE 0)
    <3>1. CASE m = n
      BY <1>1, <1>12, <2>2, <2>5, <3>1
    <3>2. CASE m # n
      <4>1. m \in S
        BY <3>2
      <4>2. bh[m] = bh[T[e][m]] + Weight(T, Nil, m) + (IF m = Nil THEN 1 ELSE 0)
        BY <2>1, <4>1 DEF Heights
      <4>3. bu[U[e][m]] = bh[T[e][m]]
        BY <1>1, <1>4, <1>12, <2>2, <3>2, <4>1
      <4> QED
        BY <2>2, <2>4, <4>1, <4>2, <4>3
    <3> QED
      BY <3>1, <3>2
  <2> QED
    BY <2>2, <2>3, <2>5, <2>6 DEF Heights
<1>17. Reds(U, R, Nil, n)
  <2>1. ASSUME NEW m \in R, NEW e \in Sides, U.color[m] = "red"
        PROVE  U[e][m] = n \/ ColorOf(U, U[e][m]) = "black"
    <3>1. CASE m = n
      BY <1>12, <3>1 DEF ColorOf
    <3>2. CASE m # n /\ e = d /\ m = t
      BY <1>1, <1>4, <1>12, <3>2
    <3>3. CASE m # n /\ ~(e = d /\ m = t)
      <4>1. m \in S /\ U[e][m] = T[e][m] /\ T.color[m] = "red"
        BY <1>1, <1>11, <1>12, <2>1, <3>3
      <4>2. ColorOf(T, T[e][m]) = "black"
        BY <1>1, <4>1 DEF Sound, Reds, ColorOf
      <4>3. T[e][m] \in S \cup {Nil}
        BY <1>1, <4>1
      <4> QED
        BY <1>1, <1>11, <4>1, <4>2, <4>3 DEF ColorOf
    <3> QED
      BY <3>1, <3>2, <3>3
  <2> QED
    BY <2>1 DEF Reds
<1>18. U.color[n] = "red" /\ U.color[U.root] = "black"
  BY <1>1, <1>2, <1>10, <1>11 DEF Sound, ColorOf
<1>19. Reddened(U, R, su, U.key, bu, n)
  BY <1>9, <1>14, <1>15, <1>16, <1>17, <1>18 DEF Reddened, Shape
<1> HIDE DEF su, bu
<1>20. /\ \E sv, bv : Reddened(U, S \cup {n}, sv, U.key, bv, n)
       /\ U.key = [T.key EXCEPT ![n] = key]
       /\ U.data = [T.data EXCEPT ![n] = value]
  BY <1>10, <1>19
<1> QED
  BY <1>6, <1>20 DEF NewLeafIs

\* U is T with one more node n.
InsertedIs(T, U, S, n, key, value) ==
    /\ \E su, bu : Sound(U, S \cup {n}, su, U.key, bu)
    /\ U.key = [T.key EXCEPT ![n] = key]
    /\ U.data = [T.data EXCEPT ![n] = value]

\* A tree of one node.
LEMMA FirstNode ==
  ASSUME NEW T, NEW sub, NEW bh, Sound(T, {}, sub, T.key, bh),
         NEW n \in TreeNodes, NEW key \in TreeKeys, NEW value \in TreeData
  PROVE  InsertedIs(T, [Filled(T, n, key, value, Nil) EXCEPT !.root = n], {},
                    n, key, value)
<1> DEFINE F == Filled(T, n, key, value, Nil)
           U == [F EXCEPT !.root = n]
           su == [m \in Pointers |-> IF m = n THEN {n} ELSE {}]
           bu == [m \in Pointers |-> IF m = n THEN 1 ELSE 0]
<1>1. /\ T \in Trees /\ Nil \in Pointers /\ n \in Pointers /\ n # Nil
      /\ \A m \in TreeNodes, e \in Sides : T[e][m] = Nil
  <2>1. Shape(T, {}, sub, T.key)
    BY DEF Sound
  <2> QED
    BY <2>1, TreeAssumption DEF Shape, Pointed, Pointers
<1>2. FilledIs(T, F, n, key, value, Nil) /\ F \in Trees
  <2>1. FilledIs(T, F, n, key, value, Nil)
    BY <1>1, FilledFields
  <2> QED
    BY <2>1 DEF FilledIs
<1> HIDE DEF F
<1>3. /\ U \in Trees /\ U.root = n /\ U.key = F.key /\ U.data = F.data
      /\ U.parent = F.parent /\ U.color = F.color
      /\ U.left = F.left /\ U.right = F.right
  BY <1>1, <1>2 DEF Trees
<1> HIDE DEF U
<1>4. \A m \in TreeNodes, e \in Sides : U[e][m] = Nil
  <2>1. \A e \in Sides : U[e] = F[e]
    BY <1>2, <1>3, FieldTypes DEF Sides
  <2> QED
    BY <1>1, <1>2, <2>1 DEF FilledIs
<1>5. U.parent[n] = Nil /\ U.color[n] = "black" /\ U.key[n] = key
  <2>1. F.parent[n] = Nil /\ F.color[n] = "black"
        /\ F.key = [T.key EXCEPT ![n] = key]
    BY <1>2 DEF FilledIs
  <2> QED
    BY <1>1, <1>3, <2>1, FieldTypes
<1>6. Pointed(U, {n})
  BY <1>3, <1>4, <1>5 DEF Pointed
<1>7. Ordered(U, {n}, su, U.key)
  <2>1. /\ su \in [Pointers -> SUBSET {n}] /\ su[Nil] = {} /\ su[n] = {n}
    BY <1>1
  <2> HIDE DEF su
  <2>2. key \in Int /\ U.left[n] = Nil /\ U.right[n] = Nil
    <3>1. U["left"] = U.left /\ U["right"] = U.right
      BY <1>3, FieldTypes
    <3> QED
      BY <1>4, <3>1, TreeAssumption DEF TreeKeys, Sides
  <2> QED
    BY <1>3, <1>4, <1>5, <2>1, <2>2 DEF Ordered
<1>8. Heights(U, {n}, bu, Nil, Nil)
  <2>1. bu \in [Pointers -> Nat] /\ bu[Nil] = 0 /\ bu[n] = 1
    BY <1>1
  <2> HIDE DEF bu
  <2> QED
    BY <1>1, <1>4, <1>5, <2>1 DEF Heights, Weight
<1>9. Sound(U, {n}, su, U.key, bu)
  <2>1. Reds(U, {n}, Nil, Nil)
    BY <1>4, <1>5 DEF Reds
  <2> QED
    BY <1>1, <1>3, <1>5, <1>6, <1>7, <1>8, <2>1 DEF Sound, Shape, ColorOf
<1>10. /\ U.key = [T.key EXCEPT ![n] = key]
       /\ U.data = [T.data EXCEPT ![n] = value]
  BY <1>2, <1>3 DEF FilledIs
<1> HIDE DEF su, bu
<1>11. {} \cup {n} = {n}
  OBVIOUS
<1>12. InsertedIs(T, U, {}, n, key, value)
  BY <1>9, <1>10, <1>11 DEF InsertedIs
<1> QED
  BY <1>12 DEF U, F

\* InsertNode makes a sound tree of one more node.
LEMMA NodeInserted ==
  ASSUME NEW T, NEW S, NEW sub, NEW bh, Sound(T, S, sub, T.key, bh),
         NEW n \in TreeNodes \ S, NEW key \in TreeKeys,
         NEW value \in TreeData, \A m \in S : T.key[m] # key
  PROVE  InsertedIs(T, InsertNode(T, key, value, n), S, n, key, value)
<1> DEFINE U == InsertNode(T, key, value, n)
<1>1. Shape(T, S, sub, T.key)
  BY DEF Sound
<1>2. CASE T.root = Nil
  <2>1. S = {}
    BY <1>1, <1>2, RootThere
  <2>2. U = [Filled(T, n, key, value, Nil) EXCEPT !.root = n]
    BY <1>2 DEF InsertNode
  <2> HIDE DEF U
  <2>3. Sound(T, {}, sub, T.key, bh)
    BY <2>1
  <2>4. InsertedIs(T, U, {}, n, key, value)
    BY <2>2, <2>3, FirstNode
  <2> QED
    BY <2>1, <2>4 DEF U
<1>3. CASE T.root # Nil
  <2> DEFINE V == NewLeaf(T, key, value, n)
  <2>1. U = FixAfterInsertion(V, n)
    BY <1>3 DEF InsertNode, NewLeaf
  <2> HIDE DEF U
  <2>2. /\ \E su, bu : Reddened(V, S \cup {n}, su, V.key, bu, n)
        /\ V.key = [T.key EXCEPT ![n] = key]
        /\ V.data = [T.data EXCEPT ![n] = value]
    <3>1. NewLeafIs(T, V, S, n, key, value)
      BY <1>3, LeafAdded
    <3> HIDE DEF V
    <3> QED
      BY <3>1 DEF NewLeafIs
  <2> HIDE DEF V, U
  <2>3. PICK su, bu : Reddened(V, S \cup {n}, su, V.key, bu, n)
    BY <2>2
  <2>4. /\ \E sv, bv : Sound(U, S \cup {n}, sv, V.key, bv)
        /\ SameEntries(V, U)
    BY <2>1, <2>3, InsertionFixed
  <2>5. U.key = V.key /\ U.data = V.data
    BY <2>4 DEF SameEntries
  <2> QED
    BY <2>2, <2>4, <2>5 DEF U, InsertedIs
<1> QED
  BY <1>2, <1>3

\* q is a black leaf that is about to go; it is not the root.
Doomed(T, S, q) ==
    q # Nil => /\ q \in S /\ T.root # q /\ T.color[q] = "black"
               /\ \A d \in Sides : T[d][q] = Nil

\* The heights h would be right, but for hx at x, were x gone down on side d
\* of r.
HeightsFit(T, S, h, q, y, x, r, d, hx) ==
    /\ h \in [Pointers -> Nat] /\ h[Nil] = 0 /\ hx \in Nat
    /\ x # y /\ r # y
    /\ \A n \in S : T.color[n] \in {"red", "black"}
    /\ \A n \in S \ {x, r}, e \in Sides :
           h[n] = h[T[e][n]] + Weight(T, q, n) + (IF n = y THEN 1 ELSE 0)
    /\ hx = h[T[d][x]] + Weight(T, q, x)
    /\ hx = h[T[d][r]] + Weight(T, q, x)
    /\ h[x] = hx + Weight(T, q, r)
    /\ h[x] = h[T[Opposite(d)][r]] + Weight(T, q, r)

\* A turn, when x and r are recolored before it: only their heights change.
LEMMA HeightsTurned ==
  ASSUME NEW T, NEW S, NEW sub, NEW pos, Shape(T, S, sub, pos),
         NEW x \in S, NEW r \in S, NEW d \in Sides, r = T[Opposite(d)][x],
         NEW U, Turned(T, U, S, x, r, d),
         NEW h, NEW q, NEW y, NEW hx, HeightsFit(T, S, h, q, y, x, r, d, hx)
  PROVE  Heights(U, S, [h EXCEPT ![r] = h[x], ![x] = hx], q, y)
<1> DEFINE o == Opposite(d)
           b == [h EXCEPT ![r] = h[x], ![x] = hx]
<1>01. /\ h \in [Pointers -> Nat] /\ h[Nil] = 0 /\ hx \in Nat
       /\ x # y /\ r # y
  BY DEF HeightsFit
<1>02. \A n \in S : T.color[n] \in {"red", "black"}
  BY DEF HeightsFit
<1>03. \A n \in S \ {x, r}, e \in Sides :
           h[n] = h[T[e][n]] + Weight(T, q, n) + (IF n = y THEN 1 ELSE 0)
  BY DEF HeightsFit
<1>04. /\ hx = h[T[d][x]] + Weight(T, q, x)
       /\ hx = h[T[d][r]] + Weight(T, q, x)
       /\ h[x] = hx + Weight(T, q, r)
       /\ h[x] = h[T[o][r]] + Weight(T, q, r)
  BY DEF HeightsFit
<1> HIDE DEF b
<1>1. /\ S \subseteq Pointers /\ Nil \notin S /\ Nil \in Pointers
      /\ T.parent[r] = x /\ x # r /\ (\A e \in Sides : e = d \/ e = o)
      /\ o \in Sides /\ d # o
      /\ \A n \in S, e \in Sides : T[e][n] \in S \cup {Nil} /\ T[e][n] # n
      /\ \A n \in S, e \in Sides : T[e][n] # Nil => T.parent[T[e][n]] = n
      /\ \A e \in Sides : T[e][r] # x
      /\ T[d][x] # r
  <2>1. Opposite(d) \in Sides /\ d # o /\ (\A e \in Sides : e = d \/ e = o)
        /\ Opposite(o) = d
    BY OtherSide
  <2>2. /\ S \subseteq Pointers /\ Nil \notin S /\ Nil \in Pointers
        /\ \A n \in S, e \in Sides : T[e][n] \in S \cup {Nil} /\ T[e][n] # n
        /\ \A n \in S, e \in Sides : T[e][n] # Nil => T.parent[T[e][n]] = n
    BY Neighbours
  <2>3. r # Nil /\ T.parent[r] = x /\ x # r
    BY <2>1, <2>2
  <2>4. \A e \in Sides : T[e][r] # x
    BY <2>1, <2>2, <2>3, Neighbours
  <2>5. T[d][x] # r
    BY <2>1, <2>2, <2>3, Neighbours
  <2> QED
    BY <2>1, <2>2, <2>3, <2>4, <2>5
<1>2. /\ b \in [Pointers -> Nat] /\ b[Nil] = 0 /\ b[r] = h[x] /\ b[x] = hx
      /\ \A n \in S \cup {Nil} : n \notin {x, r} => b[n] = h[n]
  <2>1. x \in Pointers /\ r \in Pointers /\ x # Nil /\ r # Nil /\ x # r
    BY <1>1
  <2>2. S \cup {Nil} \subseteq Pointers
    BY <1>1
  <2> QED
    BY <1>01, <2>1, <2>2 DEF b
<1>3. /\ U.color = T.color
      /\ U[d][x] = T[d][x] /\ U[o][x] = T[d][r]
      /\ U[d][r] = x /\ U[o][r] = T[o][r]
      /\ \A n \in S \ {x, r}, e \in Sides :
             U[e][n] = IF T[e][n] = x THEN r ELSE T[e][n]
  BY DEF Turned
<1>4. \A n \in S : Weight(U, q, n) = Weight(T, q, n)
  BY <1>3 DEF Weight
<1>5. ASSUME NEW n \in S, NEW e \in Sides
      PROVE  b[n] = b[U[e][n]] + Weight(U, q, n) + (IF n = y THEN 1 ELSE 0)
  <2>1. Weight(T, q, n) \in Nat
    BY DEF Weight
  <2>2. CASE n = x
    <3>1. U[e][n] \in {T[d][x], T[d][r]} /\ U[e][n] \in S \cup {Nil}
          /\ U[e][n] \notin {x, r}
      BY <1>1, <1>3, <2>2
    <3>2. b[U[e][n]] = h[U[e][n]] /\ h[U[e][n]] \in Nat
      BY <1>01, <1>1, <1>2, <3>1
    <3>3. n # y /\ b[n] = hx /\ Weight(U, q, n) = Weight(T, q, x)
      BY <1>01, <1>2, <1>4, <2>2
    <3>4. hx = h[U[e][n]] + Weight(T, q, x)
      BY <1>04, <3>1
    <3> QED
      BY <2>1, <2>2, <3>2, <3>3, <3>4
  <2>3. CASE n = r /\ e = d
    <3>1. n # y /\ b[n] = h[x] /\ Weight(U, q, n) = Weight(T, q, r)
      BY <1>01, <1>2, <1>4, <2>3
    <3>2. b[U[e][n]] = hx
      BY <1>2, <1>3, <2>3
    <3> QED
      BY <1>01, <1>04, <2>1, <2>3, <3>1, <3>2
  <2>4. CASE n = r /\ e = o
    <3>1. U[e][n] = T[o][r] /\ U[e][n] \in S \cup {Nil}
          /\ U[e][n] \notin {x, r}
      BY <1>1, <1>3, <2>4
    <3>2. b[U[e][n]] = h[T[o][r]] /\ h[T[o][r]] \in Nat
      BY <1>01, <1>1, <1>2, <3>1
    <3>3. n # y /\ b[n] = h[x] /\ Weight(U, q, n) = Weight(T, q, r)
      BY <1>01, <1>2, <1>4, <2>4
    <3> QED
      BY <1>04, <2>1, <2>4, <3>2, <3>3
  <2>5. CASE n \notin {x, r}
    <3>1. b[U[e][n]] = h[T[e][n]]
      <4>1. T[e][n] # r /\ T[e][n] \in S \cup {Nil}
        BY <1>1, <2>5
      <4>2. U[e][n] = IF T[e][n] = x THEN r ELSE T[e][n]
        BY <1>3, <2>5
      <4>3. CASE T[e][n] = x
        BY <1>2, <4>2, <4>3
      <4>4. CASE T[e][n] # x
        BY <1>2, <4>1, <4>2, <4>4
      <4> QED
        BY <4>3, <4>4
    <3>2. b[n] = h[n] /\ Weight(U, q, n) = Weight(T, q, n)
      BY <1>2, <1>4, <2>5
    <3>3. h[n] = h[T[e][n]] + Weight(T, q, n) + (IF n = y THEN 1 ELSE 0)
      BY <1>03, <2>5
    <3> QED
      BY <3>1, <3>2, <3>3
  <2> QED
    BY <1>1, <2>2, <2>3, <2>4, <2>5
<1>6. Heights(U, S, b, q, y)
  <2>1. \A n \in S : U.color[n] \in {"red", "black"}
    BY <1>02, <1>3
  <2> QED
    BY <1>2, <1>5, <2>1 DEF Heights
<1> QED
  BY <1>6 DEF b

\* No red node would have a red child, were x gone down on side d of r.
RedsFit(T, S, x, r, d) ==
    /\ \A n \in S \ {x, r}, e \in Sides : T.color[n] = "red" =>
           /\ T[e][n] = x => T.color[r] = "black"
           /\ T[e][n] # x => ColorOf(T, T[e][n]) = "black"
    /\ T.color[x] = "red" => /\ ColorOf(T, T[d][x]) = "black"
                             /\ ColorOf(T, T[d][r]) = "black"
    /\ T.color[r] = "red" => /\ T.color[x] = "black"
                             /\ ColorOf(T, T[Opposite(d)][r]) = "black"

\* A turn leaves no red node under a red one when the colors fit.
LEMMA RedsTurned ==
  ASSUME NEW T, NEW S, NEW x \in S, NEW r \in S, NEW d \in Sides,
         NEW U, Turned(T, U, S, x, r, d), Nil \notin S, RedsFit(T, S, x, r, d)
  PROVE  Reds(U, S, Nil, Nil)
<1> DEFINE o == Opposite(d)
<1>1. \A e \in Sides : e = d \/ e = o
  BY OtherSide
<1>2. /\ U.color = T.color
      /\ U[d][x] = T[d][x] /\ U[o][x] = T[d][r]
      /\ U[d][r] = x /\ U[o][r] = T[o][r]
      /\ \A n \in S \ {x, r}, e \in Sides :
             U[e][n] = IF T[e][n] = x THEN r ELSE T[e][n]
  BY DEF Turned
<1>3. ASSUME NEW n \in S, NEW e \in Sides, U.color[n] = "red"
      PROVE  ColorOf(U, U[e][n]) = "black"
  <2>0. \A m : ColorOf(U, m) = ColorOf(T, m)
    BY <1>2 DEF ColorOf
  <2>1. CASE n = x
    BY <1>1, <1>2, <1>3, <2>0, <2>1 DEF RedsFit
  <2>2. CASE n = r
    <3>1. T.color[x] = "black" => ColorOf(T, x) = "black"
      BY DEF ColorOf
    <3> QED
      BY <1>1, <1>2, <1>3, <2>0, <2>2, <3>1 DEF RedsFit
  <2>3. CASE n \notin {x, r}
    <3>1. T.color[r] = "black" => ColorOf(T, r) = "black"
      BY DEF ColorOf
    <3> QED
      BY <1>2, <1>3, <2>0, <2>3, <3>1 DEF RedsFit
  <2> QED
    BY <2>1, <2>2, <2>3
<1> QED
  BY <1>3 DEF Reds

-----------------------------------------------------------------------------
(* Deletion: the sibling *)

\* Before a turn of the loop of FixAfterDeletion: all paths are equally
\* black, were x to count once more; q is what is about to go.
Short(T, S, sub, pos, bh, q, x) ==
    /\ Shape(T, S, sub, pos)
    /\ Heights(T, S, bh, q, x)
    /\ Reds(T, S, x, Nil)
    /\ x \in S
    /\ T.root = x \/ T.color[T.root] = "black"
    /\ Doomed(T, S, q)

\* The same of a black x, on side d of p.
ShortUnder(T, S, sub, pos, bh, q, x, p, d) ==
    /\ Short(T, S, sub, pos, bh, q, x)
    /\ T.color[x] = "black" /\ T[d][p] = x

\* x and its sibling s are the children of p: on which sides they are,
Flanked(T, x, p, d, o, s) ==
    /\ o = Opposite(d) /\ s = T[o][p] /\ T[d][p] = x
    /\ o \in Sides /\ o # d /\ Opposite(o) = d
    /\ \A e \in Sides : e = d \/ e = o

\* of which tree, and that nothing of it is q,
Placed(T, S, q, x, p, s) ==
    /\ x \in S /\ s \in S /\ x # p /\ s # p /\ x # s
    /\ T.parent[x] = p /\ T.parent[s] = p
    /\ T.root # x /\ T.root # s /\ T.root \in S
    /\ p # q /\ s # q
    /\ \A e \in Sides : T[e][s] # p /\ T[e][x] # p

\* how the tree's links run,
Meshed(T, S) ==
    /\ Nil \notin S /\ S \subseteq Pointers /\ S \subseteq TreeNodes
    /\ Nil \in Pointers
    /\ \A n \in S, e \in Sides : T[e][n] \in S \cup {Nil} /\ T[e][n] # n
    /\ \A n \in S, e \in Sides : T[e][n] # Nil => T.parent[T[e][n]] = n

\* what its colors are,
Hued(T, S, x) ==
    /\ T.color[x] = "black" /\ T.color[T.root] = "black"
    /\ \A n \in S : T.color[n] \in {"red", "black"}
    /\ \A n \in S, e \in Sides :
           T.color[n] = "red" => ColorOf(T, T[e][n]) = "black"

\* and its black heights.
Deep(T, S, bh, q, x, p, s) ==
    /\ bh \in [Pointers -> Nat] /\ bh[Nil] = 0
    /\ \A n \in S, e \in Sides :
           bh[n] = bh[T[e][n]] + Weight(T, q, n) + (IF n = x THEN 1 ELSE 0)
    /\ bh[x] \in Nat /\ bh[x] > 0 /\ bh[s] = bh[x]
    /\ bh[p] = bh[x] + Weight(T, q, p)

\* x and its sibling s.
Beside(T, S, sub, pos, bh, q, x, p, d, o, s) ==
    /\ Flanked(T, x, p, d, o, s)
    /\ Shape(T, S, sub, pos) /\ Heights(T, S, bh, q, x) /\ T \in Trees
    /\ Doomed(T, S, q)
    /\ Meshed(T, S)
    /\ Placed(T, S, q, x, p, s)
    /\ Hued(T, S, x)
    /\ Deep(T, S, bh, q, x, p, s)

\* A node short of a black one has a sibling.
LEMMA Siblings ==
  ASSUME NEW T, NEW S, NEW sub, NEW pos, NEW bh, NEW q, NEW x,
         NEW p \in S, NEW d \in Sides,
         ShortUnder(T, S, sub, pos, bh, q, x, p, d)
  PROVE  LET o == Opposite(d)
         IN Beside(T, S, sub, pos, bh, q, x, p, d, o, T[o][p])
<1> DEFINE o == Opposite(d)
           s == T[o][p]
<1>1. /\ o \in Sides /\ o # d /\ Opposite(o) = d
      /\ \A e \in Sides : e = d \/ e = o
  BY OtherSide
<1>2. /\ Shape(T, S, sub, pos) /\ Heights(T, S, bh, q, x)
      /\ Reds(T, S, x, Nil) /\ x \in S
      /\ T.root = x \/ T.color[T.root] = "black"
      /\ Doomed(T, S, q) /\ T.color[x] = "black" /\ T[d][p] = x
  BY DEF ShortUnder, Short
<1>3. /\ Nil \notin S /\ Nil \in Pointers /\ S \subseteq Pointers
      /\ S \subseteq TreeNodes /\ T \in Trees
      /\ \A n \in S, e \in Sides : T[e][n] \in S \cup {Nil} /\ T[e][n] # n
      /\ \A n \in S, e \in Sides : T[e][n] # Nil => T.parent[T[e][n]] = n
  BY <1>2, Neighbours
<1>4. /\ x # p /\ T.parent[x] = p /\ T.root # x /\ x # s
      /\ \A e \in Sides : T[e][x] # p
  BY <1>1, <1>2, <1>3, Neighbours
<1>5. T.root \in S /\ T.color[T.root] = "black"
  BY <1>2, <1>3, <1>4, RootThere
<1>6. \A n \in S, e \in Sides :
          T.color[n] = "red" => ColorOf(T, T[e][n]) = "black"
  <2>1. \A n \in S \ {x}, e \in Sides :
            T.color[n] = "red" => T[e][n] = Nil \/ ColorOf(T, T[e][n]) = "black"
    BY <1>2 DEF Reds
  <2> QED
    BY <1>2, <2>1 DEF ColorOf
<1>7. /\ bh \in [Pointers -> Nat] /\ bh[Nil] = 0
      /\ \A n \in S, e \in Sides :
             bh[n] = bh[T[e][n]] + Weight(T, q, n) + (IF n = x THEN 1 ELSE 0)
      /\ \A n \in S : bh[n] \in Nat /\ Weight(T, q, n) \in Nat
      /\ \A n \in S, e \in Sides : bh[T[e][n]] \in Nat
  <2>1. \A n \in S, e \in Sides : T[e][n] \in Pointers
    BY <1>3
  <2> QED
    BY <1>2, <1>3, <2>1 DEF Heights, Weight
<1>8. bh[x] \in Nat /\ bh[x] > 0
  BY <1>1, <1>2, <1>7
<1>9. bh[p] = bh[x] + Weight(T, q, p) /\ bh[s] = bh[x]
  BY <1>1, <1>2, <1>4, <1>7
<1>10. s \in S /\ s # Nil
  BY <1>1, <1>3, <1>7, <1>8, <1>9
<1>11. s # p /\ T.parent[s] = p /\ T.root # s /\ \A e \in Sides : T[e][s] # p
  BY <1>1, <1>2, <1>3, <1>10, Neighbours
<1>12. p # q
  BY <1>2, <1>3 DEF Doomed
<1>13. s # q
  <2> SUFFICES ASSUME s = q PROVE FALSE
    OBVIOUS
  <2>1. T[d][q] = Nil /\ q \in S /\ Weight(T, q, q) = 0
    BY <1>2, <1>3, <1>10 DEF Doomed, Weight
  <2> QED
    BY <1>4, <1>7, <1>8, <1>9, <2>1
<1>14. Flanked(T, x, p, d, o, s)
  BY <1>1, <1>2 DEF Flanked
<1>15. Meshed(T, S)
  BY <1>3 DEF Meshed
<1>16. Placed(T, S, q, x, p, s)
  BY <1>1, <1>2, <1>4, <1>5, <1>10, <1>11, <1>12, <1>13 DEF Placed
<1>17. Hued(T, S, x)
  BY <1>2, <1>5, <1>6 DEF Hued, Heights
<1>18. Deep(T, S, bh, q, x, p, s)
  BY <1>7, <1>8, <1>9 DEF Deep
<1> HIDE DEF o, s
<1> QED
  BY <1>2, <1>3, <1>14, <1>15, <1>16, <1>17, <1>18 DEF Beside, o, s

\* p is between its red sibling-to-be-parent and its black new sibling.
BlackBeside(T, V, S, pos, q, x, p, d) ==
    /\ \E su, bu : ShortUnder(V, S, su, pos, bu, q, x, p, d)
    /\ SameEntries(T, V)
    /\ V.color[V[Opposite(d)][p]] = "black"
    /\ V = T \/ V.color[p] = "red"

\* BlackSibling makes the sibling black.
LEMMA SiblingBlackened ==
  ASSUME NEW T, NEW S, NEW sub, NEW pos, NEW bh, NEW q, NEW x,
         NEW p \in S, NEW d \in Sides,
         ShortUnder(T, S, sub, pos, bh, q, x, p, d)
  PROVE  BlackBeside(T, BlackSibling(T, p, d), S, pos, q, x, p, d)
<1> DEFINE o == Opposite(d)
           s == T[o][p]
           V == SetColor(T, s, "black")
           W == SetColor(V, p, "red")
           U == Rotate(W, p, d)
           su == TurnedSub(W, sub, p, s, d)
           bu == [bh EXCEPT ![s] = bh[p], ![p] = bh[x]]
<1>1. /\ o \in Sides /\ o # d /\ Opposite(o) = d
      /\ \A e \in Sides : e = d \/ e = o
      /\ x \in S /\ s \in S /\ x # p /\ s # p /\ x # s
      /\ T.parent[x] = p /\ T.parent[s] = p
      /\ T.root # x /\ T.root # s /\ T.root \in S
      /\ T.color[T.root] = "black"
      /\ p # q /\ s # q
      /\ \A e \in Sides : T[e][s] # p /\ T[e][x] # p
      /\ \A n \in S, e \in Sides :
             T.color[n] = "red" => ColorOf(T, T[e][n]) = "black"
      /\ bh[x] \in Nat /\ bh[x] > 0 /\ bh[s] = bh[x]
      /\ bh[p] = bh[x] + Weight(T, q, p)
  <2>1. Beside(T, S, sub, pos, bh, q, x, p, d, o, s)
    BY Siblings
  <2> QED
    BY <2>1 DEF Beside, Flanked, Placed, Hued, Deep
<1>2. /\ Shape(T, S, sub, pos) /\ Heights(T, S, bh, q, x) /\ T \in Trees
      /\ Doomed(T, S, q) /\ T.color[x] = "black" /\ T[d][p] = x
      /\ Nil \notin S /\ S \subseteq Pointers /\ S \subseteq TreeNodes
      /\ Nil \in Pointers
      /\ \A n \in S, e \in Sides : T[e][n] \in S \cup {Nil} /\ T[e][n] # n
      /\ \A n \in S, e \in Sides : T[e][n] # Nil => T.parent[T[e][n]] = n
  <2>1. Shape(T, S, sub, pos)
    BY DEF ShortUnder, Short
  <2>2. /\ Nil \notin S /\ S \subseteq Pointers /\ S \subseteq TreeNodes
        /\ Nil \in Pointers /\ T \in Trees
        /\ \A n \in S, e \in Sides : T[e][n] \in S \cup {Nil} /\ T[e][n] # n
        /\ \A n \in S, e \in Sides : T[e][n] # Nil => T.parent[T[e][n]] = n
    BY <2>1, Neighbours
  <2> QED
    BY <2>1, <2>2 DEF ShortUnder, Short
<1>3. ChildOf(T, o, p) = s /\ ColorOf(T, s) = T.color[s]
      /\ T.color[s] \in {"red", "black"}
  BY <1>1, <1>2 DEF ChildOf, ColorOf, Heights
<1>4. CASE T.color[s] = "black"
  <2>1. BlackSibling(T, p, d) = T
    BY <1>3, <1>4 DEF BlackSibling
  <2> QED
    BY <1>4, <2>1 DEF BlackBeside, SameEntries
<1>5. CASE T.color[s] = "red"
  <2>1. BlackSibling(T, p, d) = U
    BY <1>3, <1>5 DEF BlackSibling
  <2> HIDE DEF o, s
  <2>2. ColorIs(T, V, s, "black") /\ V \in Trees
    BY <1>1, <1>2, ColorSet DEF ColorIs
  <2> HIDE DEF V
  <2>3. ColorIs(V, W, p, "red") /\ W \in Trees
    BY <1>2, <2>2, ColorSet DEF ColorIs
  <2> HIDE DEF W
  <2>4. SameLinks(T, W) /\ SameEntries(T, W)
    BY <2>2, <2>3 DEF ColorIs, SameLinks, SameEntries
  <2>5. Shape(W, S, sub, pos) /\ (\A e \in Sides : W[e] = T[e])
        /\ W.root = T.root
    BY <1>2, <2>3, <2>4, ShapeColored DEF SameLinks
  <2>6. \A n \in S : W.color[n] = IF n = p THEN "red"
                                  ELSE IF n = s THEN "black" ELSE T.color[n]
    BY <1>1, <1>2, <2>2, <2>3 DEF ColorIs
  <2>7. s = W[Opposite(d)][p]
    BY <1>1, <2>5 DEF s, o
  <2>8. Turned(W, U, S, p, s, d) /\ Shape(U, S, su, pos)
    BY <1>1, <1>2, <2>5, <2>7, TurnKeepsShape
  <2> HIDE DEF U
  <2>9. /\ SameEntries(T, U) /\ U.color = W.color
        /\ U[d][p] = x /\ U[o][p] = T[d][s]
        /\ U[d][s] = p /\ U[o][s] = T[o][s]
        /\ \A n \in S \ {p, s}, e \in Sides :
               U[e][n] = IF T[e][n] = p THEN s ELSE T[e][n]
        /\ U.root = IF T.root = p THEN s ELSE T.root
    BY <1>1, <1>2, <2>4, <2>5, <2>8 DEF Turned, SameEntries, o
  <2>10. T.color[p] = "black" /\ ColorOf(T, T[d][s]) = "black"
         /\ ColorOf(T, T[o][s]) = "black"
    <3>1. T.color[p] # "red" /\ T.color[p] \in {"red", "black"}
      BY <1>1, <1>2, <1>3, <1>5 DEF Heights, s
    <3> QED
      BY <1>1, <1>5, <3>1
  <2>11. /\ bh \in [Pointers -> Nat] /\ bh[Nil] = 0
         /\ \A n \in S, e \in Sides :
                bh[n] = bh[T[e][n]] + Weight(T, q, n) + (IF n = x THEN 1 ELSE 0)
    BY <1>2 DEF Heights
  <2>12. bh[T[d][s]] = bh[x] /\ bh[T[o][s]] = bh[x] /\ bh[p] = bh[x] + 1
    <3>1. Weight(T, q, s) = 0 /\ Weight(T, q, p) = 1
      BY <1>1, <1>5, <2>10 DEF Weight
    <3>2. bh[T[d][s]] \in Nat /\ bh[T[o][s]] \in Nat
      BY <1>1, <1>2, <2>11
    <3> QED
      BY <1>1, <2>11, <3>1, <3>2
  <2>13. Weight(W, q, p) = 0 /\ Weight(W, q, s) = 1
         /\ \A n \in S \ {p, s} : Weight(W, q, n) = Weight(T, q, n)
    BY <1>1, <2>6 DEF Weight
  <2>14. Heights(U, S, bu, q, x)
    <3>1. \A n \in S : W.color[n] \in {"red", "black"}
      BY <1>2, <2>6 DEF Heights
    <3>2. \A n \in S \ {p, s}, e \in Sides :
            bh[n] = bh[W[e][n]] + Weight(W, q, n) + (IF n = x THEN 1 ELSE 0)
      BY <2>5, <2>11, <2>13
    <3>3. /\ bh[x] = bh[W[d][p]] + Weight(W, q, p)
          /\ bh[x] = bh[W[d][s]] + Weight(W, q, p)
          /\ bh[p] = bh[x] + Weight(W, q, s)
          /\ bh[p] = bh[W[Opposite(d)][s]] + Weight(W, q, s)
      BY <1>1, <1>2, <2>5, <2>12, <2>13 DEF o
    <3> QED
      <4>1. HeightsFit(W, S, bh, q, x, p, s, d, bh[x])
        BY <1>1, <2>11, <3>1, <3>2, <3>3 DEF HeightsFit
      <4> QED
        BY <1>1, <2>5, <2>7, <2>8, <4>1, HeightsTurned
  <2>15. Reds(U, S, Nil, Nil)
    <3>1. ASSUME NEW n \in S \ {p, s}, NEW e \in Sides, W.color[n] = "red"
          PROVE  /\ W[e][n] = p => W.color[s] = "black"
                 /\ W[e][n] # p => ColorOf(W, W[e][n]) = "black"
      <4>1. W.color[s] = "black"
        BY <1>1, <2>6
      <4>2. ColorOf(T, T[e][n]) = "black" /\ T[e][n] \in S \cup {Nil}
        BY <1>1, <1>2, <2>6, <3>1
      <4>3. T[e][n] # p => ColorOf(W, T[e][n]) = "black"
        BY <1>2, <2>6, <4>2 DEF ColorOf
      <4> QED
        BY <2>5, <4>1, <4>3
    <3>2. ColorOf(W, W[d][p]) = "black" /\ ColorOf(W, W[d][s]) = "black"
      <4>1. T[d][s] \in S \cup {Nil} /\ T[d][s] # p /\ T[d][s] # s
        BY <1>1, <1>2
      <4> QED
        BY <1>1, <1>2, <2>5, <2>6, <2>10, <4>1 DEF ColorOf
    <3>3. W.color[s] = "red" =>
              /\ W.color[p] = "black"
              /\ ColorOf(W, W[Opposite(d)][s]) = "black"
      BY <1>1, <2>6
    <3>4. s \in S /\ Nil \notin S
      BY <1>1, <1>2
    <3>5. RedsFit(W, S, p, s, d)
      BY <3>1, <3>2, <3>3 DEF RedsFit
    <3>7. Turned(W, U, S, p, s, d)
      BY <2>8
    <3> QED
      BY <3>4, <3>5, <3>7, RedsTurned
  <2>16. Doomed(U, S, q)
    <3> SUFFICES ASSUME q # Nil
                 PROVE  /\ q \in S /\ U.root # q /\ U.color[q] = "black"
                        /\ \A e \in Sides : U[e][q] = Nil
      BY DEF Doomed
    <3>1. /\ q \in S /\ T.root # q /\ T.color[q] = "black"
          /\ \A e \in Sides : T[e][q] = Nil
      BY <1>2 DEF Doomed
    <3> QED
      BY <1>1, <1>2, <2>6, <2>9, <3>1
  <2>17. U.color[U.root] = "black" /\ U.color[x] = "black"
         /\ U.color[p] = "red"
    BY <1>1, <1>2, <2>6, <2>9
  <2>18. ShortUnder(U, S, su, pos, bu, q, x, p, d)
    <3>1. Reds(U, S, x, Nil)
      BY <1>2, <2>15 DEF Reds
    <3> QED
      BY <1>1, <2>8, <2>9, <2>14, <2>16, <2>17, <3>1 DEF Short, ShortUnder
  <2>19. U.color[U[Opposite(d)][p]] = "black"
    <3>1. bh[T[d][s]] # bh[Nil] /\ T[d][s] \in S
      BY <1>1, <1>2, <2>11, <2>12
    <3>2. T[d][s] # p /\ T[d][s] # s /\ T.color[T[d][s]] = "black"
      BY <1>1, <1>2, <2>10, <3>1 DEF ColorOf
    <3> QED
      BY <2>6, <2>9, <3>1, <3>2 DEF o
  <2> HIDE DEF su, bu
  <2> QED
    BY <2>1, <2>9, <2>17, <2>18, <2>19 DEF BlackBeside
<1> QED
  BY <1>3, <1>4, <1>5

\* The black nodes.
Blacks(T, S) == {n \in S : T.color[n] = "black"}

\* Sibling and nephews are black: the sibling turns red, and p is short.
LEMMA SiblingReddened ==
  ASSUME NEW T, NEW S, NEW sub, NEW pos, NEW bh, NEW q, NEW x,
         NEW p \in S, NEW d \in Sides,
         ShortUnder(T, S, sub, pos, bh, q, x, p, d),
         NEW s, s = T[Opposite(d)][p], T.color[s] = "black",
         \A e \in Sides : ColorOf(T, T[e][s]) = "black"
  PROVE  LET U == SetColor(T, s, "red")
         IN /\ \E bu : Short(U, S, sub, pos, bu, q, p)
            /\ SameEntries(T, U)
            /\ Cardinality(Blacks(U, S)) \in Nat
            /\ Cardinality(Blacks(T, S)) \in Nat
            /\ Cardinality(Blacks(U, S)) < Cardinality(Blacks(T, S))
            /\ U.color[p] = T.color[p]
<1> DEFINE o == Opposite(d)
           U == SetColor(T, s, "red")
           bu == [bh EXCEPT ![x] = bh[x] - 1, ![s] = bh[s] - 1]
<1>1. /\ Flanked(T, x, p, d, o, s) /\ Placed(T, S, q, x, p, s)
      /\ Meshed(T, S) /\ Hued(T, S, x) /\ Deep(T, S, bh, q, x, p, s)
      /\ T \in Trees /\ Shape(T, S, sub, pos) /\ Doomed(T, S, q)
  BY Siblings DEF Beside
<1> HIDE DEF o
<1>2. ColorIs(T, U, s, "red") /\ U \in Trees
  BY <1>1, ColorSet, Zenon DEF ColorIs, Flanked, Placed, Meshed
<1> HIDE DEF U
<1>3. SameLinks(T, U) /\ SameEntries(T, U)
  BY <1>2 DEF ColorIs
<1>4. Shape(U, S, sub, pos) /\ (\A e \in Sides : U[e] = T[e])
      /\ U.root = T.root
  BY <1>1, <1>2, <1>3, ShapeColored DEF SameLinks, Flanked, Placed,
     Meshed
<1>5. \A n \in S : U.color[n] = IF n = s THEN "red" ELSE T.color[n]
  BY <1>1, <1>2 DEF ColorIs, Flanked, Placed, Meshed, Hued
<1>6. Heights(U, S, bu, q, p)
  <2>1. /\ bu \in [Pointers -> Nat] /\ bu[Nil] = 0
        /\ \A n \in S \cup {Nil} : bu[n] = IF n \in {x, s} THEN bh[n] - 1
                                           ELSE bh[n]
    BY <1>1 DEF Flanked, Placed, Meshed, Deep
  <2> HIDE DEF bu
  <2>2. \A n \in S : U.color[n] \in {"red", "black"}
    BY <1>1, <1>5 DEF Hued
  <2>3. ASSUME NEW n \in S, NEW e \in Sides
        PROVE  bu[n] = bu[U[e][n]] + Weight(U, q, n) + (IF n = p THEN 1 ELSE 0)
    <3>1. bh[n] = bh[T[e][n]] + Weight(T, q, n) + (IF n = x THEN 1 ELSE 0)
      BY <1>1 DEF Flanked, Placed, Meshed, Deep
    <3>2. Weight(T, q, n) \in Nat /\ bh[T[e][n]] \in Nat
          /\ T[e][n] \in S \cup {Nil} /\ U[e][n] = T[e][n]
      <4>1. T[e][n] \in S \cup {Nil} /\ T[e][n] \in Pointers
        BY <1>1 DEF Flanked, Placed, Meshed, Deep
      <4> QED
        BY <1>1, <1>4, <4>1 DEF Weight, Flanked, Placed, Meshed, Deep
    <3>3. CASE n = p
      <4>1. T[e][n] \in {x, s} /\ bh[T[e][n]] = bh[x]
        BY <1>1, <3>3 DEF Flanked, Placed, Meshed, Deep
      <4>2. bu[T[e][n]] = bh[x] - 1 /\ bu[n] = bh[n]
        BY <1>1, <2>1, <3>3, <4>1 DEF Flanked, Placed, Meshed
      <4>3. Weight(U, q, n) = Weight(T, q, n) /\ n # x
        BY <1>1, <1>5, <3>3 DEF Flanked, Placed, Meshed, Weight
      <4> QED
        BY <1>1, <3>1, <3>2, <3>3, <4>1, <4>2, <4>3 DEF Flanked,
           Placed, Meshed
    <3>4. CASE n # p
      <4>1. T[e][n] \notin {x, s}
        BY <1>1, <3>4 DEF Flanked, Placed, Meshed, Deep
      <4>2. bu[T[e][n]] = bh[T[e][n]]
        BY <2>1, <3>2, <4>1
      <4>3. CASE n = s
        <5>1. Weight(T, q, n) = 1 /\ Weight(U, q, n) = 0 /\ n # x
          BY <1>1, <1>5, <4>3 DEF Flanked, Placed, Meshed, Deep,
             Weight
        <5> QED
          BY <2>1, <3>1, <3>2, <3>4, <4>2, <4>3, <5>1
      <4>4. CASE n # s
        <5>1. Weight(U, q, n) = Weight(T, q, n)
          BY <1>5, <4>4 DEF Weight
        <5> QED
          BY <2>1, <3>1, <3>2, <3>4, <4>2, <4>4, <5>1
      <4> QED
        BY <4>3, <4>4
    <3> QED
      BY <3>3, <3>4
  <2> QED
    BY <2>1, <2>2, <2>3 DEF Heights
<1>7. Reds(U, S, p, Nil)
  <2>1. ASSUME NEW n \in S \ {p}, NEW e \in Sides, U.color[n] = "red"
        PROVE  ColorOf(U, U[e][n]) = "black"
    <3>1. ColorOf(T, T[e][n]) = "black"
      BY <1>1, <1>5, <2>1 DEF Flanked, Placed, Meshed, Hued
    <3>2. T[e][n] # s /\ T[e][n] \in S \cup {Nil}
      BY <1>1 DEF Flanked, Placed, Meshed, Hued, Deep
    <3> QED
      BY <1>1, <1>4, <1>5, <3>1, <3>2 DEF Flanked, Placed, Meshed,
         ColorOf
  <2> QED
    BY <2>1 DEF Reds
<1>8. U.color[U.root] = "black" /\ U.color[p] = T.color[p]
  BY <1>1, <1>4, <1>5 DEF Flanked, Placed, Meshed, Hued
<1>9. Doomed(U, S, q)
  BY <1>1, <1>4, <1>5 DEF Flanked, Placed, Meshed, Hued, Doomed
<1>10. Short(U, S, sub, pos, bu, q, p)
  BY <1>4, <1>6, <1>7, <1>8, <1>9 DEF Short
<1>11. /\ Cardinality(Blacks(U, S)) \in Nat
       /\ Cardinality(Blacks(T, S)) \in Nat
       /\ Cardinality(Blacks(U, S)) < Cardinality(Blacks(T, S))
  <2> DEFINE B == Blacks(T, S)
  <2>1. IsFiniteSet(S) /\ B \subseteq S
    BY <1>4, Shrinks DEF Blacks
  <2>2. IsFiniteSet(B)
    BY <2>1, FS_Subset
  <2>3. Blacks(U, S) = B \ {s} /\ s \in B
    BY <1>1, <1>5 DEF Blacks, Flanked, Placed, Meshed
  <2> HIDE DEF B
  <2>4. Cardinality(Blacks(U, S)) = Cardinality(B) - 1
        /\ IsFiniteSet(Blacks(U, S))
    BY <2>2, <2>3, FS_RemoveElement, SMTT(30)
  <2>5. Cardinality(B) \in Nat /\ Cardinality(Blacks(U, S)) \in Nat
    BY <2>2, <2>4, FS_CardinalityType
  <2> QED
    BY <2>4, <2>5 DEF B
<1> HIDE DEF bu
<1> QED
  BY <1>3, <1>8, <1>10, <1>11 DEF U

\* x's sibling is black, and the nephew on the far side is red.
RedBeyond(T, V, S, pos, q, x, p, d) ==
    /\ \E su, bu : ShortUnder(V, S, su, pos, bu, q, x, p, d)
    /\ SameEntries(T, V)
    /\ LET s == V[Opposite(d)][p]
       IN V.color[s] = "black" /\ ColorOf(V, V[Opposite(d)][s]) = "red"

\* RedOutside makes the outer child of the sibling red.
LEMMA RedGoesOutside ==
  ASSUME NEW T, NEW S, NEW sub, NEW pos, NEW bh, NEW q, NEW x,
         NEW p \in S, NEW d \in Sides,
         ShortUnder(T, S, sub, pos, bh, q, x, p, d),
         NEW s, s = T[Opposite(d)][p], T.color[s] = "black",
         ~(\A e \in Sides : ColorOf(T, T[e][s]) = "black")
  PROVE  RedBeyond(T, RedOutside(T, p, d), S, pos, q, x, p, d)
<1> DEFINE o == Opposite(d)
           i == T[d][s]
           V == SetColor(T, i, "black")
           W == SetColor(V, s, "red")
           U == Rotate(W, s, o)
           hx == bh[x] - 1
           su == TurnedSub(W, sub, s, i, o)
           bu == [bh EXCEPT ![i] = bh[s], ![s] = hx]
<1> HIDE DEF V, W, U, hx, su, bu
<1>1. /\ Flanked(T, x, p, d, o, s) /\ Placed(T, S, q, x, p, s)
      /\ Meshed(T, S) /\ Hued(T, S, x) /\ Deep(T, S, bh, q, x, p, s)
      /\ T \in Trees /\ Shape(T, S, sub, pos) /\ Doomed(T, S, q)
  BY Siblings DEF Beside
<1>2. ChildOf(T, o, p) = s /\ ChildOf(T, o, s) = T[o][s] /\ ChildOf(T, d, s) = i
  BY <1>1 DEF ChildOf, Flanked, Placed, Meshed, Deep
<1>3. \A e \in Sides : ColorOf(T, T[e][s]) \in {"red", "black"}
  BY <1>1 DEF Flanked, Placed, Meshed, Hued, ColorOf
<1>4. CASE ColorOf(T, T[o][s]) # "black"
  <2>1. RedOutside(T, p, d) = T
    BY <1>2, <1>4 DEF RedOutside
  <2>2. ColorOf(T, T[o][s]) = "red"
    BY <1>1, <1>3, <1>4 DEF Flanked, Placed, Meshed
  <2> QED
    BY <2>1, <2>2 DEF RedBeyond, SameEntries
<1>5. CASE ColorOf(T, T[o][s]) = "black"
  <2>1. RedOutside(T, p, d) = U
    BY <1>2, <1>5 DEF RedOutside, V, W, U
  <2> HIDE DEF o, i
  <2>2. /\ i \in S /\ T.color[i] = "red" /\ T.parent[i] = s
        /\ i # s /\ i # p /\ i # x /\ i # q /\ i # Nil /\ T[o][s] # i
    <3>1. ColorOf(T, i) = "red"
      BY <1>1, <1>3, <1>5 DEF Flanked, i
    <3>2. i \in S /\ T.color[i] = "red" /\ i # Nil
      BY <1>1, <3>1 DEF Flanked, Placed, Meshed, ColorOf, i
    <3>3. T.parent[i] = s /\ i # s /\ i # p /\ i # x
      BY <1>1, <3>2 DEF Flanked, Placed, Meshed, i
    <3>4. i # q
      BY <1>1, <3>2 DEF Flanked, Placed, Meshed, Doomed
    <3>5. T[o][s] # i
      BY <1>5, <3>1
    <3> QED
      BY <3>2, <3>3, <3>4, <3>5
  <2> DEFINE l == T[o][i]
             r == T[d][i]
             w == T[o][s]
  <2> HIDE DEF l, r, w
  <2>3. /\ {l, r, w} \subseteq S \cup {Nil}
        /\ {l, r} \cap {i, s} = {} /\ w \notin {i, s}
        /\ ColorOf(T, l) = "black" /\ ColorOf(T, r) = "black"
    <3>1. {l, r, w} \subseteq S \cup {Nil} /\ l # i /\ r # i /\ w # s
      BY <1>1, <2>2 DEF Flanked, Placed, Meshed, l, r, w
    <3>2. l # s /\ r # s
      BY <1>1, <2>2, Neighbours DEF Flanked, Placed, l, r
    <3>3. ColorOf(T, l) = "black" /\ ColorOf(T, r) = "black"
      BY <1>1, <2>2 DEF Flanked, Hued, l, r
    <3>4. w # i
      BY <2>2 DEF w
    <3> QED
      BY <3>1, <3>2, <3>3, <3>4
  <2>4. /\ bh[w] = hx /\ bh[i] = hx /\ bh[l] = hx /\ bh[r] = hx
        /\ hx \in Nat /\ bh[s] = hx + 1
    <3>1. Weight(T, q, s) = 1 /\ Weight(T, q, i) = 0
      BY <1>1, <2>2 DEF Weight, Flanked, Placed, Meshed, Hued, Deep
    <3>2. /\ bh[s] = bh[w] + 1 /\ bh[s] = bh[i] + 1
          /\ bh[i] = bh[l] /\ bh[i] = bh[r]
      <4>1. /\ bh[w] \in Nat /\ bh[i] \in Nat /\ bh[l] \in Nat
            /\ bh[r] \in Nat
        <5>1. \A n \in S \cup {Nil} : bh[n] \in Nat
          BY <1>1 DEF Flanked, Placed, Meshed, Deep
        <5> QED
          BY <2>2, <2>3, <5>1
      <4>2. /\ bh[s] = bh[w] + Weight(T, q, s) + 0
            /\ bh[s] = bh[i] + Weight(T, q, s) + 0
            /\ bh[i] = bh[l] + Weight(T, q, i) + 0
            /\ bh[i] = bh[r] + Weight(T, q, i) + 0
        BY <1>1, <2>2 DEF Flanked, Placed, Deep, i, l, r, w
      <4> DEFINE bs == bh[s]
                 bw == bh[w]
                 bi == bh[i]
                 bl == bh[l]
                 br == bh[r]
      <4>3. /\ bs = bw + 1 + 0 /\ bs = bi + 1 + 0
            /\ bi = bl + 0 + 0 /\ bi = br + 0 + 0
            /\ bw \in Nat /\ bi \in Nat /\ bl \in Nat /\ br \in Nat
        BY <3>1, <4>1, <4>2
      <4> HIDE DEF bs, bw, bi, bl, br
      <4>4. /\ bs = bw + 1 /\ bs = bi + 1 /\ bi = bl /\ bi = br
        BY <4>3
      <4> QED
        BY <4>4 DEF bs, bw, bi, bl, br
    <3>3. \A n \in S \cup {Nil} : bh[n] \in Nat
      BY <1>1 DEF Flanked, Placed, Meshed, Deep
    <3>4. bh[w] \in Nat /\ bh[i] \in Nat
      BY <2>2, <2>3, <3>3
    <3>5. bh[s] = bh[x] /\ bh[x] \in Nat
      BY <1>1 DEF Flanked, Placed, Meshed, Deep
    <3> QED
      BY <3>2, <3>4, <3>5 DEF hx
  <2>5. ColorIs(T, V, i, "black") /\ V \in Trees
    <3>1. T \in Trees /\ i \in Pointers
      BY <1>1, <2>2 DEF Meshed
    <3>2. ColorIs(T, V, i, "black")
      BY <3>1, ColorSet DEF V
    <3> QED
      BY <3>2 DEF ColorIs
  <2>6. ColorIs(V, W, s, "red") /\ W \in Trees
    <3>1. s \in Pointers
      BY <1>1 DEF Placed, Meshed
    <3>2. ColorIs(V, W, s, "red")
      BY <2>5, <3>1, ColorSet DEF W
    <3> QED
      BY <3>2 DEF ColorIs
  <2>7. SameLinks(T, W) /\ SameEntries(T, W)
    BY <2>5, <2>6 DEF ColorIs, SameLinks, SameEntries
  <2>8. Shape(W, S, sub, pos) /\ (\A e \in Sides : W[e] = T[e])
        /\ W.root = T.root
    BY <1>1, <2>6, <2>7, ShapeColored DEF SameLinks, Flanked, Placed,
       Meshed, Hued
  <2>9. \A n \in S : W.color[n] = IF n = s THEN "red"
                                  ELSE IF n = i THEN "black" ELSE T.color[n]
    BY <1>1, <2>2, <2>5, <2>6 DEF ColorIs, Flanked, Placed, Meshed
  <2>10. i = W[Opposite(o)][s] /\ o \in Sides /\ s \in S
    BY <1>1, <2>8 DEF i, Flanked, Placed, Meshed
  <2>11. Turned(W, U, S, s, i, o) /\ Shape(U, S, su, pos)
    BY <2>2, <2>8, <2>10, TurnKeepsShape DEF U, su
  <2>12. /\ SameEntries(T, U) /\ U.color = W.color
         /\ U[o][i] = s
         /\ \A n \in S \ {s, i}, e \in Sides :
                U[e][n] = IF T[e][n] = s THEN i ELSE T[e][n]
         /\ U.root = T.root
    BY <1>1, <2>7, <2>8, <2>11 DEF Turned, SameEntries, Flanked,
       Placed, Meshed
  <2>13. U[d][p] = x /\ U[o][p] = i
    BY <1>1, <2>2, <2>12 DEF Flanked, Placed, Meshed
  <2>14. Weight(W, q, s) = 0 /\ Weight(W, q, i) = 1
         /\ \A n \in S \ {s, i} : Weight(W, q, n) = Weight(T, q, n)
    BY <1>1, <2>2, <2>9 DEF Weight, Flanked, Placed, Meshed
  <2>15. Heights(U, S, bu, q, x)
    <3>1. \A n \in S : W.color[n] \in {"red", "black"}
      BY <1>1, <2>9 DEF Hued
    <3>2. \A n \in S \ {s, i}, e \in Sides :
            bh[n] = bh[W[e][n]] + Weight(W, q, n) + (IF n = x THEN 1 ELSE 0)
      BY <1>1, <2>8, <2>14 DEF Flanked, Placed, Meshed, Deep
    <3>3. /\ hx = bh[W[o][s]] + Weight(W, q, s)
          /\ hx = bh[W[o][i]] + Weight(W, q, s)
          /\ bh[s] = hx + Weight(W, q, i)
          /\ bh[s] = bh[W[Opposite(o)][i]] + Weight(W, q, i)
      BY <1>1, <2>4, <2>8, <2>14 DEF Flanked, Placed, Meshed, Hued,
         l, r, w
    <3>4. bh \in [Pointers -> Nat] /\ bh[Nil] = 0 /\ s # x
      BY <1>1 DEF Flanked, Placed, Meshed, Hued, Deep
    <3> QED
      <4>1. HeightsFit(W, S, bh, q, x, s, i, o, hx)
        BY <2>2, <2>4, <3>1, <3>2, <3>3, <3>4, Zenon DEF HeightsFit
      <4> QED
        BY <2>2, <2>8, <2>10, <2>11, <4>1, HeightsTurned, Zenon DEF bu
  <2>16. Reds(U, S, Nil, Nil)
    <3>1. ASSUME NEW n \in S \ {s, i}, NEW e \in Sides, W.color[n] = "red"
          PROVE  /\ W[e][n] = s => W.color[i] = "black"
                 /\ W[e][n] # s => ColorOf(W, W[e][n]) = "black"
      <4>1. W.color[i] = "black"
        BY <2>2, <2>9
      <4>2. ColorOf(T, T[e][n]) = "black" /\ T[e][n] \in S \cup {Nil}
        BY <1>1, <2>9, <3>1 DEF Flanked, Placed, Meshed, Hued, Deep
      <4>3. T[e][n] # s => ColorOf(W, T[e][n]) = "black"
        BY <1>1, <2>9, <4>2 DEF ColorOf, Flanked, Placed, Meshed
      <4> QED
        BY <2>8, <4>1, <4>3
    <3>2. ColorOf(W, W[o][s]) = "black" /\ ColorOf(W, W[o][i]) = "black"
      <4>1. W[o][s] = w /\ W[o][i] = l /\ ColorOf(T, w) = "black"
        BY <1>1, <1>5, <2>8 DEF w, l, o, Flanked, Placed, Meshed
      <4>2. ColorOf(W, w) = "black" /\ ColorOf(W, l) = "black"
        BY <1>1, <2>3, <2>9, <4>1, ZenonT(60) DEF ColorOf, Flanked, Placed,
           Meshed
      <4> QED
        BY <4>1, <4>2
    <3>3. W.color[i] # "red"
      BY <2>2, <2>9
    <3>4. Nil \notin S
      BY <1>1 DEF Flanked, Placed, Meshed
    <3>5. RedsFit(W, S, s, i, o)
      BY <3>1, <3>2, <3>3 DEF RedsFit
    <3> QED
      BY <2>2, <2>10, <2>11, <3>4, <3>5, RedsTurned
  <2>17. Doomed(U, S, q)
    BY <1>1, <2>2, <2>9, <2>12 DEF Doomed, Flanked, Placed, Meshed
  <2>18. U.color[U.root] = "black" /\ U.color[x] = "black"
         /\ U.color[i] = "black" /\ U.color[s] = "red"
    BY <1>1, <2>2, <2>9, <2>12 DEF Flanked, Placed, Meshed, Hued
  <2>19. ShortUnder(U, S, su, pos, bu, q, x, p, d)
    <3>1. Reds(U, S, x, Nil) /\ x \in S
      BY <1>1, <2>16 DEF Reds, Flanked, Placed, Meshed
    <3> QED
      BY <2>11, <2>13, <2>15, <2>17, <2>18, <3>1 DEF Short, ShortUnder
  <2>20. U.color[U[o][p]] = "black" /\ ColorOf(U, U[o][U[o][p]]) = "red"
    BY <1>1, <2>12, <2>13, <2>18 DEF ColorOf, Placed,
       Meshed
  <2> QED
    BY <2>1, <2>12, <2>19, <2>20 DEF RedBeyond, o
<1> QED
  BY <1>4, <1>5

-----------------------------------------------------------------------------
(* Deletion: the loop *)

\* Nobody is short any more; q may go.
Calm(T, S, sub, pos, bh, q) ==
    /\ Shape(T, S, sub, pos)
    /\ Heights(T, S, bh, q, Nil)
    /\ Reds(T, S, Nil, Nil)
    /\ ColorOf(T, T.root) = "black"
    /\ Doomed(T, S, q)

\* U is T, mended but for q.
CalmAfter(T, U, S, pos, q) ==
    /\ \E su, bu : Calm(U, S, su, pos, bu, q)
    /\ SameEntries(T, U)

\* SiblingUp mends the tree.
LEMMA SiblingGoesUp ==
  ASSUME NEW T, NEW S, NEW sub, NEW pos, NEW bh, NEW q, NEW x,
         NEW p \in S, NEW d \in Sides,
         ShortUnder(T, S, sub, pos, bh, q, x, p, d),
         NEW s, s = T[Opposite(d)][p], T.color[s] = "black",
         ColorOf(T, T[Opposite(d)][s]) = "red"
  PROVE  CalmAfter(T, SiblingUp(T, p, d), S, pos, q)
<1> DEFINE o == Opposite(d)
           w == T[o][s]
           i == T[d][s]
           c == T.color[p]
           A == SetColor(T, s, c)
           V == SetColor(A, p, "black")
           W == SetColor(V, w, "black")
           U == Rotate(W, p, d)
           su == TurnedSub(W, sub, p, s, d)
           h == [bh EXCEPT ![w] = bh[w] + 1, ![x] = bh[x] - 1]
           bu == [h EXCEPT ![s] = h[p], ![p] = bh[x]]
<1>1. /\ Flanked(T, x, p, d, o, s) /\ Placed(T, S, q, x, p, s)
      /\ Meshed(T, S) /\ Hued(T, S, x) /\ Deep(T, S, bh, q, x, p, s)
      /\ T \in Trees /\ Shape(T, S, sub, pos) /\ Doomed(T, S, q)
  BY Siblings DEF Beside
<1>2. SiblingUp(T, p, d) = U
  <2>1. ChildOf(T, o, p) = s /\ ChildOf(T, o, s) = w /\ ColorOf(T, p) = c
    BY <1>1 DEF ChildOf, ColorOf, Flanked, Placed, Meshed
  <2> QED
    BY <2>1 DEF SiblingUp
<1>3. /\ w \in S /\ T.color[w] = "red" /\ T.parent[w] = s
      /\ w # s /\ w # p /\ w # x /\ w # q /\ w # Nil /\ i # w
      /\ i \in S \cup {Nil} /\ i \notin {s, p, x}
  <2>1. w \in S /\ T.color[w] = "red" /\ w # Nil
    BY <1>1 DEF Flanked, Placed, Meshed, ColorOf
  <2>2. T.parent[w] = s /\ w # s /\ w # p /\ w # x
    BY <1>1, <2>1 DEF Flanked, Placed, Meshed
  <2>3. w # q
    BY <1>1, <2>1 DEF Flanked, Placed, Meshed, Doomed
  <2>4. i # w
    BY <1>1, <2>1, Neighbours DEF Flanked, Placed, Meshed, Hued
  <2>5. i \in S \cup {Nil} /\ i \notin {s, p, x}
    BY <1>1 DEF Flanked, Placed, Meshed, Hued
  <2> QED
    BY <2>1, <2>2, <2>3, <2>4, <2>5
<1> HIDE DEF o, w
<1>4. c \in {"red", "black"}
  BY <1>1 DEF Flanked, Placed, Meshed, Hued, Heights
<1>5. ColorIs(T, A, s, c) /\ A \in Trees
  <2> HIDE DEF c
  <2>1. T \in Trees /\ s \in Pointers
    BY <1>1 DEF Flanked, Placed, Meshed
  <2>2. ColorIs(T, A, s, c)
    BY <1>4, <2>1, ColorSet
  <2> QED
    BY <2>2 DEF ColorIs
<1> HIDE DEF A
<1>6. ColorIs(A, V, p, "black") /\ V \in Trees
  BY <1>1, <1>5, ColorSet DEF ColorIs, Flanked, Placed, Meshed
<1> HIDE DEF V
<1>7. ColorIs(V, W, w, "black") /\ W \in Trees
  BY <1>1, <1>3, <1>6, ColorSet DEF ColorIs, Flanked, Placed, Meshed,
     Deep
<1> HIDE DEF W
<1>8. SameLinks(T, W) /\ SameEntries(T, W)
  BY <1>5, <1>6, <1>7 DEF ColorIs, SameLinks, SameEntries
<1>9. Shape(W, S, sub, pos) /\ (\A e \in Sides : W[e] = T[e])
      /\ W.root = T.root
  BY <1>1, <1>7, <1>8, ShapeColored DEF SameLinks, Flanked, Placed,
     Meshed
<1>10. \A n \in S : W.color[n] = IF n \in {p, w} THEN "black"
                                 ELSE IF n = s THEN c ELSE T.color[n]
  BY <1>1, <1>3, <1>5, <1>6, <1>7 DEF ColorIs, Flanked, Placed,
     Meshed
<1>11. s = W[Opposite(d)][p]
  BY <1>1, <1>9 DEF o, Flanked, Placed, Meshed
<1>12. Turned(W, U, S, p, s, d) /\ Shape(U, S, su, pos)
  BY <1>1, <1>9, <1>11, TurnKeepsShape DEF Flanked, Placed, Meshed
<1> HIDE DEF U
<1>13. /\ SameEntries(T, U) /\ U.color = W.color
       /\ U[d][s] = p
       /\ \A n \in S \ {p, s}, e \in Sides :
              U[e][n] = IF T[e][n] = p THEN s ELSE T[e][n]
       /\ U.root = IF T.root = p THEN s ELSE T.root
  BY <1>1, <1>8, <1>9, <1>12 DEF Turned, SameEntries, Flanked,
     Placed, Meshed
<1>14. /\ Weight(W, q, p) = 1 /\ Weight(W, q, w) = 1
       /\ Weight(W, q, s) = Weight(T, q, p)
       /\ Weight(T, q, w) = 0 /\ Weight(T, q, s) = 1
       /\ \A n \in S \ {p, s, w} : Weight(W, q, n) = Weight(T, q, n)
  BY <1>1, <1>3, <1>10 DEF Weight, Flanked, Placed, Meshed, Hued
<1>15. /\ h \in [Pointers -> Nat] /\ h[Nil] = 0
       /\ \A n \in S \cup {Nil} : h[n] = IF n = w THEN bh[n] + 1
                                         ELSE IF n = x THEN bh[n] - 1 ELSE bh[n]
       /\ \A n \in S \cup {Nil} : bh[n] \in Nat
  BY <1>1, <1>3 DEF Flanked, Placed, Meshed, Hued, Deep
<1> HIDE DEF h
<1>16. bh[i] = bh[x] - 1 /\ bh[w] = bh[x] - 1
  <2>1. /\ bh[s] = bh[i] + Weight(T, q, s) + 0
        /\ bh[s] = bh[w] + Weight(T, q, s) + 0
    BY <1>1 DEF Flanked, Placed, Meshed, Deep, w
  <2>2. bh[i] \in Nat /\ bh[w] \in Nat /\ bh[s] = bh[x] /\ bh[s] \in Nat
    BY <1>1, <1>3, <1>15 DEF Flanked, Placed, Meshed, Deep
  <2> HIDE DEF i
  <2> QED
    BY <1>14, <2>1, <2>2
<1>17. ASSUME NEW n \in S \ {p, s}, NEW e \in Sides
       PROVE  h[n] = h[W[e][n]] + Weight(W, q, n) + (IF n = Nil THEN 1 ELSE 0)
  <2>1. W[e][n] = T[e][n] /\ T[e][n] \in S \cup {Nil} /\ n # Nil
        /\ T[e][n] \notin {w, x}
    BY <1>1, <1>3, <1>9 DEF Flanked, Placed, Meshed
  <2>2. h[W[e][n]] = bh[T[e][n]] /\ bh[T[e][n]] \in Nat
    BY <1>15, <2>1
  <2>3. bh[n] = bh[T[e][n]] + Weight(T, q, n) + (IF n = x THEN 1 ELSE 0)
    BY <1>1 DEF Flanked, Placed, Meshed, Deep
  <2>4. Weight(T, q, n) \in Nat
    BY DEF Weight
  <2>5. CASE n = w
    BY <1>3, <1>14, <1>15, <2>1, <2>2, <2>3, <2>5
  <2>6. CASE n = x
    BY <1>3, <1>14, <1>15, <2>1, <2>2, <2>3, <2>4, <2>6
  <2>7. CASE n \notin {w, x}
    BY <1>14, <1>15, <2>1, <2>2, <2>3, <2>7
  <2> QED
    BY <2>5, <2>6, <2>7
<1>18. Heights(U, S, bu, q, Nil)
  <2>1. \A n \in S : W.color[n] \in {"red", "black"}
    BY <1>1, <1>4, <1>10 DEF Hued
  <2>2. /\ W[d][p] = x /\ W[d][s] = i /\ W[Opposite(d)][s] = w
    BY <1>1, <1>9 DEF Flanked, Placed, Meshed, w
  <2>3. /\ h[x] = bh[x] - 1 /\ h[i] = bh[i] /\ h[w] = bh[w] + 1
        /\ h[p] = bh[x] + Weight(T, q, p)
    BY <1>1, <1>3, <1>15 DEF Flanked, Placed, Meshed, Deep
  <2>4. bh[x] \in Nat /\ Weight(T, q, p) \in Nat
    BY <1>1 DEF Flanked, Placed, Meshed, Deep, Weight
  <2>5. /\ bh[x] = h[W[d][p]] + Weight(W, q, p)
        /\ bh[x] = h[W[d][s]] + Weight(W, q, p)
        /\ h[p] = bh[x] + Weight(W, q, s)
        /\ h[p] = h[W[Opposite(d)][s]] + Weight(W, q, s)
    BY <1>14, <1>16, <2>2, <2>3, <2>4
  <2>6. p # Nil /\ s # Nil /\ s \in S
    BY <1>1 DEF Flanked, Placed, Meshed
  <2> QED
    <3>1. HeightsFit(W, S, h, q, Nil, p, s, d, bh[x])
      BY <1>15, <1>17, <2>1, <2>4, <2>5, <2>6 DEF HeightsFit
    <3> QED
      BY <1>9, <1>11, <1>12, <2>6, <3>1, HeightsTurned
<1>19. Reds(U, S, Nil, Nil)
  <2>1. ASSUME NEW n \in S \ {p, s}, NEW e \in Sides, W.color[n] = "red"
        PROVE  /\ W[e][n] = p => W.color[s] = "black"
               /\ W[e][n] # p => ColorOf(W, W[e][n]) = "black"
    <3>1. ColorOf(T, T[e][n]) = "black" /\ T[e][n] \in S \cup {Nil}
          /\ T[e][n] # s
      BY <1>1, <1>10, <2>1 DEF Flanked, Placed, Meshed, Hued
    <3>2. T[e][n] = p => W.color[s] = "black"
      BY <1>1, <1>3, <1>10, <3>1 DEF ColorOf, Flanked, Placed, Meshed, Hued, Deep
    <3>3. T[e][n] # p => ColorOf(W, T[e][n]) = "black"
      BY <1>1, <1>10, <3>1 DEF ColorOf, Flanked, Placed, Meshed, Hued, Deep
    <3> QED
      BY <1>9, <3>2, <3>3
  <2>2. W.color[p] = "black" /\ ColorOf(W, W[Opposite(d)][s]) = "black"
    BY <1>1, <1>3, <1>9, <1>10 DEF Flanked, Placed, Meshed, Hued, Deep, ColorOf, w
  <2>3. Nil \notin S /\ s \in S
    BY <1>1 DEF Flanked, Placed, Meshed, Deep
  <2>4. RedsFit(W, S, p, s, d)
    BY <2>1, <2>2 DEF RedsFit
  <2> QED
    BY <1>12, <2>3, <2>4, RedsTurned
<1>20. Doomed(U, S, q)
  BY <1>1, <1>3, <1>10, <1>13 DEF Doomed, Flanked, Placed, Meshed
<1>21. ColorOf(U, U.root) = "black"
  BY <1>1, <1>3, <1>10, <1>13 DEF ColorOf, Flanked, Placed, Meshed,
     Hued
<1>22. Calm(U, S, su, pos, bu, q)
  BY <1>12, <1>18, <1>19, <1>20, <1>21 DEF Calm
<1> HIDE DEF su, bu
<1> QED
  BY <1>2, <1>13, <1>22 DEF CalmAfter

\* BlackSibling,
LEMMA BlackSiblingTypes ==
  ASSUME NEW T \in Trees, NEW p \in Pointers, NEW d \in Sides
  PROVE  BlackSibling(T, p, d) \in Trees
<1> DEFINE s == ChildOf(T, Opposite(d), p)
           V == SetColor(T, s, "black")
           W == SetColor(V, p, "red")
<1>1. s \in Pointers
  BY OtherSide, FieldOf
<1>2. V \in Trees
  BY <1>1, ColorSet DEF ColorIs
<1>3. BlackSibling(T, p, d) = IF ColorOf(T, s) = "red" THEN Rotate(W, p, d)
                              ELSE T
  BY DEF BlackSibling
<1>4. ColorOf(T, s) = "red" => p \in TreeNodes
  BY DEF ColorOf, ChildOf, Pointers
<1> HIDE DEF V
<1>5. W \in Trees
  BY <1>2, ColorSet DEF ColorIs
<1> HIDE DEF W, s
<1> QED
  BY <1>3, <1>4, <1>5, RotateTurns

\* Mended and
LEMMA MendedTypes ==
  ASSUME NEW T \in Trees, NEW p \in Pointers, NEW d \in Sides
  PROVE  Mended(T, p, d) \in LoopTurns
<1> DEFINE o == Opposite(d)
           s == ChildOf(T, o, p)
           U == SetColor(T, s, "red")
           R == RedOutside(T, p, d)
           X == SiblingUp(R, p, d)
           Last == \A e \in {"left", "right"} : ColorOf(T, ChildOf(T, e, s)) = "black"
<1>0. o \in Sides /\ Opposite(o) = d
  BY OtherSide
<1>1. s \in Pointers
  BY <1>0, FieldOf
<1>2. Mended(T, p, d) = IF Last THEN [tree |-> U, node |-> p]
                        ELSE [tree |-> X, node |-> X.root]
  BY DEF Mended
<1>3. U \in Trees
  BY <1>1, ColorSet DEF ColorIs
<1>4. ASSUME ~Last PROVE X \in Trees
  <2>1. s # Nil /\ s \in TreeNodes /\ p \in TreeNodes
    <3>1. s # Nil
      BY <1>4 DEF ColorOf, ChildOf
    <3> QED
      BY <1>1, <3>1 DEF Pointers, ChildOf
  <2>2. R \in Trees
    <3> DEFINE A == SetColor(T, ChildOf(T, d, s), "black")
               B == SetColor(A, s, "red")
    <3>1. A \in Trees
      <4>1. ChildOf(T, d, s) \in Pointers
        BY <1>1, FieldOf
      <4> QED
        BY <4>1, ColorSet DEF ColorIs
    <3>2. R = IF ColorOf(T, ChildOf(T, o, s)) = "black" THEN Rotate(B, s, o)
              ELSE T
      BY DEF RedOutside
    <3> HIDE DEF A, R
    <3>3. B \in Trees
      BY <1>1, <3>1, ColorSet DEF ColorIs
    <3> HIDE DEF B, s, o
    <3> QED
      BY <1>0, <2>1, <3>2, <3>3, RotateTurns
  <2> HIDE DEF R
  <2> DEFINE t == ChildOf(R, o, p)
             A == SetColor(R, t, ColorOf(R, p))
             B == SetColor(A, p, "black")
             w == ChildOf(R, o, t)
             C == SetColor(B, w, "black")
  <2>3. /\ t \in Pointers /\ w \in Pointers
        /\ ColorOf(R, p) \in {"red", "black", Nil}
    <3>1. t \in Pointers /\ ColorOf(R, p) \in {"red", "black", Nil}
      BY <1>0, <2>2, FieldOf
    <3> HIDE DEF t
    <3> QED
      BY <1>0, <2>2, <3>1, FieldOf
  <2>4. X = Rotate(C, p, d)
    BY DEF SiblingUp
  <2> HIDE DEF X, t, w
  <2>5. A \in Trees
    BY <2>2, <2>3, ColorSet DEF ColorIs
  <2> HIDE DEF A
  <2>6. B \in Trees
    BY <2>5, ColorSet DEF ColorIs
  <2> HIDE DEF B
  <2>7. C \in Trees
    BY <2>3, <2>6, ColorSet DEF ColorIs
  <2> HIDE DEF C
  <2> QED
    BY <2>1, <2>4, <2>7, RotateTurns
<1> HIDE DEF X, U, Last
<1>5. ~Last => X.root \in Pointers
  BY <1>4, FieldTypes
<1> QED
  BY <1>2, <1>3, <1>4, <1>5 DEF LoopTurns

\* ShortOfBlack stay within the domains of the loop.
LEMMA ShortOfBlackTypes ==
  ASSUME NEW T \in Trees, NEW x \in Pointers
  PROVE  ShortOfBlack(T, x) \in LoopTurns
<1> DEFINE p == ParentOf(T, x)
           d == IF x = ChildOf(T, "left", p) THEN "left" ELSE "right"
           V == BlackSibling(T, p, d)
<1>1. p \in Pointers
  BY FieldOf DEF Sides
<1>2. d \in Sides
  BY DEF Sides
<1>3. ShortOfBlack(T, x) = Mended(V, p, d)
  BY DEF ShortOfBlack
<1> HIDE DEF p, d
<1>4. V \in Trees
  BY <1>1, <1>2, BlackSiblingTypes
<1> HIDE DEF V
<1> QED
  BY <1>1, <1>2, <1>3, <1>4, MendedTypes

\* The loop of FixAfterDeletion ends here.
Rested(T, x) == x = T.root \/ ColorOf(T, x) # "black"

\* What holds before every turn of it and after the last.
Fixing(T, S, pos, q, x) ==
    \E sub, bh : \/ Short(T, S, sub, pos, bh, q, x)
                 \/ x = T.root /\ T.root # Nil /\ Calm(T, S, sub, pos, bh, q)

\* The measure of the loop of FixAfterDeletion.
FewerBlacks(T, U, S) ==
    /\ Cardinality(Blacks(U, S)) \in Nat
    /\ Cardinality(Blacks(T, S)) \in Nat
    /\ Cardinality(Blacks(U, S)) < Cardinality(Blacks(T, S))

\* A turn of the loop: the node that is short is further up, or all is mended.
LEMMA ShortTurn ==
  ASSUME NEW T, NEW S, NEW sub, NEW pos, NEW bh, NEW q, NEW x,
         Short(T, S, sub, pos, bh, q, x), ~Rested(T, x)
  PROVE  LET t == ShortOfBlack(T, x)
         IN /\ Fixing(t.tree, S, pos, q, t.node)
            /\ SameEntries(T, t.tree)
            /\ Rested(t.tree, t.node) \/ FewerBlacks(T, t.tree, S)
<1> DEFINE p == ParentOf(T, x)
           d == IF x = ChildOf(T, "left", p) THEN "left" ELSE "right"
           o == Opposite(d)
           V == BlackSibling(T, p, d)
           s == V[o][p]
           t == ShortOfBlack(T, x)
<1>1. /\ Shape(T, S, sub, pos) /\ x \in S /\ x # Nil /\ T.root # x
      /\ T.color[x] = "black"
  BY Neighbours DEF Short, Rested, ColorOf
<1>2. p \in S /\ d \in Sides /\ T[d][p] = x /\ Nil \notin S
  <2>1. p = T.parent[x] /\ Nil \notin S
    BY <1>1, Neighbours DEF ParentOf
  <2>2. p \in S /\ \E e \in Sides : T[e][p] = x
    BY <1>1, <2>1, Neighbours
  <2> HIDE DEF p
  <2>3. ChildOf(T, "left", p) = T["left"][p]
    BY <2>1, <2>2 DEF ChildOf
  <2> QED
    BY <2>1, <2>2, <2>3 DEF Sides
<1>3. t = Mended(V, p, d)
  BY DEF ShortOfBlack
<1> HIDE DEF p, d, t
<1>4. ShortUnder(T, S, sub, pos, bh, q, x, p, d)
  BY <1>1, <1>2 DEF ShortUnder
<1>5. BlackBeside(T, V, S, pos, q, x, p, d)
  BY <1>2, <1>4, SiblingBlackened
<1> HIDE DEF V
<1>6. PICK su, bu : ShortUnder(V, S, su, pos, bu, q, x, p, d)
  BY <1>5 DEF BlackBeside
<1>7. /\ SameEntries(T, V) /\ V.color[s] = "black"
      /\ V = T \/ V.color[p] = "red"
  BY <1>5 DEF BlackBeside
<1>8. Beside(V, S, su, pos, bu, q, x, p, d, o, s)
  BY <1>2, <1>6, Siblings
<1>9. /\ o \in Sides /\ s \in S /\ p # Nil /\ s # Nil
      /\ \A e \in Sides : ChildOf(V, e, s) = V[e][s]
      /\ ChildOf(V, o, p) = s
  BY <1>2, <1>8 DEF Beside, Flanked, Placed, Meshed, ChildOf
<1> DEFINE Last == \A e \in Sides : ColorOf(V, V[e][s]) = "black"
           U == SetColor(V, s, "red")
           R == RedOutside(V, p, d)
           X == SiblingUp(R, p, d)
<1>10. t = IF Last THEN [tree |-> U, node |-> p]
           ELSE [tree |-> X, node |-> X.root]
  <2>1. Last <=> \A e \in {"left", "right"} : ColorOf(V, ChildOf(V, e, s)) = "black"
    BY <1>9 DEF Sides
  <2> HIDE DEF Last
  <2> QED
    BY <1>3, <1>9, <2>1 DEF Mended
<1>11. CASE Last
  <2>1. /\ \E bw : Short(U, S, su, pos, bw, q, p)
        /\ SameEntries(V, U)
        /\ Cardinality(Blacks(U, S)) \in Nat
        /\ Cardinality(Blacks(V, S)) \in Nat
        /\ Cardinality(Blacks(U, S)) < Cardinality(Blacks(V, S))
        /\ U.color[p] = V.color[p]
    BY <1>2, <1>6, <1>7, <1>11, SiblingReddened
  <2>2. t.tree = U /\ t.node = p
    BY <1>10, <1>11
  <2> HIDE DEF U
  <2>3. Fixing(t.tree, S, pos, q, t.node)
    BY <2>1, <2>2 DEF Fixing
  <2>4. SameEntries(T, t.tree)
    BY <1>7, <2>1, <2>2 DEF SameEntries
  <2>5. V = T => FewerBlacks(T, t.tree, S)
    BY <2>1, <2>2 DEF FewerBlacks
  <2>6. V.color[p] = "red" => Rested(t.tree, t.node)
    BY <1>9, <2>1, <2>2 DEF Rested, ColorOf
  <2> QED
    BY <1>7, <2>3, <2>4, <2>5, <2>6 DEF t
<1>12. CASE ~Last
  <2>1. RedBeyond(V, R, S, pos, q, x, p, d)
    BY <1>2, <1>6, <1>7, <1>12, RedGoesOutside
  <2> HIDE DEF R
  <2>2. PICK sv, bv : ShortUnder(R, S, sv, pos, bv, q, x, p, d)
    BY <2>1 DEF RedBeyond
  <2> DEFINE r == R[Opposite(d)][p]
  <2>3. /\ SameEntries(V, R) /\ R.color[r] = "black"
        /\ ColorOf(R, R[Opposite(d)][r]) = "red"
    BY <2>1 DEF RedBeyond
  <2>4. CalmAfter(R, X, S, pos, q)
    BY <1>2, <2>2, <2>3, SiblingGoesUp
  <2>5. t.tree = X /\ t.node = X.root
    BY <1>10, <1>12
  <2> HIDE DEF X
  <2>6. PICK sw, bw : Calm(X, S, sw, pos, bw, q)
    BY <2>4 DEF CalmAfter
  <2>7. X.root # Nil
    BY <1>1, <2>6, RootThere DEF Calm
  <2>8. SameEntries(T, X)
    BY <1>7, <2>3, <2>4 DEF SameEntries, CalmAfter
  <2>9. Fixing(X, S, pos, q, X.root) /\ Rested(X, X.root)
    BY <2>6, <2>7 DEF Fixing, Rested
  <2> QED
    BY <2>5, <2>8, <2>9 DEF t
<1> QED
  BY <1>11, <1>12

\* FixAfterDeletion mends a tree whose x is short of a black node.
LEMMA DeletionFixed ==
  ASSUME NEW T, NEW S, NEW pos, NEW q, NEW x, Fixing(T, S, pos, q, x)
  PROVE  CalmAfter(T, FixAfterDeletion(T, x), S, pos, q)
<1> DEFINE Stop == {s \in LoopTurns : Rested(s.tree, s.node)}
           next == [s \in LoopTurns |-> ShortOfBlack(s.tree, s.node)]
           Ok(s) == Fixing(s.tree, S, pos, q, s.node) /\ SameEntries(T, s.tree)
           I == {s \in LoopTurns : Ok(s)}
           blacks(s) == Cardinality(Blacks(s.tree, S))
           mu == [s \in LoopTurns |-> IF s \in I \ Stop THEN 1 + blacks(s) ELSE 0]
           Walk(f) == IsLoop(f, LoopTurns, Stop, next)
           s0 == [tree |-> T, node |-> x]
<1>0. ASSUME NEW A, NEW z, Fixing(A, S, pos, q, z)
      PROVE  /\ A \in Trees /\ z \in Pointers /\ z \in S /\ z # Nil
             /\ Nil \notin S /\ IsFiniteSet(S)
  <2>1. PICK sub, bh : \/ Short(A, S, sub, pos, bh, q, z)
                       \/ /\ z = A.root /\ A.root # Nil
                          /\ Calm(A, S, sub, pos, bh, q)
    BY <1>0 DEF Fixing
  <2>2. Shape(A, S, sub, pos)
    BY <2>1 DEF Short, Calm
  <2>3. z \in S
    <3>1. A.root \in S \cup {Nil}
      BY <2>2 DEF Shape, Pointed
    <3> QED
      BY <2>1, <3>1 DEF Short
  <2> QED
    BY <2>2, <2>3, Neighbours, Shrinks
<1>1. \A s \in LoopTurns : s.tree \in Trees /\ s.node \in Pointers
  BY DEF LoopTurns
<1>2. \A s \in LoopTurns \ Stop : next[s] \in LoopTurns
  BY <1>1, ShortOfBlackTypes
<1>3. \E f : Walk(f)
  <2> HIDE DEF Stop, next
  <2> QED
    BY <1>2, LoopExists
<1>4. ASSUME NEW f
      PROVE  Walk(f) <=>
             f = [s \in LoopTurns |->
                    IF s.node = s.tree.root \/ ColorOf(s.tree, s.node) # "black"
                    THEN s
                    ELSE f[ShortOfBlack(s.tree, s.node)]]
  BY DEF IsLoop, Rested
<1>5. PICK f : /\ Walk(f)
               /\ FixAfterDeletion(T, x) =
                    SetColor(f[s0].tree, f[s0].node, "black")
  <2> DEFINE w == CHOOSE f : f = [s \in LoopTurns |->
                    IF s.node = s.tree.root \/ ColorOf(s.tree, s.node) # "black"
                    THEN s
                    ELSE f[ShortOfBlack(s.tree, s.node)]]
  <2>1. FixAfterDeletion(T, x) = SetColor(w[s0].tree, w[s0].node, "black")
    BY DEF FixAfterDeletion
  <2>2. w = CHOOSE f : Walk(f)
    <3> HIDE DEF Walk
    <3> QED
      BY <1>4
  <2> HIDE DEF Walk
  <2>3. Walk(w)
    BY <1>3, <2>2
  <2> HIDE DEF w
  <2> QED
    BY <2>1, <2>3
<1>6. ASSUME NEW s \in I PROVE blacks(s) \in Nat
  <2>1. IsFiniteSet(S)
    BY <1>0
  <2>2. IsFiniteSet(Blacks(s.tree, S))
    BY <2>1, FS_Subset DEF Blacks
  <2> QED
    BY <2>2, FS_CardinalityType
<1>7. mu \in [LoopTurns -> Nat]
  <2> HIDE DEF I, Stop, blacks
  <2> QED
    BY <1>6
<1>8. ASSUME NEW s \in I \ Stop
      PROVE  next[s] \in I /\ mu[next[s]] < mu[s]
  <2> DEFINE t == ShortOfBlack(s.tree, s.node)
  <2>1. PICK sub, bh : Short(s.tree, S, sub, pos, bh, q, s.node)
    BY DEF Fixing, Rested
  <2>2. ~Rested(s.tree, s.node)
    OBVIOUS
  <2>3. /\ Fixing(t.tree, S, pos, q, t.node)
        /\ SameEntries(s.tree, t.tree)
        /\ Rested(t.tree, t.node) \/ FewerBlacks(s.tree, t.tree, S)
    BY <2>1, <2>2, ShortTurn
  <2>4. t \in LoopTurns /\ next[s] = t
    BY <1>2
  <2>5. SameEntries(T, t.tree)
    BY <2>3 DEF SameEntries
  <2> HIDE DEF t
  <2>6. t \in I /\ (t \in Stop \/ blacks(t) < blacks(s))
    BY <2>3, <2>4, <2>5 DEF FewerBlacks
  <2>7. blacks(t) \in Nat /\ blacks(s) \in Nat
    BY <1>6, <2>6
  <2> HIDE DEF I, Stop, next, blacks
  <2>8. mu[s] = 1 + blacks(s) /\ mu[t] = (IF t \in Stop THEN 0 ELSE 1 + blacks(t))
    BY <2>4, <2>6, <1>8 DEF I
  <2> QED
    BY <2>4, <2>6, <2>7, <2>8
<1>9. f[s0] \in I \cap Stop
  <2>1. s0 \in I
    <3>1. T \in Trees /\ x \in Pointers
      BY <1>0
    <3>2. SameEntries(T, T)
      BY DEF SameEntries
    <3> QED
      BY <3>1, <3>2 DEF LoopTurns
  <2>2. I \in SUBSET LoopTurns /\ Walk(f)
    BY <1>5
  <2> HIDE DEF I, Stop, next, mu
  <2> QED
    BY <1>7, <1>8, <2>1, <2>2, LoopEnds
<1> DEFINE A == f[s0].tree
           z == f[s0].node
           U == SetColor(A, z, "black")
<1>10. Rested(A, z) /\ SameEntries(T, A) /\ Fixing(A, S, pos, q, z)
  BY <1>9, <1>1
<1>11. U = FixAfterDeletion(T, x)
  BY <1>5
<1> HIDE DEF A, z
<1>12. A \in Trees /\ z \in Pointers /\ z \in S /\ z # Nil /\ Nil \notin S
  BY <1>0, <1>10
<1>13. PICK su, bu : \/ Short(A, S, su, pos, bu, q, z)
                     \/ /\ z = A.root /\ A.root # Nil
                        /\ Calm(A, S, su, pos, bu, q)
  BY <1>10 DEF Fixing
<1>14. Shape(A, S, su, pos)
  BY <1>13 DEF Short, Calm
<1>15. /\ S \subseteq TreeNodes /\ S \subseteq Pointers
       /\ \A n \in S, e \in Sides : A[e][n] \in S \cup {Nil} /\ A[e][n] # n
       /\ \A n \in S, e \in Sides : A[e][n] # Nil =>
             A[e][n] # A.root /\ A.parent[A[e][n]] = n
  BY <1>14, Neighbours
<1>16. ColorIs(A, U, z, "black") /\ U \in Trees
  BY <1>12, ColorSet DEF ColorIs
<1> HIDE DEF U
<1>17. /\ SameEntries(T, U) /\ U.root = A.root
       /\ Shape(U, S, su, pos) /\ (\A e \in Sides : U[e] = A[e])
       /\ \A n \in S : U.color[n] = IF n = z THEN "black" ELSE A.color[n]
  <2>1. SameLinks(A, U) /\ SameEntries(A, U)
    BY <1>16 DEF ColorIs
  <2>2. Shape(U, S, su, pos) /\ \A e \in Sides : U[e] = A[e]
    BY <1>14, <1>16, <2>1, ShapeColored
  <2> QED
    BY <1>10, <1>15, <1>16, <2>1, <2>2 DEF ColorIs, SameEntries, SameLinks
<1>18. CASE Calm(A, S, su, pos, bu, q) /\ z = A.root
  <2>1. A.color[z] = "black"
    BY <1>12, <1>18 DEF Calm, ColorOf
  <2>2. \A n \in S : U.color[n] = A.color[n]
    BY <1>17, <2>1
  <2>3. Heights(U, S, bu, q, Nil)
    <3>1. \A n \in S : Weight(U, q, n) = Weight(A, q, n)
      BY <2>2 DEF Weight
    <3> QED
      BY <1>17, <1>18, <2>2, <3>1 DEF Calm, Heights
  <2>4. Reds(U, S, Nil, Nil)
    <3>1. \A n \in S \cup {Nil} : ColorOf(U, n) = ColorOf(A, n)
      BY <2>2 DEF ColorOf
    <3> QED
      BY <1>12, <1>15, <1>17, <1>18, <2>2, <3>1 DEF Calm, Reds
  <2>5. ColorOf(U, U.root) = "black" /\ Doomed(U, S, q)
    BY <1>12, <1>17, <1>18, <2>1, <2>2 DEF Calm, Doomed, ColorOf
  <2> QED
    BY <1>11, <1>17, <2>3, <2>4, <2>5 DEF Calm, CalmAfter
<1>19. CASE Short(A, S, su, pos, bu, q, z)
  <2>1. /\ Heights(A, S, bu, q, z) /\ Reds(A, S, z, Nil)
        /\ A.root = z \/ A.color[A.root] = "black"
        /\ Doomed(A, S, q)
    BY <1>19 DEF Short
  <2>2. /\ bu \in [Pointers -> Nat] /\ bu[Nil] = 0
        /\ \A n \in S : A.color[n] \in {"red", "black"}
        /\ \A n \in S, e \in Sides :
              bu[n] = bu[A[e][n]] + Weight(A, q, n) + (IF n = z THEN 1 ELSE 0)
        /\ \A n \in S \cup {Nil} : bu[n] \in Nat
    BY <1>12, <1>15, <2>1 DEF Heights
  <2>3. Reds(U, S, Nil, Nil)
    <3>1. ASSUME NEW n \in S, NEW e \in Sides, U.color[n] = "red"
          PROVE  ColorOf(U, U[e][n]) = "black"
      <4>1. n # z /\ A.color[n] = "red"
        BY <1>17, <3>1
      <4>2. ColorOf(A, A[e][n]) = "black" /\ A[e][n] \in S \cup {Nil}
        BY <1>15, <2>1, <4>1 DEF Reds, ColorOf
      <4> QED
        BY <1>12, <1>17, <4>2 DEF ColorOf
    <3> QED
      BY <3>1 DEF Reds
  <2>4. ColorOf(U, U.root) = "black"
    <3>1. A.root \in S
      BY <1>12, <1>14, RootThere
    <3> QED
      BY <1>12, <1>17, <2>1, <3>1 DEF ColorOf
  <2>5. Doomed(U, S, q)
    BY <1>12, <1>17, <2>1 DEF Doomed
  <2>6. z # q \/ z = A.root
    BY <1>10, <1>12, <2>1 DEF Rested, Doomed, ColorOf
  <2>7. \A n \in S \ {z} : Weight(U, q, n) = Weight(A, q, n)
    BY <1>17 DEF Weight
  <2>8. \E bv : Heights(U, S, bv, q, Nil)
    <3>1. CASE A.color[z] = "red"
      <4>1. z # q
        BY <1>12, <2>1, <3>1 DEF Doomed
      <4>2. Weight(A, q, z) = 0 /\ Weight(U, q, z) = 1
        BY <1>12, <1>17, <3>1, <4>1 DEF Weight
      <4>3. ASSUME NEW n \in S, NEW e \in Sides
            PROVE  bu[n] = bu[U[e][n]] + Weight(U, q, n) + (IF n = Nil THEN 1 ELSE 0)
        <5>1. bu[A[e][n]] \in Nat /\ n # Nil
          BY <1>12, <1>15, <2>2
        <5>2. CASE n = z
          BY <1>17, <2>2, <4>2, <5>1, <5>2
        <5>3. CASE n # z
          <6>1. Weight(A, q, n) \in Nat
            BY DEF Weight
          <6> QED
            BY <1>17, <2>2, <2>7, <5>1, <5>3, <6>1
        <5> QED
          BY <5>2, <5>3
      <4>4. \A n \in S : U.color[n] \in {"red", "black"}
        BY <1>17, <2>2
      <4>5. Heights(U, S, bu, q, Nil)
        BY <2>2, <4>3, <4>4 DEF Heights
      <4> QED
        BY <4>5
    <3>2. CASE A.color[z] # "red"
      <4> DEFINE bv == [bu EXCEPT ![z] = bu[z] - 1]
      <4>1. z = A.root /\ A.color[z] = "black"
        BY <1>10, <1>12, <2>2, <3>2 DEF Rested, ColorOf
      <4>2. Weight(U, q, z) = Weight(A, q, z) /\ Weight(A, q, z) \in Nat
        BY <1>12, <1>17, <4>1 DEF Weight
      <4>3. bu[z] - 1 \in Nat
            /\ \A e \in Sides : bu[z] - 1 = bu[A[e][z]] + Weight(A, q, z)
        <5>1. \A e \in Sides : bu[A[e][z]] \in Nat
          BY <1>12, <1>15, <2>2
        <5>2. \A e \in Sides : bu[z] = bu[A[e][z]] + Weight(A, q, z) + 1
          BY <1>12, <2>2
        <5>3. "left" \in Sides
          BY DEF Sides
        <5> QED
          BY <4>2, <5>1, <5>2, <5>3
      <4>4. /\ bv \in [Pointers -> Nat] /\ bv[Nil] = 0
            /\ \A n \in S \cup {Nil} : bv[n] = IF n = z THEN bu[z] - 1 ELSE bu[n]
        BY <1>12, <1>15, <2>2, <4>3
      <4> HIDE DEF bv
      <4>5. ASSUME NEW n \in S, NEW e \in Sides
            PROVE  bv[n] = bv[U[e][n]] + Weight(U, q, n) + (IF n = Nil THEN 1 ELSE 0)
        <5>1. A[e][n] \in S \cup {Nil} /\ A[e][n] # z /\ n # Nil
          BY <1>12, <1>15, <4>1
        <5>2. bv[U[e][n]] = bu[A[e][n]] /\ bu[A[e][n]] \in Nat
          BY <1>17, <2>2, <4>4, <5>1
        <5>3. CASE n = z
          BY <4>2, <4>3, <4>4, <5>1, <5>2, <5>3
        <5>4. CASE n # z
          <6>1. Weight(A, q, n) \in Nat
            BY DEF Weight
          <6> QED
            BY <2>2, <2>7, <4>4, <5>1, <5>2, <5>4, <6>1
        <5> QED
          BY <5>3, <5>4
      <4>6. \A n \in S : U.color[n] \in {"red", "black"}
        BY <1>17, <2>2
      <4>7. Heights(U, S, bv, q, Nil)
        BY <4>4, <4>5, <4>6 DEF Heights
      <4> QED
        BY <4>7
    <3> QED
      BY <3>1, <3>2
  <2> QED
    BY <1>11, <1>17, <2>3, <2>4, <2>5, <2>8 DEF Calm, CalmAfter
<1> QED
  BY <1>13, <1>18, <1>19

-----------------------------------------------------------------------------
(* Deletion: the node goes *)

\* F is T but for the fields of n, which are Nil.
FreedIs(T, F, n) ==
    /\ F \in Trees /\ F.root = T.root
    /\ F.key = [T.key EXCEPT ![n] = Nil]
    /\ F.data = [T.data EXCEPT ![n] = Nil]
    /\ \A m \in TreeNodes :
         /\ F.parent[m] = IF m = n THEN Nil ELSE T.parent[m]
         /\ F.color[m] = IF m = n THEN Nil ELSE T.color[m]
         /\ \A e \in Sides : F[e][m] = IF m = n THEN Nil ELSE T[e][m]

\* Freed clears the fields of one node.
LEMMA FreedFields ==
  ASSUME NEW T \in Trees, NEW n \in TreeNodes
  PROVE  FreedIs(T, Freed(T, n), n)
<1> DEFINE F == Freed(T, n)
<1>1. /\ F.root = T.root
      /\ F.key = [T.key EXCEPT ![n] = Nil]
      /\ F.data = [T.data EXCEPT ![n] = Nil]
      /\ F.left = [T.left EXCEPT ![n] = Nil]
      /\ F.right = [T.right EXCEPT ![n] = Nil]
      /\ F.parent = [T.parent EXCEPT ![n] = Nil]
      /\ F.color = [T.color EXCEPT ![n] = Nil]
      /\ F = [root |-> F.root, key |-> F.key, data |-> F.data,
              left |-> F.left, right |-> F.right, parent |-> F.parent,
              color |-> F.color]
  <2> DEFINE T1 == [T EXCEPT !.key[n] = Nil]
             T2 == [T1 EXCEPT !.data[n] = Nil]
             T3 == [T2 EXCEPT !.left[n] = Nil]
             T4 == [T3 EXCEPT !.right[n] = Nil]
             T5 == [T4 EXCEPT !.parent[n] = Nil]
             T6 == [T5 EXCEPT !.color[n] = Nil]
             All(x) == x = [root |-> x.root, key |-> x.key, data |-> x.data,
                            left |-> x.left, right |-> x.right,
                            parent |-> x.parent, color |-> x.color]
  <2>0. All(T)
    BY DEF Trees
  <2>1. T1 = [T EXCEPT !.key = [T.key EXCEPT ![n] = Nil]] /\ All(T1)
    BY <2>0
  <2>2. F = T6
    BY DEF Freed
  <2> QED
    BY <2>0, <2>1, <2>2, ZenonT(60)
<1> HIDE DEF F
<1>2. Nil \in Pointers
  BY DEF Pointers
<1>3. /\ F.root \in Pointers
      /\ F.key \in [TreeNodes -> TreeKeys \cup {Nil}]
      /\ F.data \in [TreeNodes -> TreeData \cup {Nil}]
      /\ F.parent \in [TreeNodes -> Pointers]
      /\ F.left \in [TreeNodes -> Pointers]
      /\ F.right \in [TreeNodes -> Pointers]
      /\ F.color \in [TreeNodes -> {"red", "black", Nil}]
  <2>1. /\ T.root \in Pointers
        /\ T.key \in [TreeNodes -> TreeKeys \cup {Nil}]
        /\ T.data \in [TreeNodes -> TreeData \cup {Nil}]
        /\ T.parent \in [TreeNodes -> Pointers]
        /\ T.left \in [TreeNodes -> Pointers]
        /\ T.right \in [TreeNodes -> Pointers]
        /\ T.color \in [TreeNodes -> {"red", "black", Nil}]
    BY FieldTypes DEF TreeKeys, TreeData
  <2>2. /\ F.key \in [TreeNodes -> TreeKeys \cup {Nil}]
        /\ F.data \in [TreeNodes -> TreeData \cup {Nil}]
    BY <1>1, <2>1
  <2>3. /\ F.parent \in [TreeNodes -> Pointers]
        /\ F.left \in [TreeNodes -> Pointers]
        /\ F.right \in [TreeNodes -> Pointers]
    BY <1>1, <1>2, <2>1
  <2>4. F.color \in [TreeNodes -> {"red", "black", Nil}]
    BY <1>1, <2>1
  <2> QED
    BY <1>1, <2>1, <2>2, <2>3, <2>4
<1>4. F \in Trees
  BY <1>1, <1>3 DEF Trees, TreeKeys, TreeData
<1>5. /\ F["left"] = F.left /\ F["right"] = F.right
      /\ T["left"] = T.left /\ T["right"] = T.right
  BY <1>4, FieldTypes
<1>6. \A m \in TreeNodes :
         /\ F.parent[m] = IF m = n THEN Nil ELSE T.parent[m]
         /\ F.color[m] = IF m = n THEN Nil ELSE T.color[m]
         /\ F.left[m] = IF m = n THEN Nil ELSE T.left[m]
         /\ F.right[m] = IF m = n THEN Nil ELSE T.right[m]
  BY <1>1, FieldTypes
<1>7. \A m \in TreeNodes, e \in Sides : F[e][m] = IF m = n THEN Nil ELSE T[e][m]
  BY <1>5, <1>6 DEF Sides
<1> QED
  BY <1>1, <1>4, <1>6, <1>7 DEF FreedIs, F

\* F is T without x, which has no child but r; r is in its place.
Cut(T, F, S, x, r) ==
    /\ F \in Trees
    /\ F.root = IF T.root = x THEN r ELSE T.root
    /\ \A n \in S \ {x}, e \in Sides :
           F[e][n] = IF T[e][n] = x THEN r ELSE T[e][n]
    /\ \A n \in S \ {x} :
           F.parent[n] = IF n = r THEN T.parent[x] ELSE T.parent[n]
    /\ \A n \in TreeNodes \ (S \ {x}), e \in Sides : F[e][n] = Nil

\* What is left when a node with at most one child is cut out is a search tree.
LEMMA CutKeepsShape ==
  ASSUME NEW T, NEW S, NEW sub, NEW pos, Shape(T, S, sub, pos),
         NEW x \in S, NEW d \in Sides, NEW r, r = T[d][x],
         T[Opposite(d)][x] = Nil, NEW F, Cut(T, F, S, x, r)
  PROVE  Shape(F, S \ {x}, [n \in Pointers |-> sub[n] \ {x}], pos)
<1> DEFINE R == S \ {x}
           su == [n \in Pointers |-> sub[n] \ {x}]
<1>1. /\ T \in Trees /\ S \subseteq TreeNodes /\ S \subseteq Pointers
      /\ Nil \notin S /\ Nil \in Pointers
      /\ \A n \in S, e \in Sides :
           /\ T[e][n] \in S \cup {Nil} /\ T[e][n] # n
           /\ T[e][n] # Nil => T.parent[T[e][n]] = n /\ T[e][n] # T.root
      /\ \A n \in S : /\ T.parent[n] \in S \cup {Nil}
                      /\ T.parent[n] = Nil <=> T.root = n
                      /\ T.parent[n] # Nil =>
                             \E e \in Sides : T[e][T.parent[n]] = n
  BY Neighbours
<1>2. /\ F \in Trees
      /\ F.root = IF T.root = x THEN r ELSE T.root
      /\ \A n \in R, e \in Sides :
             F[e][n] = IF T[e][n] = x THEN r ELSE T[e][n]
      /\ \A n \in R : F.parent[n] = IF n = r THEN T.parent[x] ELSE T.parent[n]
      /\ \A n \in TreeNodes \ R, e \in Sides : F[e][n] = Nil
  BY DEF Cut
<1>3. /\ r \in S \cup {Nil} /\ r # x
      /\ r # Nil => T.parent[r] = x /\ r # T.root
      /\ \A e \in Sides : e = d \/ e = Opposite(d)
      /\ \A n \in R, e \in Sides : T[e][n] = r => r = Nil
  BY <1>1, OtherSide
<1>4. /\ sub \in [Pointers -> SUBSET S] /\ sub[Nil] = {} /\ sub[T.root] = S
      /\ \A n \in S : pos[n] \in Int
      /\ \A n \in S, e \in Sides : \A m \in sub[T[e][n]] :
             Before(e, pos[m], pos[n])
      /\ \A n \in S : sub[n] = {n} \cup sub[T.left[n]] \cup sub[T.right[n]]
  BY DEF Shape, Ordered
<1>5. sub[x] = {x} \cup sub[r] /\ x \notin sub[r]
  <2>1. x \notin sub[r]
    BY Apart
  <2>2. sub[x] = {x} \cup sub[T[d][x]] \cup sub[T[Opposite(d)][x]]
    BY SubOf
  <2> QED
    BY <1>4, <2>1, <2>2
<1> HIDE DEF R
<1>6. R = S \ {x} /\ R \subseteq S /\ x \notin R
  BY DEF R
<1>7. Pointed(F, R)
  <2>1. T.root \in S \cup {Nil} /\ (T.root # Nil => T.parent[T.root] = Nil)
    BY DEF Shape, Pointed
  <2>2. /\ F.root \in R \cup {Nil}
        /\ F.root # Nil => F.parent[F.root] = Nil
    <3>1. CASE T.root = x
      BY <1>1, <1>2, <1>3, <1>6, <3>1
    <3>2. CASE T.root # x
      BY <1>2, <1>3, <1>6, <2>1, <3>2
    <3> QED
      BY <3>1, <3>2
  <2>3. ASSUME NEW n \in R
        PROVE  /\ F.parent[n] \in R \cup {Nil}
               /\ F.parent[n] = Nil => F.root = n
               /\ F.parent[n] # Nil => \E e \in Sides : F[e][F.parent[n]] = n
    <3>1. CASE n = r
      <4> DEFINE g == T.parent[x]
      <4>1. F.parent[n] = g /\ g \in S \cup {Nil} /\ (g = Nil <=> T.root = x)
            /\ (g # Nil => \E e \in Sides : T[e][g] = x) /\ n # Nil
        BY <1>1, <1>2, <1>6, <3>1
      <4>2. g # x
        BY <1>1, <4>1
      <4>3. ASSUME g # Nil PROVE \E e \in Sides : F[e][g] = n
        <5>1. PICK e \in Sides : T[e][g] = x
          BY <4>1, <4>3
        <5> QED
          BY <1>2, <1>6, <3>1, <4>1, <4>2, <4>3, <5>1
      <4> HIDE DEF g
      <4> QED
        BY <1>2, <1>6, <3>1, <4>1, <4>2, <4>3
    <3>2. CASE n # r
      <4> DEFINE g == T.parent[n]
      <4>1. F.parent[n] = g /\ g \in S \cup {Nil} /\ (g = Nil <=> T.root = n)
            /\ (g # Nil => \E e \in Sides : T[e][g] = n) /\ n # Nil /\ n # x
        BY <1>1, <1>2, <1>6, <3>2
      <4>2. g # x
        BY <1>1, <1>3, <1>6, <3>2, <4>1
      <4>3. ASSUME g # Nil PROVE \E e \in Sides : F[e][g] = n
        <5>1. PICK e \in Sides : T[e][g] = n
          BY <4>1, <4>3
        <5> QED
          BY <1>2, <1>6, <4>1, <4>2, <4>3, <5>1
      <4> HIDE DEF g
      <4> QED
        BY <1>2, <1>6, <4>1, <4>2, <4>3
    <3> QED
      BY <3>1, <3>2
  <2>4. ASSUME NEW n \in R, NEW e \in Sides
        PROVE  /\ F[e][n] \in R \cup {Nil}
               /\ F[e][n] # Nil => F.parent[F[e][n]] = n
    <3>1. CASE T[e][n] = x
      <4>1. T.parent[x] = n
        BY <1>1, <1>6, <3>1
      <4> QED
        BY <1>2, <1>3, <1>6, <3>1, <4>1
    <3>2. CASE T[e][n] # x
      <4>1. F[e][n] = T[e][n] /\ T[e][n] \in R \cup {Nil}
        BY <1>1, <1>2, <1>6, <3>2
      <4> QED
        BY <1>1, <1>2, <1>3, <1>6, <4>1
    <3> QED
      BY <3>1, <3>2
  <2> QED
    BY <1>1, <1>2, <1>6, <2>2, <2>3, <2>4 DEF Pointed
<1>8. Ordered(F, R, su, pos)
  <2>1. /\ su \in [Pointers -> SUBSET R] /\ su[Nil] = {}
        /\ \A n \in S \cup {Nil} : su[n] = sub[n] \ {x}
    BY <1>1, <1>4, <1>6
  <2> HIDE DEF su
  <2>2. su[F.root] = R
    <3>1. CASE T.root = x
      BY <1>2, <1>3, <1>4, <1>5, <1>6, <2>1, <3>1
    <3>2. CASE T.root # x
      <4>1. T.root \in S \cup {Nil}
        BY DEF Shape, Pointed
      <4> QED
        BY <1>2, <1>4, <1>6, <2>1, <3>2, <4>1
    <3> QED
      BY <3>1, <3>2
  <2>3. ASSUME NEW n \in R, NEW e \in Sides
        PROVE  su[F[e][n]] = sub[T[e][n]] \ {x}
    <3>1. T[e][n] \in S \cup {Nil} /\ F[e][n] = IF T[e][n] = x THEN r ELSE T[e][n]
      BY <1>1, <1>2, <1>6
    <3> QED
      BY <1>3, <1>5, <2>1, <3>1
  <2>4. ASSUME NEW n \in R
        PROVE  su[n] = {n} \cup su[F.left[n]] \cup su[F.right[n]]
    <3>1. /\ F["left"] = F.left /\ F["right"] = F.right
          /\ T["left"] = T.left /\ T["right"] = T.right
      BY <1>1, <1>2, FieldTypes
    <3>2. /\ su[F.left[n]] = sub[T.left[n]] \ {x}
          /\ su[F.right[n]] = sub[T.right[n]] \ {x}
      BY <2>3, <3>1 DEF Sides
    <3>3. sub[n] = {n} \cup sub[T.left[n]] \cup sub[T.right[n]]
      BY <1>4, <1>6
    <3> QED
      BY <1>6, <2>1, <3>2, <3>3
  <2>5. ASSUME NEW n \in R, NEW e \in Sides, NEW m \in su[F[e][n]]
        PROVE  Before(e, pos[m], pos[n])
    BY <1>4, <1>6, <2>3
  <2> QED
    BY <1>4, <1>6, <2>1, <2>2, <2>4, <2>5 DEF Ordered
<1> QED
  BY <1>2, <1>7, <1>8 DEF Shape, R

\* FixAfterDeletion of a node that is red, or the root.
LEMMA FixStops ==
  ASSUME NEW T \in Trees, NEW x \in Pointers, Rested(T, x)
  PROVE  FixAfterDeletion(T, x) = SetColor(T, x, "black")
<1> DEFINE Stop == {s \in LoopTurns : Rested(s.tree, s.node)}
           next == [s \in LoopTurns |-> ShortOfBlack(s.tree, s.node)]
           Walk(f) == IsLoop(f, LoopTurns, Stop, next)
           s0 == [tree |-> T, node |-> x]
<1>1. \A s \in LoopTurns : s.tree \in Trees /\ s.node \in Pointers
  BY DEF LoopTurns
<1>2. \A s \in LoopTurns \ Stop : next[s] \in LoopTurns
  BY <1>1, ShortOfBlackTypes
<1>3. \E f : Walk(f)
  <2> HIDE DEF Stop, next
  <2> QED
    BY <1>2, LoopExists
<1>4. ASSUME NEW f
      PROVE  Walk(f) <=>
             f = [s \in LoopTurns |->
                    IF s.node = s.tree.root \/ ColorOf(s.tree, s.node) # "black"
                    THEN s
                    ELSE f[ShortOfBlack(s.tree, s.node)]]
  BY DEF IsLoop, Rested
<1> DEFINE w == CHOOSE f : f = [s \in LoopTurns |->
                    IF s.node = s.tree.root \/ ColorOf(s.tree, s.node) # "black"
                    THEN s
                    ELSE f[ShortOfBlack(s.tree, s.node)]]
<1>5. FixAfterDeletion(T, x) = SetColor(w[s0].tree, w[s0].node, "black")
  BY DEF FixAfterDeletion
<1>6. w = CHOOSE f : Walk(f)
  <2> HIDE DEF Walk
  <2> QED
    BY <1>4
<1>7. Walk(w)
  <2> HIDE DEF Walk, w
  <2> QED
    BY <1>3, <1>6
<1> HIDE DEF w
<1>8. w[s0] = s0
  <2>1. s0 \in LoopTurns /\ s0 \in Stop
    BY DEF LoopTurns
  <2> QED
    BY <1>7, <2>1 DEF IsLoop
<1> QED
  BY <1>5, <1>8

\* x, a black leaf that did not count or with a red child r, is cut.
LEMMA CutKeepsSound ==
  ASSUME NEW T, NEW S, NEW sub, NEW pos, NEW bh, NEW q, Shape(T, S, sub, pos),
         Heights(T, S, bh, q, Nil), Reds(T, S, Nil, Nil),
         ColorOf(T, T.root) = "black",
         NEW x \in S, NEW d \in Sides, NEW r, r = T[d][x],
         T[Opposite(d)][x] = Nil, NEW F, Cut(T, F, S, x, r),
         \A n \in S \ {x} :
             F.color[n] = IF n = r THEN "black" ELSE T.color[n],
         \/ r = Nil /\ q = x
         \/ r # Nil /\ q = Nil /\ T.color[r] = "red" /\ T.color[x] = "black"
  PROVE  \E su, bu : Sound(F, S \ {x}, su, pos, bu)
<1> DEFINE R == S \ {x}
           su == [n \in Pointers |-> sub[n] \ {x}]
           bu == [bh EXCEPT ![r] = bh[x]]
<1>1. /\ T \in Trees /\ S \subseteq TreeNodes /\ S \subseteq Pointers
      /\ Nil \notin S /\ Nil \in Pointers
      /\ \A n \in S, e \in Sides :
           /\ T[e][n] \in S \cup {Nil} /\ T[e][n] # n
           /\ T[e][n] # Nil => T.parent[T[e][n]] = n /\ T[e][n] # T.root
      /\ \A n \in S : T.parent[n] \in S \cup {Nil}
  BY Neighbours
<1>2. /\ F.root = IF T.root = x THEN r ELSE T.root
      /\ \A n \in R, e \in Sides :
             F[e][n] = IF T[e][n] = x THEN r ELSE T[e][n]
  BY DEF Cut
<1>3. Shape(F, R, su, pos)
  BY CutKeepsShape, SMTT(30)
<1>4. /\ r \in S \cup {Nil} /\ r # x /\ (r # Nil => T.parent[r] = x)
      /\ \A n \in R, e \in Sides : T[e][n] = r => r = Nil
  BY <1>1
<1>5. /\ bh \in [Pointers -> Nat] /\ bh[Nil] = 0
      /\ \A n \in S : T.color[n] \in {"red", "black"}
      /\ \A n \in S, e \in Sides : bh[n] = bh[T[e][n]] + Weight(T, q, n)
      /\ \A n \in S \cup {Nil} : bh[n] \in Nat
  <2>1. \A n \in S, e \in Sides : bh[T[e][n]] \in Nat
    BY <1>1 DEF Heights
  <2>2. \A n \in S : Weight(T, q, n) \in Nat /\ n # Nil
    BY <1>1 DEF Weight
  <2> QED
    BY <1>1, <2>1, <2>2 DEF Heights
<1>6. bh[x] = bh[r] + Weight(T, q, x)
  BY <1>5
<1>7. r = Nil => bh[x] = 0
  BY <1>1, <1>5, <1>6 DEF Weight
<1> HIDE DEF R
<1>8. R = S \ {x} /\ R \subseteq S /\ x \notin R
  BY DEF R
<1>9. Heights(F, R, bu, Nil, Nil)
  <2>1. /\ bu \in [Pointers -> Nat] /\ bu[Nil] = 0 /\ bu[r] = bh[x]
        /\ \A n \in S \cup {Nil} : n # r => bu[n] = bh[n]
    BY <1>1, <1>4, <1>5, <1>7
  <2> HIDE DEF bu
  <2>2. \A n \in R : F.color[n] \in {"red", "black"}
    BY <1>5, <1>8
  <2>3. ASSUME NEW n \in R, NEW e \in Sides
        PROVE  bu[n] = bu[F[e][n]] + Weight(F, Nil, n) + (IF n = Nil THEN 1 ELSE 0)
    <3>1. n # Nil /\ n \in S /\ n # x
      BY <1>1, <1>8
    <3>2. bu[F[e][n]] = bh[T[e][n]]
      <4>1. CASE T[e][n] = x
        BY <1>2, <1>8, <2>1, <4>1
      <4>2. CASE T[e][n] # x
        <5>1. F[e][n] = T[e][n] /\ T[e][n] \in S \cup {Nil}
          BY <1>1, <1>2, <3>1, <4>2
        <5>2. T[e][n] # r \/ (r = Nil /\ T[e][n] = Nil)
          BY <1>4
        <5> QED
          BY <1>5, <2>1, <5>1, <5>2
      <4> QED
        BY <4>1, <4>2
    <3>3. bh[n] = bh[T[e][n]] + Weight(T, q, n) /\ bh[T[e][n]] \in Nat
      BY <1>1, <1>5, <3>1
    <3>4. CASE n = r
      <4>1. r # Nil /\ Weight(T, q, n) = 0 /\ Weight(F, Nil, n) = 1
            /\ Weight(T, q, x) = 1
        BY <1>1, <1>8, <3>1, <3>4 DEF Weight
      <4> QED
        BY <1>5, <1>6, <2>1, <3>1, <3>2, <3>3, <3>4, <4>1
    <3>5. CASE n # r
      <4>1. Weight(F, Nil, n) = Weight(T, q, n) /\ Weight(T, q, n) \in Nat
        BY <1>8, <3>1, <3>5 DEF Weight
      <4> QED
        BY <2>1, <3>1, <3>2, <3>3, <3>5, <4>1
    <3> QED
      BY <3>4, <3>5
  <2> QED
    BY <2>1, <2>2, <2>3 DEF Heights
<1>10. Reds(F, R, Nil, Nil)
  <2>1. ASSUME NEW n \in R, NEW e \in Sides, F.color[n] = "red"
        PROVE  ColorOf(F, F[e][n]) = "black"
    <3>1. n \in S /\ n # Nil /\ T.color[n] = "red"
      BY <1>1, <1>8, <2>1
    <3>2. ColorOf(T, T[e][n]) = "black" /\ T[e][n] \in S \cup {Nil}
      BY <1>1, <3>1 DEF Reds, ColorOf
    <3>3. r # Nil => r \in R
      BY <1>4, <1>8
    <3>4. CASE T[e][n] = x
      BY <1>2, <1>8, <2>1, <3>3, <3>4 DEF ColorOf
    <3>5. CASE T[e][n] # x
      BY <1>1, <1>2, <1>8, <2>1, <3>2, <3>5 DEF ColorOf
    <3> QED
      BY <3>4, <3>5
  <2> QED
    BY <2>1 DEF Reds
<1>11. ColorOf(F, F.root) = "black"
  <2>1. T.root \in S
    BY RootThere
  <2>2. r # Nil => r \in R
    BY <1>4, <1>8
  <2> QED
    BY <1>1, <1>2, <1>8, <2>1, <2>2 DEF ColorOf
<1>12. Sound(F, R, su, pos, bu)
  BY <1>3, <1>9, <1>10, <1>11 DEF Sound
<1> HIDE DEF su, bu
<1> QED
  BY <1>8, <1>12

\* Relink, with the pointers down of T.
LEMMA RelinkCuts ==
  ASSUME NEW T, NEW S, NEW sub, NEW pos, Shape(T, S, sub, pos), NEW x \in S,
         NEW A \in Trees, NEW B, NEW r \in Pointers, LinkIs(A, B, x, r),
         A.root = T.root, A.left = T.left, A.right = T.right,
         A.parent[x] = T.parent[x]
  PROVE  /\ B.root = IF T.root = x THEN r ELSE T.root
         /\ \A n \in S, e \in Sides :
                B[e][n] = IF T[e][n] = x THEN r ELSE T[e][n]
         /\ \A n \in TreeNodes \ S, e \in Sides : B[e][n] = Nil
<1> DEFINE p == T.parent[x]
<1>1. /\ T \in Trees /\ S \subseteq TreeNodes /\ Nil \notin S
      /\ \A n \in S, e \in Sides :
           T[e][n] # Nil => /\ T.parent[T[e][n]] = n
                            /\ T[e][n] # T[Opposite(e)][n]
      /\ p \in S \cup {Nil} /\ (p = Nil <=> T.root = x)
      /\ p # Nil => \E e \in Sides : T[e][p] = x
  BY Neighbours
<1>2. \A n \in TreeNodes \ S, e \in Sides : T[e][n] = Nil
  BY DEF Shape, Pointed
<1>3. \A e \in Sides : A[e] = T[e]
  BY <1>1, FieldTypes DEF Sides
<1>4. CASE p = Nil
  <2>1. B.root = r /\ \A e \in Sides, k \in TreeNodes : B[e][k] = A[e][k]
    BY <1>4 DEF LinkIs
  <2>2. \A n \in S, e \in Sides : T[e][n] # x
    BY <1>1, <1>4
  <2> QED
    BY <1>1, <1>2, <1>3, <1>4, <2>1, <2>2
<1>5. CASE p # Nil
  <2>1. PICK s \in Sides : /\ A.left[p] = x <=> s = "left"
                           /\ ChildIs(A, B, s, p, r)
    BY <1>5 DEF LinkIs
  <2>2. /\ B.root = T.root /\ T.root # x
        /\ \A e \in Sides, k \in TreeNodes :
               B[e][k] = IF e = s /\ k = p THEN r ELSE T[e][k]
    BY <1>1, <1>3, <1>5, <2>1 DEF ChildIs
  <2>3. \A e \in Sides : T[e][p] = x <=> e = s
    <3>1. PICK f \in Sides : T[f][p] = x
      BY <1>1, <1>5
    <3>2. T["left"] = T.left /\ A.left = T.left /\ x # Nil /\ p \in S
      BY <1>1, <1>5, FieldTypes
    <3>3. ASSUME NEW e \in Sides, T[e][p] = x, e # f PROVE FALSE
      BY <1>1, <3>1, <3>2, <3>3, OtherSide
    <3>4. f = s
      <4>1. CASE f = "left"
        BY <2>1, <3>1, <3>2, <4>1
      <4>2. CASE f = "right"
        <5>1. T["left"][p] # x /\ s # "left"
          BY <2>1, <3>1, <3>2, <3>3, <4>2 DEF Sides
        <5> QED
          BY <4>2, <5>1 DEF Sides
      <4> QED
        BY <4>1, <4>2 DEF Sides
    <3> QED
      BY <3>1, <3>3, <3>4
  <2>4. ASSUME NEW n \in S, NEW e \in Sides
        PROVE  B[e][n] = IF T[e][n] = x THEN r ELSE T[e][n]
    <3>1. T[e][n] = x => n = p
      BY <1>1
    <3>2. n \in TreeNodes
      BY <1>1
    <3> QED
      BY <2>2, <2>3, <3>1, <3>2
  <2> QED
    BY <1>1, <1>2, <1>5, <2>2, <2>4
<1> QED
  BY <1>4, <1>5

\* What is left once x is unlinked and freed.
UnlinkedIs(T, F, S, pos, x) ==
    /\ \E su, bu : Sound(F, S \ {x}, su, pos, bu)
    /\ F.key = [T.key EXCEPT ![x] = Nil]
    /\ F.data = [T.data EXCEPT ![x] = Nil]

\* A node with one child, which is red, is unlinked.
LEMMA InnerUnlinked ==
  ASSUME NEW T, NEW S, NEW sub, NEW pos, NEW bh, Sound(T, S, sub, pos, bh),
         NEW x \in S, NEW d \in Sides, NEW r, r = T[d][x], r # Nil,
         T[Opposite(d)][x] = Nil
  PROVE  UnlinkedIs(T, Freed(Unlink(T, x), x), S, pos, x)
<1> DEFINE p == T.parent[x]
           A == SetParent(T, r, p)
           B == Relink(A, x, r)
           C1 == WithChild(B, "left", x, Nil)
           C2 == WithChild(C1, "right", x, Nil)
           C == SetParent(C2, x, Nil)
           D == SetColor(C, r, "black")
           F == Freed(D, x)
<1>1. /\ Shape(T, S, sub, pos) /\ Heights(T, S, bh, Nil, Nil)
      /\ Reds(T, S, Nil, Nil) /\ ColorOf(T, T.root) = "black"
  BY DEF Sound
<1>2. /\ T \in Trees /\ S \subseteq TreeNodes /\ S \subseteq Pointers
      /\ Nil \notin S /\ Nil \in Pointers
      /\ \A n \in S, e \in Sides : T[e][n] \in S \cup {Nil} /\ T[e][n] # n
      /\ \A n \in S : T.parent[n] \in S \cup {Nil}
      /\ r \in S /\ r # x /\ T.parent[r] = x
      /\ \A e \in Sides : e = d \/ e = Opposite(d)
  BY <1>1, Neighbours, OtherSide
<1>3. T.color[r] = "red" /\ T.color[x] = "black"
  <2>1. /\ T.color[r] \in {"red", "black"} /\ T.color[x] \in {"red", "black"}
        /\ bh[Nil] = 0 /\ \A n \in S \cup {Nil} : bh[n] \in Nat
    BY <1>1, <1>2 DEF Heights
  <2>2. bh[T[d][x]] = bh[T[Opposite(d)][x]]
    <3>1. /\ bh[x] = bh[T[d][x]] + Weight(T, Nil, x) + (IF x = Nil THEN 1 ELSE 0)
          /\ bh[x] = bh[T[Opposite(d)][x]] + Weight(T, Nil, x)
                     + (IF x = Nil THEN 1 ELSE 0)
      BY <1>1, OtherSide DEF Heights
    <3>2. x # Nil /\ Weight(T, Nil, x) \in Nat
          /\ bh[T[d][x]] \in Nat /\ bh[T[Opposite(d)][x]] \in Nat
      BY <1>2, <2>1, OtherSide DEF Weight
    <3> DEFINE l == bh[T[d][x]]
               m == bh[T[Opposite(d)][x]]
               w == Weight(T, Nil, x)
    <3>3. bh[x] = l + w + 0 /\ bh[x] = m + w + 0 /\ w \in Nat /\ l \in Nat
          /\ m \in Nat
      BY <3>1, <3>2
    <3> HIDE DEF l, m, w
    <3>4. l = m
      BY <3>3
    <3> QED
      BY <3>4 DEF l, m
  <2>3. bh[r] = 0
    BY <2>1, <2>2
  <2>4. bh[r] = bh[T[d][r]] + Weight(T, Nil, r) /\ bh[T[d][r]] \in Nat
    BY <1>1, <1>2, <2>1 DEF Heights, Weight
  <2>5. T.color[r] = "red"
    BY <1>2, <2>1, <2>3, <2>4 DEF Weight
  <2>6. T.color[x] = "red" => ColorOf(T, r) = "black"
    BY <1>1, <1>2 DEF Reds, ColorOf
  <2> QED
    BY <1>2, <2>1, <2>5, <2>6 DEF ColorOf
<1>4. r = IF T.left[x] # Nil THEN T.left[x] ELSE T.right[x]
  <2>1. T["left"] = T.left /\ T["right"] = T.right
    BY <1>2, FieldTypes
  <2> QED
    BY <2>1 DEF Sides, Opposite
<1>5. /\ p \in Pointers /\ x \in TreeNodes /\ x # Nil /\ r \in Pointers
      /\ x \in Pointers /\ "left" \in Sides /\ "right" \in Sides
  BY <1>2 DEF Sides
<1>6. Unlink(T, x) = FixAfterDeletion(C, r)
  <2>1. C = [B EXCEPT !.left[x] = Nil, !.right[x] = Nil, !.parent[x] = Nil]
    BY <1>5 DEF WithChild, SetParent
  <2> HIDE DEF C, B
  <2> QED
    BY <1>3, <1>4, <2>1 DEF Unlink, B, A
<1> HIDE DEF p
<1>7. ParentIs(T, A, r, p) /\ A \in Trees
  <2>1. ParentIs(T, A, r, p)
    BY <1>2, <1>5, ParentSet
  <2> QED
    BY <2>1 DEF ParentIs
<1> HIDE DEF A
<1>8. LinkIs(A, B, x, r) /\ B \in Trees
  <2>1. LinkIs(A, B, x, r)
    BY <1>5, <1>7, Relinked
  <2> QED
    BY <2>1 DEF LinkIs
<1> HIDE DEF B
<1>9. ChildIs(B, C1, "left", x, Nil) /\ C1 \in Trees
  <2>1. ChildIs(B, C1, "left", x, Nil)
    BY <1>2, <1>5, <1>8, ChildSet
  <2> QED
    BY <2>1 DEF ChildIs
<1> HIDE DEF C1
<1>10. ChildIs(C1, C2, "right", x, Nil) /\ C2 \in Trees
  <2>1. ChildIs(C1, C2, "right", x, Nil)
    BY <1>2, <1>5, <1>9, ChildSet
  <2> QED
    BY <2>1 DEF ChildIs
<1> HIDE DEF C2
<1>11. ParentIs(C2, C, x, Nil) /\ C \in Trees
  <2>1. ParentIs(C2, C, x, Nil)
    BY <1>2, <1>5, <1>10, ParentSet
  <2> QED
    BY <2>1 DEF ParentIs
<1> HIDE DEF C
<1>12. C.color = T.color /\ SameEntries(T, C)
  BY <1>7, <1>8, <1>9, <1>10, <1>11 DEF ParentIs, LinkIs, ChildIs, SameEntries
<1>13. FixAfterDeletion(C, r) = D
  <2>1. Rested(C, r)
    BY <1>3, <1>12 DEF Rested, ColorOf
  <2> QED
    BY <1>5, <1>11, <2>1, FixStops
<1>14. ColorIs(C, D, r, "black") /\ D \in Trees
  <2>1. ColorIs(C, D, r, "black")
    BY <1>5, <1>11, ColorSet
  <2> QED
    BY <2>1 DEF ColorIs
<1> HIDE DEF D
<1>15. FreedIs(D, F, x)
  BY <1>5, <1>14, FreedFields
<1> HIDE DEF F
<1>16. /\ F \in Trees /\ F.root = B.root
       /\ F.key = [T.key EXCEPT ![x] = Nil]
       /\ F.data = [T.data EXCEPT ![x] = Nil]
  BY <1>9, <1>10, <1>11, <1>12, <1>14, <1>15
     DEF ParentIs, ChildIs, ColorIs, SameLinks, SameEntries, FreedIs
<1>17. \A m \in TreeNodes \ {x} :
           /\ F.parent[m] = IF m = r THEN p ELSE T.parent[m]
           /\ F.color[m] = IF m = r THEN "black" ELSE T.color[m]
  <2>1. \A m \in TreeNodes : B.parent[m] = IF m = r THEN p ELSE T.parent[m]
    BY <1>7, <1>8 DEF ParentIs, LinkIs
  <2>2. D.parent = C.parent /\ C2.parent = B.parent
    BY <1>9, <1>10, <1>14 DEF ChildIs, ColorIs, SameLinks
  <2> QED
    BY <1>11, <1>12, <1>14, <1>15, <2>1, <2>2 DEF FreedIs, ParentIs, ColorIs
<1>18. \A m \in TreeNodes, e \in Sides :
           F[e][m] = IF m = x THEN Nil ELSE B[e][m]
  <2>1. \A e \in Sides : D[e] = C2[e]
    <3>1. D.left = C2.left /\ D.right = C2.right
      BY <1>11, <1>14 DEF ParentIs, ColorIs, SameLinks
    <3> QED
      BY <1>10, <1>14, <3>1, FieldTypes DEF Sides
  <2> QED
    BY <1>9, <1>10, <1>15, <2>1 DEF FreedIs, ChildIs
<1>19. Cut(T, F, S, x, r)
  <2>1. A.root = T.root /\ A.left = T.left /\ A.right = T.right
        /\ A.parent[x] = T.parent[x]
    BY <1>2, <1>5, <1>7 DEF ParentIs
  <2>2. /\ B.root = IF T.root = x THEN r ELSE T.root
        /\ \A n \in S, e \in Sides :
               B[e][n] = IF T[e][n] = x THEN r ELSE T[e][n]
        /\ \A n \in TreeNodes \ S, e \in Sides : B[e][n] = Nil
    BY <1>1, <1>5, <1>7, <1>8, <2>1, RelinkCuts
  <2>3. \A n \in S \ {x} :
           F.parent[n] = IF n = r THEN T.parent[x] ELSE T.parent[n]
    BY <1>2, <1>17 DEF p
  <2>4. \A n \in S \ {x}, e \in Sides :
           F[e][n] = IF T[e][n] = x THEN r ELSE T[e][n]
    BY <1>2, <1>18, <2>2
  <2>5. \A n \in TreeNodes \ (S \ {x}), e \in Sides : F[e][n] = Nil
    BY <1>18, <2>2
  <2> QED
    BY <1>16, <2>2, <2>3, <2>4, <2>5 DEF Cut
<1>20. \A n \in S \ {x} :
             F.color[n] = IF n = r THEN "black" ELSE T.color[n]
  BY <1>2, <1>17
<1>21. \E su, bu : Sound(F, S \ {x}, su, pos, bu)
  BY <1>1, <1>3, <1>19, <1>20, CutKeepsSound
<1>22. UnlinkedIs(T, F, S, pos, x)
  BY <1>16, <1>21 DEF UnlinkedIs
<1> QED
  BY <1>6, <1>13, <1>22 DEF F

\* x is a leaf of A, not the root, and nothing is wrong in A but that x does
\* not count.
LeafFit(A, S, sub, pos, bh, x) ==
    /\ Shape(A, S, sub, pos) /\ Heights(A, S, bh, x, Nil)
    /\ Reds(A, S, Nil, Nil) /\ ColorOf(A, A.root) = "black"
    /\ A.root # x /\ \A d \in Sides : A[d][x] = Nil

\* A tree of one node loses it.
LEMMA LastUnlinked ==
  ASSUME NEW T, NEW S, NEW sub, NEW pos, NEW bh, Sound(T, S, sub, pos, bh),
         NEW x \in S, \A d \in Sides : T[d][x] = Nil, T.parent[x] = Nil
  PROVE  UnlinkedIs(T, Freed(Unlink(T, x), x), S, pos, x)
<1> DEFINE U == [T EXCEPT !.root = Nil]
           F == Freed(U, x)
           su == [n \in Pointers |-> sub[n] \ {x}]
           bu == [n \in Pointers |-> 0]
<1>1. Shape(T, S, sub, pos)
  BY DEF Sound
<1>2. /\ T \in Trees /\ S \subseteq TreeNodes /\ Nil \in Pointers
      /\ Nil \notin S /\ T.root = x
  BY <1>1, Neighbours
<1>3. T["left"] = T.left /\ T["right"] = T.right
      /\ "left" \in Sides /\ "right" \in Sides /\ Opposite("left") = "right"
  BY <1>2, FieldTypes DEF Sides, Opposite
<1>4. Unlink(T, x) = U
  BY <1>3 DEF Unlink
<1>5. S = {x}
  BY <1>1, <1>2, <1>3 DEF Shape, Ordered
<1>6. /\ U \in Trees /\ U.root = Nil /\ U.left = T.left /\ U.right = T.right
      /\ U.key = T.key /\ U.data = T.data /\ U.parent = T.parent
      /\ U.color = T.color
  BY <1>2 DEF Trees
<1>7. \A e \in Sides : U[e] = T[e]
  BY <1>3, <1>6, FieldTypes DEF Sides
<1> HIDE DEF U
<1>8. FreedIs(U, F, x)
  BY <1>2, <1>6, FreedFields
<1> HIDE DEF F
<1>9. Cut(T, F, S, x, Nil)
  <2>1. \A n \in TreeNodes \ S, e \in Sides : T[e][n] = Nil
    BY <1>1 DEF Shape, Pointed
  <2>2. S \ {x} = {}
    BY <1>5
  <2>3. F \in Trees /\ F.root = Nil
    BY <1>6, <1>8 DEF FreedIs
  <2>4. \A m \in TreeNodes, e \in Sides : F[e][m] = IF m = x THEN Nil ELSE T[e][m]
    BY <1>7, <1>8 DEF FreedIs
  <2>5. \A m \in TreeNodes \ (S \ {x}), e \in Sides : F[e][m] = Nil
    BY <1>5, <2>1, <2>4
  <2> QED
    BY <1>2, <2>2, <2>3, <2>5 DEF Cut
<1>10. Shape(F, S \ {x}, su, pos)
  <2>1. PICK d \in Sides : d = "left"
    BY <1>3
  <2>2. Nil = T[d][x] /\ T[Opposite(d)][x] = Nil
    BY <1>3, <2>1
  <2> QED
    BY <1>1, <1>9, <2>2, CutKeepsShape
<1>11. F.root = Nil
  BY <1>6, <1>8 DEF FreedIs
<1>12. Heights(F, S \ {x}, bu, Nil, Nil) /\ Reds(F, S \ {x}, Nil, Nil)
  BY <1>2, <1>5 DEF Heights, Reds
<1>13. Sound(F, S \ {x}, su, pos, bu)
  BY <1>10, <1>11, <1>12 DEF Sound, ColorOf
<1>14. /\ F.key = [T.key EXCEPT ![x] = Nil]
       /\ F.data = [T.data EXCEPT ![x] = Nil]
  BY <1>6, <1>8 DEF FreedIs
<1> HIDE DEF su, bu
<1>15. UnlinkedIs(T, F, S, pos, x)
  BY <1>13, <1>14 DEF UnlinkedIs
<1> QED
  BY <1>4, <1>15 DEF F

\* What a leaf x with a parent leaves to the rest before it is unlinked.
LEMMA LeafMended ==
  ASSUME NEW T, NEW S, NEW sub, NEW pos, NEW bh, Sound(T, S, sub, pos, bh),
         NEW x \in S, \A d \in Sides : T[d][x] = Nil, T.parent[x] # Nil
  PROVE  LET A == IF T.color[x] = "black" THEN FixAfterDeletion(T, x) ELSE T
         IN /\ \E su, bu : LeafFit(A, S, su, pos, bu, x)
            /\ SameEntries(T, A)
<1> DEFINE A == IF T.color[x] = "black" THEN FixAfterDeletion(T, x) ELSE T
<1>1. /\ Shape(T, S, sub, pos) /\ Heights(T, S, bh, Nil, Nil)
      /\ Reds(T, S, Nil, Nil) /\ ColorOf(T, T.root) = "black"
  BY DEF Sound
<1>2. /\ T \in Trees /\ S \subseteq TreeNodes /\ S \subseteq Pointers
      /\ Nil \in Pointers /\ Nil \notin S /\ T.root # x
      /\ T.root \in S /\ T.root # Nil
  BY <1>1, Neighbours, RootThere
<1>3. CASE T.color[x] = "black"
  <2>1. /\ bh \in [Pointers -> Nat] /\ bh[Nil] = 0
        /\ \A n \in S : T.color[n] \in {"red", "black"}
        /\ \A n \in S, d \in Sides :
             bh[n] = bh[T[d][n]] + Weight(T, Nil, n) + (IF n = Nil THEN 1 ELSE 0)
    BY <1>1 DEF Heights
  <2>2. ASSUME NEW n \in S, NEW d \in Sides
        PROVE  Weight(T, Nil, n) + (IF n = Nil THEN 1 ELSE 0)
               = Weight(T, x, n) + (IF n = x THEN 1 ELSE 0)
    BY <1>2, <1>3 DEF Weight
  <2>3. ASSUME NEW n \in S, NEW d \in Sides
        PROVE  bh[n] = bh[T[d][n]] + Weight(T, x, n) + (IF n = x THEN 1 ELSE 0)
    <3>1. bh[T[d][n]] \in Nat
      BY <1>1, <1>2, <2>1, Neighbours
    <3>2. Weight(T, Nil, n) \in Nat /\ Weight(T, x, n) \in Nat
      BY DEF Weight
    <3> DEFINE h == bh[T[d][n]]
               v == Weight(T, Nil, n)
               w == Weight(T, x, n)
    <3>3. bh[n] = h + v + (IF n = Nil THEN 1 ELSE 0)
          /\ v + (IF n = Nil THEN 1 ELSE 0) = w + (IF n = x THEN 1 ELSE 0)
          /\ h \in Nat /\ v \in Nat /\ w \in Nat
      BY <2>1, <2>2, <3>1, <3>2
    <3> HIDE DEF h, v, w
    <3>4. bh[n] = h + w + (IF n = x THEN 1 ELSE 0)
      BY <3>3
    <3> QED
      BY <3>4 DEF h, w
  <2>4. Heights(T, S, bh, x, x)
    BY <2>1, <2>3 DEF Heights
  <2>5. Reds(T, S, x, Nil)
    BY <1>1, <1>2 DEF Reds
  <2>6. Doomed(T, S, x)
    BY <1>2, <1>3 DEF Doomed
  <2>7. Short(T, S, sub, pos, bh, x, x)
    BY <1>1, <1>2, <2>4, <2>5, <2>6 DEF Short, ColorOf
  <2>8. Fixing(T, S, pos, x, x)
    BY <2>7 DEF Fixing
  <2>9. CalmAfter(T, A, S, pos, x)
    BY <1>3, <2>8, DeletionFixed
  <2> HIDE DEF A
  <2>10. PICK su, bu : Calm(A, S, su, pos, bu, x)
    BY <2>9 DEF CalmAfter
  <2>11. LeafFit(A, S, su, pos, bu, x)
    BY <1>2, <2>10 DEF LeafFit, Calm, Doomed
  <2>12. SameEntries(T, A)
    BY <2>9 DEF CalmAfter
  <2>13. (\E s, b : LeafFit(A, S, s, pos, b, x)) /\ SameEntries(T, A)
    BY <2>11, <2>12
  <2> QED
    BY <2>13 DEF A
<1>4. CASE T.color[x] # "black"
  <2>1. \A n \in S : Weight(T, x, n) = Weight(T, Nil, n)
    BY <1>2, <1>4 DEF Weight
  <2>2. Heights(T, S, bh, x, Nil)
    BY <1>1, <2>1 DEF Heights
  <2>3. LeafFit(T, S, sub, pos, bh, x)
    BY <1>1, <1>2, <2>2 DEF LeafFit
  <2>4. SameEntries(T, T)
    BY DEF SameEntries
  <2> QED
    BY <1>4, <2>3, <2>4
<1> QED
  BY <1>3, <1>4

\* A leaf with a parent is unlinked.
LEMMA LeafUnlinked ==
  ASSUME NEW T, NEW S, NEW sub, NEW pos, NEW bh, Sound(T, S, sub, pos, bh),
         NEW x \in S, \A d \in Sides : T[d][x] = Nil, T.parent[x] # Nil
  PROVE  UnlinkedIs(T, Freed(Unlink(T, x), x), S, pos, x)
<1> DEFINE A == IF T.color[x] = "black" THEN FixAfterDeletion(T, x) ELSE T
           U == Relink(A, x, Nil)
           V == SetParent(U, x, Nil)
           F == Freed(V, x)
<1>1. Shape(T, S, sub, pos) /\ T \in Trees
  BY DEF Sound, Shape
<1>2. /\ S \subseteq TreeNodes /\ Nil \in Pointers /\ Nil \notin S
      /\ x \in Pointers /\ x # Nil /\ x \in TreeNodes
  BY <1>1, Neighbours
<1>3. "left" \in Sides /\ "right" \in Sides /\ Opposite("left") = "right"
  BY DEF Sides, Opposite
<1>4. (\E su, bu : LeafFit(A, S, su, pos, bu, x)) /\ SameEntries(T, A)
  BY LeafMended
<1> HIDE DEF A
<1>5. PICK su, bu : LeafFit(A, S, su, pos, bu, x)
  BY <1>4
<1>6. /\ Shape(A, S, su, pos) /\ A \in Trees /\ Heights(A, S, bu, x, Nil)
      /\ Reds(A, S, Nil, Nil) /\ ColorOf(A, A.root) = "black"
      /\ A.root # x /\ A["left"][x] = Nil /\ A["right"][x] = Nil
  BY <1>3, <1>5 DEF LeafFit, Shape
<1>7. A.parent[x] # Nil
  BY <1>6, Neighbours
<1>8. Unlink(T, x) = V
  <2>1. T.left[x] = Nil /\ T.right[x] = Nil
    BY <1>1, <1>3, FieldTypes
  <2>2. V = [U EXCEPT !.parent[x] = Nil]
    BY <1>2 DEF SetParent
  <2> HIDE DEF V
  <2> QED
    BY <1>7, <2>1, <2>2 DEF Unlink, A
<1>9. LinkIs(A, U, x, Nil) /\ U \in Trees
  <2>1. LinkIs(A, U, x, Nil)
    BY <1>2, <1>6, Relinked
  <2> QED
    BY <2>1 DEF LinkIs
<1> HIDE DEF U
<1>10. ParentIs(U, V, x, Nil) /\ V \in Trees
  <2>1. ParentIs(U, V, x, Nil)
    BY <1>2, <1>9, ParentSet
  <2> QED
    BY <2>1 DEF ParentIs
<1> HIDE DEF V
<1>11. FreedIs(V, F, x)
  BY <1>2, <1>10, FreedFields
<1> HIDE DEF F
<1>12. /\ U.root = IF A.root = x THEN Nil ELSE A.root
       /\ \A n \in S, e \in Sides :
              U[e][n] = IF A[e][n] = x THEN Nil ELSE A[e][n]
       /\ \A n \in TreeNodes \ S, e \in Sides : U[e][n] = Nil
  BY <1>2, <1>6, <1>9, RelinkCuts
<1>13. \A e \in Sides : V[e] = U[e]
  <2>1. V.left = U.left /\ V.right = U.right
    BY <1>10 DEF ParentIs
  <2> QED
    BY <1>9, <1>10, <2>1, FieldTypes DEF Sides
<1>14. \A m \in TreeNodes, e \in Sides :
           F[e][m] = IF m = x THEN Nil ELSE U[e][m]
  BY <1>11, <1>13 DEF FreedIs
<1>15. \A m \in TreeNodes \ {x} : /\ F.parent[m] = A.parent[m]
                                  /\ F.color[m] = A.color[m]
  BY <1>9, <1>10, <1>11 DEF LinkIs, ParentIs, FreedIs
<1>16. F \in Trees /\ F.root = U.root
  BY <1>10, <1>11 DEF FreedIs, ParentIs
<1>17. Cut(A, F, S, x, Nil)
  <2>1. \A n \in S \ {x} : n # Nil /\ n \in TreeNodes
    BY <1>2
  <2>2. \A n \in S \ {x}, e \in Sides :
           F[e][n] = IF A[e][n] = x THEN Nil ELSE A[e][n]
    BY <1>12, <1>14, <2>1
  <2>3. \A n \in TreeNodes \ (S \ {x}), e \in Sides : F[e][n] = Nil
    BY <1>12, <1>14
  <2> QED
    BY <1>12, <1>15, <1>16, <2>1, <2>2, <2>3 DEF Cut
<1>18. \A n \in S \ {x} :
             F.color[n] = IF n = Nil THEN "black" ELSE A.color[n]
  BY <1>2, <1>15
<1>19. \E sv, bv : Sound(F, S \ {x}, sv, pos, bv)
  BY <1>3, <1>6, <1>17, <1>18, CutKeepsSound
<1>20. /\ F.key = [T.key EXCEPT ![x] = Nil]
       /\ F.data = [T.data EXCEPT ![x] = Nil]
  BY <1>4, <1>9, <1>10, <1>11 DEF LinkIs, ParentIs, FreedIs, SameEntries
<1>21. UnlinkedIs(T, F, S, pos, x)
  BY <1>19, <1>20 DEF UnlinkedIs
<1> QED
  BY <1>8, <1>21 DEF F

\* Unlink and free, of a node with at most one child.
LEMMA NodeUnlinked ==
  ASSUME NEW T, NEW S, NEW sub, NEW pos, NEW bh, Sound(T, S, sub, pos, bh),
         NEW x \in S, NEW d \in Sides, T[d][x] = Nil
  PROVE  UnlinkedIs(T, Freed(Unlink(T, x), x), S, pos, x)
<1>1. /\ Opposite(d) \in Sides /\ Opposite(Opposite(d)) = d
      /\ \A e \in Sides : e = d \/ e = Opposite(d)
  BY OtherSide
<1>2. CASE T[Opposite(d)][x] # Nil
  BY <1>1, <1>2, InnerUnlinked
<1>3. CASE T[Opposite(d)][x] = Nil
  <2>1. \A e \in Sides : T[e][x] = Nil
    BY <1>1, <1>3
  <2> QED
    BY <2>1, LastUnlinked, LeafUnlinked
<1> QED
  BY <1>2, <1>3

\* The nodes may be ordered by any other keys in the same order.
LEMMA Reordered ==
  ASSUME NEW T, NEW S, NEW sub, NEW pos, NEW bh, Sound(T, S, sub, pos, bh),
         NEW key, \A m \in S : key[m] \in Int,
         \A m, k \in S : pos[m] < pos[k] => key[m] < key[k]
  PROVE  Sound(T, S, sub, key, bh)
<1>1. Shape(T, S, sub, pos)
  BY DEF Sound
<1>2. \A n \in S, d \in Sides : sub[T[d][n]] \subseteq S
  BY <1>1, Neighbours, SMTT(30) DEF Shape, Ordered
<1>3. \A n \in S, d \in Sides : \A m \in sub[T[d][n]] :
          Before(d, pos[m], pos[n])
  BY <1>1 DEF Shape, Ordered
<1>4. \A n \in S, d \in Sides : \A m \in sub[T[d][n]] :
          Before(d, key[m], key[n])
  <2> TAKE n \in S, d \in Sides
  <2> TAKE m \in sub[T[d][n]]
  <2>1. m \in S /\ Before(d, pos[m], pos[n]) /\ pos[m] \in Int /\ pos[n] \in Int
    BY <1>1, <1>2, <1>3 DEF Shape, Ordered
  <2>2. key[m] \in Int /\ key[n] \in Int
    BY <2>1
  <2> QED
    BY <2>1, <2>2 DEF Before
<1>5. Shape(T, S, sub, key)
  BY <1>1, <1>4 DEF Shape, Ordered
<1> QED
  BY <1>5 DEF Sound

\* F is T without the entry of n; the node that went is x.
DeletedIs(T, F, S, n, x) ==
    /\ x \in S
    /\ \E su, bu : Sound(F, S \ {x}, su, F.key, bu)
    /\ \A m \in S \ {x} :
         /\ F.key[m] = IF m = n THEN T.key[x] ELSE T.key[m]
         /\ F.data[m] = IF m = n THEN T.data[x] ELSE T.data[m]

\* TxDelete of the node n, whichever node it is that goes.
LEMMA NodeDeleted ==
  ASSUME NEW T, NEW S, NEW sub, NEW bh, Sound(T, S, sub, T.key, bh),
         NEW n \in S
  PROVE  LET e == Emptied(T, n)
         IN DeletedIs(T, Freed(Unlink(e.tree, e.node), e.node), S, n, e.node)
<1> DEFINE Gone(U, x) == Freed(Unlink(U, x), x)
<1>1. /\ Shape(T, S, sub, T.key) /\ Heights(T, S, bh, Nil, Nil)
      /\ Reds(T, S, Nil, Nil) /\ ColorOf(T, T.root) = "black"
  BY DEF Sound
<1>2. /\ T \in Trees /\ S \subseteq TreeNodes
      /\ \A m \in S : T.key[m] \in Int
  BY <1>1, Neighbours, SMTT(30) DEF Shape, Ordered
<1>3. T["left"] = T.left /\ T["right"] = T.right
      /\ "left" \in Sides /\ "right" \in Sides
  BY <1>2, FieldTypes DEF Sides
<1>4. /\ T.key \in [TreeNodes -> TreeKeys \cup {Nil}]
      /\ T.data \in [TreeNodes -> TreeData \cup {Nil}]
  BY <1>2, FieldTypes DEF TreeKeys, TreeData
<1>5. CASE ~(T.left[n] # Nil /\ T.right[n] # Nil)
  <2>1. Emptied(T, n) = [tree |-> T, node |-> n]
    BY <1>5 DEF Emptied
  <2>2. \E d \in Sides : T[d][n] = Nil
    BY <1>3, <1>5
  <2> DEFINE F == Gone(T, n)
  <2>3. UnlinkedIs(T, F, S, T.key, n)
    BY <2>2, NodeUnlinked
  <2> HIDE DEF F
  <2>4. PICK su, bu : Sound(F, S \ {n}, su, T.key, bu)
    BY <2>3 DEF UnlinkedIs
  <2>5. \A m \in S \ {n} : F.key[m] = T.key[m] /\ F.data[m] = T.data[m]
    BY <1>2, <1>4, <2>3 DEF UnlinkedIs
  <2>6. Sound(F, S \ {n}, su, F.key, bu)
    <3> DEFINE R == S \ {n}
               key == F.key
    <3>1. /\ \A m \in R : key[m] \in Int
          /\ \A m, k \in R : T.key[m] < T.key[k] => key[m] < key[k]
          /\ Sound(F, R, su, T.key, bu)
      BY <1>2, <2>4, <2>5
    <3> HIDE DEF R, key
    <3>2. Sound(F, R, su, key, bu)
      BY <3>1, Reordered
    <3> QED
      BY <3>2 DEF R, key
  <2>7. DeletedIs(T, F, S, n, n)
    BY <2>5, <2>6 DEF DeletedIs
  <2> QED
    BY <2>1, <2>7 DEF F
<1>6. CASE T.left[n] # Nil /\ T.right[n] # Nil
  <2> DEFINE s == Successor(T, n)
             U == [T EXCEPT !.key[n] = T.key[s], !.data[n] = T.data[s]]
             F == Gone(U, s)
  <2>1. Emptied(T, n) = [tree |-> U, node |-> s]
    BY <1>6 DEF Emptied
  <2>2. /\ s \in S /\ s # n /\ T.left[s] = Nil
        /\ T.key[n] < T.key[s]
        /\ \A m \in S : T.key[m] <= T.key[n] \/ T.key[s] <= T.key[m]
        /\ \A m \in S : T.key[m] = T.key[s] => m = s
    BY <1>1, <1>6, SuccessorFound
  <2> HIDE DEF s
  <2>3. /\ U \in Trees /\ SameLinks(T, U) /\ U.color = T.color
        /\ U.key = [T.key EXCEPT ![n] = T.key[s]]
        /\ U.data = [T.data EXCEPT ![n] = T.data[s]]
    <3> DEFINE V == [T EXCEPT !.key[n] = T.key[s]]
    <3>1. V \in Trees /\ V = [T EXCEPT !.key = [T.key EXCEPT ![n] = T.key[s]]]
      BY <1>2, <1>4, <2>2 DEF Trees, TreeKeys, TreeData
    <3>2. U = [V EXCEPT !.data = [V.data EXCEPT ![n] = T.data[s]]]
          /\ V.data = T.data
      BY <1>2 DEF Trees
    <3>3. [T.data EXCEPT ![n] = T.data[s]] \in [TreeNodes -> TreeData \cup {Nil}]
      BY <1>2, <1>4, <2>2
    <3>4. U \in Trees
      <4> HIDE DEF V, U
      <4> QED
        BY <3>1, <3>2, <3>3, Zenon DEF Trees, TreeData
    <3> QED
      BY <1>2, <3>4 DEF Trees, SameLinks
  <2> HIDE DEF U
  <2>4. Sound(U, S, sub, T.key, bh)
    <3>1. Shape(U, S, sub, T.key) /\ \A d \in Sides : U[d] = T[d]
      BY <1>1, <2>3, ShapeColored
    <3>2. Heights(U, S, bh, Nil, Nil)
      BY <1>1, <2>3, <3>1 DEF Heights, Weight
    <3>3. Reds(U, S, Nil, Nil) /\ ColorOf(U, U.root) = "black"
      BY <1>1, <2>3, <3>1 DEF Reds, ColorOf, SameLinks
    <3> QED
      BY <3>1, <3>2, <3>3 DEF Sound
  <2>5. U["left"][s] = Nil
    BY <1>3, <2>2, <2>3, FieldTypes DEF SameLinks
  <2>6. UnlinkedIs(U, F, S, T.key, s)
    BY <1>3, <2>2, <2>4, <2>5, NodeUnlinked
  <2> HIDE DEF F
  <2>7. PICK su, bu : Sound(F, S \ {s}, su, T.key, bu)
    BY <2>6 DEF UnlinkedIs
  <2>8. \A m \in S \ {s} :
           /\ F.key[m] = IF m = n THEN T.key[s] ELSE T.key[m]
           /\ F.data[m] = IF m = n THEN T.data[s] ELSE T.data[m]
    BY <1>2, <1>4, <2>3, <2>6 DEF UnlinkedIs
  <2>9. Sound(F, S \ {s}, su, F.key, bu)
    <3> DEFINE R == S \ {s}
               key == F.key
               old == T.key
    <3>1. /\ \A m \in R : m \in S /\ m # s
          /\ \A m \in S : old[m] \in Int
          /\ \A m \in R : key[m] = IF m = n THEN old[s] ELSE old[m]
          /\ Sound(F, R, su, old, bu)
          /\ s \in S /\ n \in S /\ s # n /\ old[n] < old[s]
          /\ \A m \in S : old[m] <= old[n] \/ old[s] <= old[m]
          /\ \A m \in S : old[m] = old[s] => m = s
      BY <1>2, <2>2, <2>7, <2>8
    <3> HIDE DEF R, key, old
    <3>2. \A m \in R : key[m] \in Int
      BY <3>1
    <3>3. ASSUME NEW m \in R, NEW k \in R, old[m] < old[k]
          PROVE  key[m] < key[k]
      <4>1. CASE m = n
        <5>1. k # n /\ old[k] # old[s] /\ old[s] <= old[k]
          BY <3>1, <3>3, <4>1
        <5> QED
          BY <3>1, <4>1, <5>1
      <4>2. CASE m # n
        BY <3>1, <3>3, <4>2
      <4> QED
        BY <4>1, <4>2
    <3>4. Sound(F, R, su, key, bu)
      BY <3>1, <3>2, <3>3, Reordered
    <3> QED
      BY <3>4 DEF R, key
  <2>10. DeletedIs(T, F, S, n, s)
    BY <2>2, <2>8, <2>9 DEF DeletedIs
  <2> QED
    BY <2>1, <2>10 DEF F
<1> QED
  BY <1>5, <1>6

-----------------------------------------------------------------------------
(* The measures of the invariant, and the invariant *)

\* Nodes finds the subtrees.
LEMMA NodesAre ==
  ASSUME NEW S, NEW sub, NEW pos, Shape(tree, S, sub, pos)
  PROVE  \A n \in S \cup {Nil} : Nodes(n) = sub[n]
<1> DEFINE Walk(f) ==
               f = [m \in Pointers |->
                       IF m = Nil THEN {}
                       ELSE {m} \cup f[tree.left[m]] \cup f[tree.right[m]]]
           w == CHOOSE f : Walk(f)
           f0 == [m \in Pointers |-> IF m \in S \cup {Nil} THEN sub[m] ELSE {m}]
<1>1. /\ S \subseteq TreeNodes /\ S \subseteq Pointers
      /\ Nil \in Pointers /\ Nil \notin S
      /\ \A n \in S, e \in Sides : tree[e][n] \in S \cup {Nil}
  BY Neighbours
<1>2. /\ sub[Nil] = {}
      /\ \A n \in S : sub[n] = {n} \cup sub[tree.left[n]] \cup sub[tree.right[n]]
      /\ \A n \in TreeNodes \ S, e \in Sides : tree[e][n] = Nil
      /\ tree \in Trees
  BY DEF Shape, Ordered, Pointed
<1>3. /\ \A n \in S : tree.left[n] \in S \cup {Nil} /\ tree.right[n] \in S \cup {Nil}
      /\ \A n \in TreeNodes \ S : tree.left[n] = Nil /\ tree.right[n] = Nil
  BY <1>1, <1>2, FieldTypes DEF Sides
<1>4. Walk(f0)
  <2>1. ASSUME NEW m \in Pointers
        PROVE  f0[m] = IF m = Nil THEN {}
                       ELSE {m} \cup f0[tree.left[m]] \cup f0[tree.right[m]]
    <3>1. CASE m \in S
      BY <1>1, <1>2, <1>3, <3>1, Zenon
    <3>2. CASE m = Nil
      BY <1>2, <3>2
    <3>3. CASE m \notin S /\ m # Nil
      <4>1. m \in TreeNodes
        BY <3>3 DEF Pointers
      <4> QED
        BY <1>1, <1>2, <1>3, <3>3, <4>1
    <3> QED
      BY <3>1, <3>2, <3>3
  <2>2. f0 = [m \in Pointers |-> f0[m]]
    OBVIOUS
  <2> HIDE DEF f0
  <2> QED
    BY <2>1, <2>2
<1>5. Walk(w)
  <2> HIDE DEF Walk, f0
  <2> QED
    BY <1>4
<1>6. \A n \in S \cup {Nil} : w[n] = sub[n]
  <2> DEFINE B == {n \in S : w[n] # sub[n]}
  <2>1. /\ w[Nil] = {}
        /\ \A n \in S : w[n] = {n} \cup w[tree.left[n]] \cup w[tree.right[n]]
    <3> HIDE DEF w
    <3> QED
      BY <1>1, <1>5, Zenon
  <2> HIDE DEF w
  <2>2. SUFFICES ASSUME B # {} PROVE FALSE
    BY <1>2, <2>1
  <2>3. PICK n \in B : \A d \in Sides : tree[d][n] \notin B
    <3>1. B \subseteq S
      OBVIOUS
    <3> HIDE DEF B
    <3> QED
      BY <2>2, <3>1, Lowest
  <2>4. tree.left[n] \notin B /\ tree.right[n] \notin B
    BY <1>2, <2>3, FieldTypes DEF Sides
  <2>5. /\ w[tree.left[n]] = sub[tree.left[n]]
        /\ w[tree.right[n]] = sub[tree.right[n]]
    BY <1>2, <1>3, <2>1, <2>4
  <2>6. n \in S /\ w[n] # sub[n]
    OBVIOUS
  <2>7. /\ w[n] = {n} \cup w[tree.left[n]] \cup w[tree.right[n]]
        /\ sub[n] = {n} \cup sub[tree.left[n]] \cup sub[tree.right[n]]
    BY <1>2, <2>1, <2>6
  <2> QED
    BY <2>5, <2>6, <2>7
<1>7. \A n : Nodes(n) = w[n]
  BY DEF Nodes
<1> HIDE DEF w
<1> QED
  BY <1>6, <1>7

\* BlackHeight finds the heights.
LEMMA HeightsAre ==
  ASSUME NEW S, NEW sub, NEW pos, NEW bh, Sound(tree, S, sub, pos, bh)
  PROVE  \A n \in S \cup {Nil} : BlackHeight(n) = bh[n]
<1> DEFINE Black(m) == IF tree.color[m] = "black" THEN 1 ELSE 0
           Height(l, r, m) == IF l = -1 \/ l # r THEN -1 ELSE l + Black(m)
           Walk(f) ==
               f = [m \in Pointers |->
                       IF m = Nil THEN 0
                       ELSE Height(f[tree.left[m]], f[tree.right[m]], m)]
           w == CHOOSE f : Walk(f)
           f0 == [m \in Pointers |-> IF m \in S \cup {Nil} THEN bh[m] ELSE Black(m)]
<1>1. /\ Shape(tree, S, sub, pos) /\ Heights(tree, S, bh, Nil, Nil)
  BY DEF Sound
<1>2. /\ S \subseteq TreeNodes /\ S \subseteq Pointers
      /\ Nil \in Pointers /\ Nil \notin S
      /\ \A n \in S, e \in Sides : tree[e][n] \in S \cup {Nil}
  BY <1>1, Neighbours
<1>3. /\ \A n \in TreeNodes \ S, e \in Sides : tree[e][n] = Nil
      /\ tree \in Trees
  BY <1>1 DEF Shape, Pointed
<1>4. /\ \A n \in S : tree.left[n] \in S \cup {Nil} /\ tree.right[n] \in S \cup {Nil}
      /\ \A n \in TreeNodes \ S : tree.left[n] = Nil /\ tree.right[n] = Nil
  BY <1>2, <1>3, FieldTypes DEF Sides
<1>5. /\ bh[Nil] = 0 /\ \A n \in S \cup {Nil} : bh[n] \in Nat
  BY <1>1, <1>2 DEF Heights
<1>6. ASSUME NEW n \in S
      PROVE  bh[n] = Height(bh[tree.left[n]], bh[tree.right[n]], n)
  <2>1. \A d \in Sides : bh[n] = bh[tree[d][n]] + Weight(tree, Nil, n)
                                 + (IF n = Nil THEN 1 ELSE 0)
    BY <1>1 DEF Heights
  <2>2. Weight(tree, Nil, n) = Black(n) /\ n # Nil
    BY <1>2 DEF Weight
  <2>3. /\ bh[n] = bh[tree.left[n]] + Black(n) + 0
        /\ bh[n] = bh[tree.right[n]] + Black(n) + 0
    BY <1>3, <2>1, <2>2, FieldTypes DEF Sides
  <2> DEFINE l == bh[tree.left[n]]
             r == bh[tree.right[n]]
             b == Black(n)
  <2>4. /\ bh[n] = l + b + 0 /\ bh[n] = r + b + 0
        /\ l \in Nat /\ r \in Nat /\ b \in Nat
    BY <1>4, <1>5, <2>3
  <2>5. Height(l, r, n) = IF l = -1 \/ l # r THEN -1 ELSE l + b
    OBVIOUS
  <2> HIDE DEF l, r, b, Height
  <2>6. bh[n] = Height(l, r, n)
    BY <2>4, <2>5
  <2> QED
    BY <2>6 DEF l, r
<1> HIDE DEF Height
<1>7. \A n : Height(0, 0, n) = Black(n)
  BY DEF Height
<1>8. Walk(f0)
  <2>1. ASSUME NEW m \in Pointers
        PROVE  f0[m] = IF m = Nil THEN 0
                       ELSE Height(f0[tree.left[m]], f0[tree.right[m]], m)
    <3> HIDE DEF Black
    <3>1. CASE m \in S
      <4>1. /\ f0[tree.left[m]] = bh[tree.left[m]]
            /\ f0[tree.right[m]] = bh[tree.right[m]]
            /\ f0[m] = bh[m] /\ m # Nil
        BY <1>2, <1>4, <3>1
      <4> HIDE DEF f0
      <4> QED
        BY <1>6, <3>1, <4>1
    <3>2. CASE m = Nil
      BY <1>5, <3>2
    <3>3. CASE m \notin S /\ m # Nil
      <4>1. m \in TreeNodes
        BY <3>3 DEF Pointers
      <4>2. f0[m] = Black(m) /\ tree.left[m] = Nil /\ tree.right[m] = Nil
        BY <1>4, <3>3, <4>1
      <4>3. f0[Nil] = 0
        BY <1>2, <1>5
      <4> HIDE DEF f0
      <4> QED
        BY <1>7, <3>3, <4>2, <4>3
    <3> QED
      BY <3>1, <3>2, <3>3
  <2>2. f0 = [m \in Pointers |-> f0[m]]
    OBVIOUS
  <2> HIDE DEF f0
  <2> QED
    BY <2>1, <2>2
<1>9. Walk(w)
  <2> HIDE DEF Walk, f0
  <2> QED
    BY <1>8
<1>10. \A n \in S \cup {Nil} : w[n] = bh[n]
  <2> DEFINE B == {n \in S : w[n] # bh[n]}
  <2>1. /\ w[Nil] = 0
        /\ \A n \in S : w[n] = Height(w[tree.left[n]], w[tree.right[n]], n)
    <3> HIDE DEF w
    <3> QED
      BY <1>2, <1>9
  <2> HIDE DEF w
  <2>2. SUFFICES ASSUME B # {} PROVE FALSE
    BY <1>5, <2>1
  <2>3. PICK n \in B : \A d \in Sides : tree[d][n] \notin B
    <3>1. B \subseteq S
      OBVIOUS
    <3> HIDE DEF B
    <3> QED
      BY <1>1, <2>2, <3>1, Lowest
  <2>4. tree.left[n] \notin B /\ tree.right[n] \notin B
    BY <1>3, <2>3, FieldTypes DEF Sides
  <2>5. /\ w[tree.left[n]] = bh[tree.left[n]]
        /\ w[tree.right[n]] = bh[tree.right[n]]
    BY <1>4, <1>5, <2>1, <2>4
  <2> QED
    BY <1>6, <2>1, <2>5
<1>11. \A n : BlackHeight(n) = w[n]
  BY DEF BlackHeight, Height, Black
<1> HIDE DEF w
<1> QED
  BY <1>10, <1>11

\* The nodes in use are those of a sound tree.
TreeInv == \E sub, bh : Sound(tree, nodesUsed, sub, tree.key, bh)

\* The empty tree is sound.
LEMMA TreeInvInit == TreeInit => TreeInv
<1> SUFFICES ASSUME TreeInit PROVE TreeInv
  OBVIOUS
<1> DEFINE sub == [n \in Pointers |-> {}]
           bh == [n \in Pointers |-> 0]
<1>1. Nil \in Pointers
  BY DEF Pointers
<1>2. tree.root = Nil /\ nodesUsed = {}
  BY DEF TreeInit
<1>3. tree \in Trees
  BY <1>1 DEF TreeInit, Trees, AllNil
<1>4. \A n \in TreeNodes : tree.left[n] = Nil /\ tree.right[n] = Nil
  BY DEF TreeInit, AllNil
<1>5. \A n \in TreeNodes, d \in Sides : tree[d][n] = Nil
  BY <1>3, <1>4, FieldTypes DEF Sides
<1>6. Shape(tree, nodesUsed, sub, tree.key)
  BY <1>1, <1>2, <1>3, <1>5 DEF Shape, Pointed, Ordered
<1>7. Heights(tree, nodesUsed, bh, Nil, Nil) /\ Reds(tree, nodesUsed, Nil, Nil)
  BY <1>1, <1>2 DEF Heights, Reds
<1>8. Sound(tree, nodesUsed, sub, tree.key, bh)
  BY <1>2, <1>6, <1>7 DEF Sound, ColorOf
<1> HIDE DEF sub, bh
<1> QED
  BY <1>8 DEF TreeInv

\* What a step does, seen from the nodes.
TreeKept == UNCHANGED <<tree, nodesUsed>>

\* A successful insertion.
NodeAdded(n, k, v) ==
    /\ n \in TreeNodes \ nodesUsed /\ nodesUsed' = nodesUsed \cup {n}
    /\ tree' = InsertNode(tree, k, v, n)
    /\ \A m \in nodesUsed : tree.key[m] # k
    /\ tree'.key = [tree.key EXCEPT ![n] = k]
    /\ tree'.data = [tree.data EXCEPT ![n] = v]

\* A successful deletion of the key of n.
NodeRemoved(n, x) ==
    /\ n \in nodesUsed /\ nodesUsed' = nodesUsed \ {x}
    /\ DeletedIs(tree, tree', nodesUsed, n, x)

\* TxInsert fails when the key is there, and else adds it.
LEMMA InsertStep ==
  ASSUME TreeInv, NEW p \in Pairs, TxInsert(p[1], p[2])
  PROVE  \/ /\ TreeKept /\ treeCall' = <<"insert", p[1], p[2], FALSE>>
            /\ \E m \in nodesUsed : tree.key[m] = p[1]
         \/ /\ treeCall' = <<"insert", p[1], p[2], TRUE>> /\ TreeInv'
            /\ \E n : NodeAdded(n, p[1], p[2])
<1> DEFINE k == p[1]
           v == p[2]
<1>1. PICK sub, bh : Sound(tree, nodesUsed, sub, tree.key, bh)
  BY DEF TreeInv
<1>2. Shape(tree, nodesUsed, sub, tree.key)
  BY <1>1 DEF Sound
<1>3. k \in TreeKeys /\ v \in TreeData /\ k \in Int
  BY TreeAssumption DEF TreeKeys, TreeData
<1> HIDE DEF k, v
<1>4. /\ LookUp(tree, k) \in nodesUsed \cup {Nil}
      /\ LookUp(tree, k) # Nil => tree.key[LookUp(tree, k)] = k
      /\ \A m \in nodesUsed : tree.key[m] = k => LookUp(tree, k) = m
  BY <1>2, <1>3, Search
<1>5. Nil \notin nodesUsed
  BY <1>2, Neighbours
<1>6. CASE LookUp(tree, k) # Nil
  BY <1>4, <1>6 DEF TxInsert, TreeKept, k, v
<1>7. CASE LookUp(tree, k) = Nil
  <2>1. PICK n \in TreeNodes \ nodesUsed :
             /\ tree' = InsertNode(tree, k, v, n)
             /\ nodesUsed' = nodesUsed \cup {n}
             /\ treeCall' = <<"insert", k, v, TRUE>>
    BY <1>7 DEF TxInsert, k, v
  <2>2. \A m \in nodesUsed : tree.key[m] # k
    BY <1>4, <1>5, <1>7
  <2> DEFINE U == InsertNode(tree, k, v, n)
  <2>3. /\ \E su, bu : Sound(U, nodesUsed \cup {n}, su, U.key, bu)
        /\ U.key = [tree.key EXCEPT ![n] = k]
        /\ U.data = [tree.data EXCEPT ![n] = v]
    <3>1. InsertedIs(tree, U, nodesUsed, n, k, v)
      BY <1>1, <1>3, <2>2, NodeInserted
    <3> QED
      BY <3>1 DEF InsertedIs
  <2>4. NodeAdded(n, k, v)
    BY <2>1, <2>2, <2>3 DEF NodeAdded
  <2> HIDE DEF U
  <2>5. U = tree'
    BY <2>1 DEF U
  <2>6. TreeInv'
    BY <2>1, <2>3, <2>5 DEF TreeInv
  <2> QED
    BY <2>1, <2>4, <2>6 DEF k, v
<1> QED
  BY <1>6, <1>7

\* TxDelete removes the key when it is there, and else fails.
LEMMA DeleteStep ==
  ASSUME TreeInv, NEW p \in Pairs, TxDelete(p[1])
  PROVE  \/ /\ TreeKept /\ treeCall' = <<"delete", p[1], FALSE>>
            /\ \A m \in nodesUsed : tree.key[m] # p[1]
         \/ /\ treeCall' = <<"delete", p[1], TRUE>> /\ TreeInv'
            /\ \E n, x : NodeRemoved(n, x) /\ tree.key[n] = p[1]
<1> DEFINE k == p[1]
<1>1. PICK sub, bh : Sound(tree, nodesUsed, sub, tree.key, bh)
  BY DEF TreeInv
<1>2. Shape(tree, nodesUsed, sub, tree.key)
  BY <1>1 DEF Sound
<1>3. k \in Int
  BY TreeAssumption
<1> HIDE DEF k
<1> DEFINE n == LookUp(tree, k)
<1>4. /\ n \in nodesUsed \cup {Nil}
      /\ n # Nil => tree.key[n] = k
      /\ \A m \in nodesUsed : tree.key[m] = k => n = m
  BY <1>2, <1>3, Search
<1>5. Nil \notin nodesUsed
  BY <1>2, Neighbours
<1>6. CASE n = Nil
  BY <1>4, <1>5, <1>6 DEF TxDelete, TreeKept, k
<1>7. CASE n # Nil
  <2> DEFINE e == Emptied(tree, n)
             U == Freed(Unlink(e.tree, e.node), e.node)
  <2>1. /\ tree' = U /\ nodesUsed' = nodesUsed \ {e.node}
        /\ treeCall' = <<"delete", k, TRUE>>
    BY <1>7 DEF TxDelete, k
  <2>2. n \in nodesUsed
    BY <1>4, <1>7
  <2> HIDE DEF n
  <2>3. DeletedIs(tree, U, nodesUsed, n, e.node)
    BY <1>1, <2>2, NodeDeleted
  <2> DEFINE x == e.node
  <2> HIDE DEF U, e
  <2>4. NodeRemoved(n, x)
    BY <2>1, <2>2, <2>3 DEF NodeRemoved
  <2>5. TreeInv'
    BY <2>1, <2>3 DEF DeletedIs, TreeInv
  <2> QED
    BY <1>4, <1>7, <2>1, <2>4, <2>5 DEF k
<1> QED
  BY <1>6, <1>7

\* The invariant holds throughout.
LEMMA TreeInvariance == TreeSpec => []TreeInv
<1>1. TreeInv /\ [TreeNext]_treeVars => TreeInv'
  <2> SUFFICES ASSUME TreeInv, [TreeNext]_treeVars PROVE TreeInv'
    OBVIOUS
  <2>1. TreeKept => TreeInv'
    BY DEF TreeKept, TreeInv
  <2>2. CASE UNCHANGED treeVars
    BY <2>1, <2>2 DEF treeVars, TreeKept
  <2>3. ASSUME NEW p \in Pairs, TxInsert(p[1], p[2]) PROVE TreeInv'
    BY <2>1, <2>3, InsertStep
  <2>4. ASSUME NEW p \in Pairs, TxDelete(p[1]) PROVE TreeInv'
    BY <2>1, <2>4, DeleteStep
  <2> QED
    BY <2>2, <2>3, <2>4 DEF TreeNext
<1> QED
  BY <1>1, TreeInvInit, PTL DEF TreeSpec

\* What the invariant says in the words of the runs.
LEMMA TreeMeant == TreeInv => TreeBalanced /\ TreeKeepsNodes
<1> SUFFICES ASSUME TreeInv PROVE TreeBalanced /\ TreeKeepsNodes
  OBVIOUS
<1>1. PICK sub, bh : Sound(tree, nodesUsed, sub, tree.key, bh)
  BY DEF TreeInv
<1>2. /\ Shape(tree, nodesUsed, sub, tree.key)
      /\ Heights(tree, nodesUsed, bh, Nil, Nil)
      /\ Reds(tree, nodesUsed, Nil, Nil)
      /\ ColorOf(tree, tree.root) = "black"
  BY <1>1 DEF Sound
<1>3. /\ tree \in Trees /\ Nil \notin nodesUsed
      /\ tree.root \in nodesUsed \cup {Nil}
      /\ tree.root # Nil => tree.parent[tree.root] = Nil
  BY <1>2, Neighbours DEF Shape, Pointed
<1>4. \A n \in nodesUsed \cup {Nil} : Nodes(n) = sub[n] /\ BlackHeight(n) = bh[n]
  BY <1>1, <1>2, NodesAre, HeightsAre
<1>5. Nodes(tree.root) = nodesUsed
  BY <1>2, <1>3, <1>4 DEF Shape, Ordered
<1>6. BlackHeight(tree.root) # -1
  <2>1. bh[tree.root] \in Nat
    BY <1>2, <1>3, Neighbours DEF Heights
  <2> QED
    BY <1>3, <1>4, <2>1
<1>7. ASSUME NEW n \in nodesUsed
      PROVE  /\ tree.color[n] = "red" => ColorOf(tree, tree.parent[n]) = "black"
             /\ \A m \in Nodes(tree.left[n]) : tree.key[m] < tree.key[n]
             /\ \A m \in Nodes(tree.right[n]) : tree.key[m] > tree.key[n]
             /\ \A m \in {tree.left[n], tree.right[n]} \ {Nil} :
                  tree.parent[m] = n
  <2>1. /\ tree["left"] = tree.left /\ tree["right"] = tree.right
        /\ "left" \in Sides /\ "right" \in Sides
    BY <1>3, FieldTypes DEF Sides
  <2>2. \A d \in Sides : /\ tree[d][n] \in nodesUsed \cup {Nil}
                         /\ tree[d][n] # Nil => tree.parent[tree[d][n]] = n
                         /\ \A m \in sub[tree[d][n]] :
                                Before(d, tree.key[m], tree.key[n])
    BY <1>2 DEF Shape, Pointed, Ordered
  <2>3. \A m \in Nodes(tree.left[n]) : tree.key[m] < tree.key[n]
    BY <1>4, <2>1, <2>2 DEF Before
  <2>4. \A m \in Nodes(tree.right[n]) : tree.key[m] > tree.key[n]
    <3>1. "right" # "left"
      OBVIOUS
    <3> QED
      BY <1>4, <2>1, <2>2, <3>1 DEF Before
  <2>5. \A m \in {tree.left[n], tree.right[n]} \ {Nil} : tree.parent[m] = n
    BY <2>1, <2>2
  <2>6. ASSUME tree.color[n] = "red"
        PROVE  ColorOf(tree, tree.parent[n]) = "black"
    <3> DEFINE p == tree.parent[n]
    <3>1. p \in nodesUsed \cup {Nil}
          /\ (p # Nil => \E d \in Sides : tree[d][p] = n)
      BY <1>2, Neighbours
    <3>2. \A d \in Sides : p # Nil /\ tree.color[p] = "red"
                           => ColorOf(tree, tree[d][p]) = "black" \/ tree[d][p] = Nil
      BY <1>2, <3>1 DEF Reds
    <3>3. n # Nil /\ ColorOf(tree, n) # "black"
      BY <1>3, <2>6 DEF ColorOf
    <3>4. p # Nil => tree.color[p] \in {"red", "black"}
      BY <1>2, <3>1 DEF Heights
    <3> QED
      BY <3>1, <3>2, <3>3, <3>4 DEF ColorOf
  <2> QED
    BY <2>3, <2>4, <2>5, <2>6
<1>8. ParentOf(tree, tree.root) = Nil
  BY <1>3 DEF ParentOf
<1>9. TreeBalanced
  BY <1>2, <1>5, <1>6, <1>7, <1>8 DEF TreeBalanced
<1> QED
  BY <1>5, <1>9 DEF TreeKeepsNodes

\* After every call the tree is balanced and in order.
THEOREM TreeStaysBalanced == TreeSpec => []TreeBalanced
BY TreeInvariance, TreeMeant, PTL

\* No node is lost and none is linked after it was freed.
THEOREM TreeLosesNoNode == TreeSpec => []TreeKeepsNodes
BY TreeInvariance, TreeMeant, PTL

-----------------------------------------------------------------------------
\* What is found is what is there.
TreeEntriesOK ==
    /\ DOMAIN TreeEntries = {tree.key[n] : n \in nodesUsed}
    /\ \A n \in nodesUsed : TreeEntries[tree.key[n]] = tree.data[n]
    /\ TreeEntries = [k \in DOMAIN TreeEntries |-> TreeEntries[k]]
    /\ Cardinality(DOMAIN TreeEntries) = Cardinality(nodesUsed)
    /\ \A a, b \in nodesUsed : tree.key[a] = tree.key[b] => a = b
    /\ nodesUsed \subseteq TreeNodes
    /\ tree \in Trees

\* The invariant says what LookUp finds.
LEMMA TreeEntriesMeant == TreeInv => TreeEntriesOK
<1> SUFFICES ASSUME TreeInv PROVE TreeEntriesOK
  OBVIOUS
<1> DEFINE Names == {tree.key[n] : n \in nodesUsed}
<1>1. PICK sub, bh : Sound(tree, nodesUsed, sub, tree.key, bh)
  BY DEF TreeInv
<1>2. Shape(tree, nodesUsed, sub, tree.key)
  BY <1>1 DEF Sound
<1>3. /\ nodesUsed \subseteq TreeNodes /\ tree \in Trees
      /\ \A n \in nodesUsed : tree.key[n] \in Int
      /\ IsFiniteSet(nodesUsed)
  BY <1>2, Shrinks, SMTT(30) DEF Shape, Pointed, Ordered
<1>4. TreeEntries = [k \in Names |-> tree.data[LookUp(tree, k)]]
  BY TreeMeant DEF TreeEntries, TreeKeepsNodes
<1>5. ASSUME NEW n \in nodesUsed
      PROVE  LookUp(tree, tree.key[n]) = n
  <2> DEFINE k == tree.key[n]
  <2>1. k \in Int
    BY <1>3
  <2>2. \A m \in nodesUsed : tree.key[m] = k => LookUp(tree, k) = m
    BY <1>2, <2>1, Search
  <2> QED
    BY <2>2
<1>6. \A a, b \in nodesUsed : tree.key[a] = tree.key[b] => a = b
  BY <1>5
<1>7. Cardinality(Names) = Cardinality(nodesUsed)
  <2> DEFINE f == [n \in nodesUsed |-> tree.key[n]]
  <2>1. f \in Bijection(nodesUsed, Names)
    <3>1. /\ f \in [nodesUsed -> Names]
          /\ \A a, b \in nodesUsed : f[a] = f[b] => a = b
      BY <1>6
    <3>2. \A k \in Names : \E n \in nodesUsed : f[n] = k
      OBVIOUS
    <3> HIDE DEF f, Names
    <3> QED
      BY <3>1, <3>2, Fun_IsBij
  <2>2. ExistsBijection(nodesUsed, Names)
    BY <2>1, Fun_ExistsBij
  <2> HIDE DEF Names
  <2> QED
    BY <1>3, <2>2, FS_Bijection
<1>8. \A n \in nodesUsed : TreeEntries[tree.key[n]] = tree.data[n]
  BY <1>4, <1>5
<1>9. DOMAIN TreeEntries = Names
      /\ TreeEntries = [k \in DOMAIN TreeEntries |-> TreeEntries[k]]
  BY <1>4
<1> QED
  BY <1>3, <1>6, <1>7, <1>8, <1>9 DEF TreeEntriesOK

\* The instance has a Cardinality of its own.
LEMMA TreeCardinality == \A S : TreeMap!Cardinality(S) = Cardinality(S)
BY DEF TreeMap!Cardinality, Cardinality

\* Every call does to the entries what it would do to a map.
LEMMA TreeStepOfMap ==
  ASSUME TreeInv, TreeEntriesOK, TreeEntriesOK', [TreeNext]_treeVars
  PROVE  [TreeMap!MapNext]_<<TreeEntries, treeCall>>
<1>1. PICK before : before = TreeEntries
  OBVIOUS
<1>2. PICK after : after = TreeEntries'
  OBVIOUS
<1>3. /\ DOMAIN before = {tree.key[n] : n \in nodesUsed}
      /\ \A n \in nodesUsed : before[tree.key[n]] = tree.data[n]
      /\ before = [k \in DOMAIN before |-> before[k]]
      /\ Cardinality(DOMAIN before) = Cardinality(nodesUsed)
      /\ \A a, b \in nodesUsed : tree.key[a] = tree.key[b] => a = b
      /\ nodesUsed \subseteq TreeNodes
      /\ tree.key \in [TreeNodes -> {p[1] : p \in Pairs} \cup {Nil}]
      /\ tree.data \in [TreeNodes -> {p[2] : p \in Pairs} \cup {Nil}]
  BY <1>1, FieldTypes DEF TreeEntriesOK
<1>4. /\ DOMAIN after = {tree'.key[n] : n \in nodesUsed'}
      /\ \A n \in nodesUsed' : after[tree'.key[n]] = tree'.data[n]
      /\ after = [k \in DOMAIN after |-> after[k]]
  BY <1>2 DEF TreeEntriesOK
<1>5. ASSUME TreeKept PROVE after = before
  <2>1. DOMAIN after = DOMAIN before
    BY <1>3, <1>4, <1>5 DEF TreeKept
  <2>2. \A k \in DOMAIN before : after[k] = before[k]
    BY <1>3, <1>4, <1>5 DEF TreeKept
  <2> QED
    BY <1>3, <1>4, <2>1, <2>2
<1>6. ASSUME NEW p \in Pairs, TxInsert(p[1], p[2])
      PROVE  TreeMap!MapInsert(p[1], p[2])
  <2> DEFINE k == p[1]
             v == p[2]
  <2>1. CASE /\ TreeKept /\ treeCall' = <<"insert", p[1], p[2], FALSE>>
             /\ \E m \in nodesUsed : tree.key[m] = p[1]
    <3>1. after = before /\ p[1] \in DOMAIN before
      BY <1>3, <1>5, <2>1
    <3> QED
      BY <1>1, <1>2, <2>1, <3>1 DEF TreeMap!MapInsert
  <2>2. CASE /\ treeCall' = <<"insert", p[1], p[2], TRUE>> /\ TreeInv'
             /\ \E n : NodeAdded(n, p[1], p[2])
    <3>1. PICK n : NodeAdded(n, k, v)
      BY <2>2
    <3>2. treeCall' = <<"insert", k, v, TRUE>>
      BY <2>2
    <3> HIDE DEF k, v
    <3>3. /\ n \in TreeNodes /\ n \notin nodesUsed
          /\ nodesUsed' = nodesUsed \cup {n}
          /\ \A m \in nodesUsed : tree.key[m] # k
          /\ tree'.key = [tree.key EXCEPT ![n] = k]
          /\ tree'.data = [tree.data EXCEPT ![n] = v]
      BY <3>1 DEF NodeAdded
    <3>4. /\ tree'.key[n] = k /\ tree'.data[n] = v
          /\ \A m \in nodesUsed : /\ tree'.key[m] = tree.key[m]
                                  /\ tree'.data[m] = tree.data[m]
      BY <1>3, <3>3
    <3>5. k \notin DOMAIN before
      BY <1>3, <3>3
    <3>6. DOMAIN after = DOMAIN before \cup {k}
      BY <1>3, <1>4, <3>3, <3>4
    <3>7. \A l \in DOMAIN after : after[l] = IF l = k THEN v ELSE before[l]
      <4>1. after[k] = v
        BY <1>4, <3>3, <3>4
      <4>2. \A m \in nodesUsed : after[tree.key[m]] = before[tree.key[m]]
        BY <1>3, <1>4, <3>3, <3>4
      <4> QED
        BY <1>3, <3>6, <4>1, <4>2
    <3>8. after = [l \in DOMAIN before \cup {k} |->
                      IF l = k THEN v ELSE before[l]]
      BY <1>4, <3>6, <3>7
    <3>9. Cardinality(DOMAIN before) < Cardinality(TreeNodes)
      <4>1. /\ IsFiniteSet(TreeNodes) /\ IsFiniteSet(nodesUsed)
            /\ Cardinality(nodesUsed) <= Cardinality(TreeNodes)
            /\ Cardinality(nodesUsed) # Cardinality(TreeNodes)
        BY <1>3, <3>3, TreeAssumption, FS_Subset
      <4>2. Cardinality(nodesUsed) \in Nat /\ Cardinality(TreeNodes) \in Nat
        BY <4>1, FS_CardinalityType
      <4> QED
        BY <1>3, <4>1, <4>2
    <3>10. /\ k \notin DOMAIN TreeEntries
           /\ Cardinality(DOMAIN TreeEntries) < Cardinality(TreeNodes)
           /\ TreeEntries' = [l \in DOMAIN TreeEntries \cup {k} |->
                                 IF l = k THEN v ELSE TreeEntries[l]]
      BY <1>1, <1>2, <3>5, <3>8, <3>9
    <3>11. TreeMap!MapInsert(k, v)
      BY <3>2, <3>10, TreeCardinality DEF TreeMap!MapInsert
    <3> QED
      BY <3>11 DEF k, v
  <2> QED
    BY <1>6, <2>1, <2>2, InsertStep
<1>7. ASSUME NEW p \in Pairs, TxDelete(p[1]) PROVE TreeMap!MapDelete(p[1])
  <2> DEFINE k == p[1]
  <2>1. CASE /\ TreeKept /\ treeCall' = <<"delete", p[1], FALSE>>
             /\ \A m \in nodesUsed : tree.key[m] # p[1]
    <3>1. after = before /\ p[1] \notin DOMAIN before
      BY <1>3, <1>5, <2>1
    <3> QED
      BY <1>1, <1>2, <2>1, <3>1 DEF TreeMap!MapDelete
  <2>2. CASE /\ treeCall' = <<"delete", p[1], TRUE>> /\ TreeInv'
             /\ \E n, x : NodeRemoved(n, x) /\ tree.key[n] = p[1]
    <3>1. PICK n, x : NodeRemoved(n, x) /\ tree.key[n] = k
      BY <2>2
    <3>2. treeCall' = <<"delete", k, TRUE>>
      BY <2>2
    <3> HIDE DEF k
    <3>3. /\ n \in nodesUsed /\ x \in nodesUsed
          /\ nodesUsed' = nodesUsed \ {x}
          /\ \A m \in nodesUsed' :
               /\ tree'.key[m] = IF m = n THEN tree.key[x] ELSE tree.key[m]
               /\ tree'.data[m] = IF m = n THEN tree.data[x] ELSE tree.data[m]
      BY <3>1 DEF NodeRemoved, DeletedIs
    <3>4. \A m \in nodesUsed : m # n => tree.key[m] # k
      BY <1>3, <3>1, <3>3
    \* What node m of the new tree holds, node Old(m) of the old one held.
    <3> DEFINE Old(m) == IF m = n THEN x ELSE m
    <3>5. \A m \in nodesUsed' :
             /\ Old(m) \in nodesUsed \ {n}
             /\ tree'.key[m] = tree.key[Old(m)]
             /\ tree'.data[m] = tree.data[Old(m)]
      BY <3>3
    <3>6. \A m \in nodesUsed \ {n} : \E o \in nodesUsed' : Old(o) = m
      BY <3>3
    <3> HIDE DEF Old
    <3>7. DOMAIN after = {tree.key[m] : m \in nodesUsed \ {n}}
      BY <1>4, <3>5, <3>6
    <3>8. DOMAIN after = DOMAIN before \ {k}
      BY <1>3, <3>1, <3>3, <3>4, <3>7
    <3>9. \A l \in DOMAIN after : after[l] = before[l]
      <4>1. \A m \in nodesUsed' : after[tree'.key[m]] = before[tree'.key[m]]
        BY <1>3, <1>4, <3>5
      <4> QED
        BY <1>4, <4>1
    <3>10. after = [l \in DOMAIN before \ {k} |-> before[l]]
      BY <1>4, <3>8, <3>9
    <3>11. k \in DOMAIN before
      BY <1>3, <3>1, <3>3
    <3>12. /\ k \in DOMAIN TreeEntries
           /\ TreeEntries' = [l \in DOMAIN TreeEntries \ {k} |-> TreeEntries[l]]
      BY <1>1, <1>2, <3>10, <3>11
    <3>13. TreeMap!MapDelete(k)
      BY <3>2, <3>12 DEF TreeMap!MapDelete, TreeMap!Without
    <3> QED
      BY <3>13 DEF k
  <2> QED
    BY <1>7, <2>1, <2>2, DeleteStep
<1>8. CASE UNCHANGED treeVars
  <2>1. after = before /\ UNCHANGED treeCall
    BY <1>5, <1>8 DEF treeVars, TreeKept
  <2> QED
    BY <1>1, <1>2, <2>1
<1> QED
  BY <1>6, <1>7, <1>8 DEF TreeNext, TreeMap!MapNext

\* The tree is the map from keys to data that the reservation tables are
\* taken for.
THEOREM TreeImplementsMap == TreeSpec => TreeIsMap
<1>1. TreeInit /\ TreeEntriesOK => TreeMap!MapInit
  <2> SUFFICES ASSUME TreeInit, TreeEntriesOK PROVE TreeMap!MapInit
    OBVIOUS
  <2>1. DOMAIN TreeEntries = {}
    BY DEF TreeEntriesOK, TreeInit
  <2>2. TreeEntries = << >>
    BY <2>1 DEF TreeEntriesOK
  <2> QED
    BY <2>2 DEF TreeMap!MapInit, TreeInit
<1>2. TreeInv /\ TreeEntriesOK /\ TreeEntriesOK' /\ [TreeNext]_treeVars
          => [TreeMap!MapNext]_<<TreeEntries, treeCall>>
  BY TreeStepOfMap
<1>3. TreeSpec => [](TreeInv /\ TreeEntriesOK)
  BY TreeInvariance, TreeEntriesMeant, PTL
<1> QED
  BY <1>1, <1>2, <1>3, PTL DEF TreeSpec, TreeIsMap, TreeMap!MapSpec
=============================================================================
