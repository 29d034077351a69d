-------------------------- MODULE ThreadPoolProofs --------------------------
(***************************************************************************)
(* The thread pool of any number of threads that is a power of two: its    *)
(* tree of nodes is a barrier, and everybody runs every function.          *)
(***************************************************************************)
EXTENDS ThreadPool, Integers, WellFoundedInduction, TLAPS

Inside(t) == pc[t] \in {"up", "pairWait", "pairWoken", "allWait", "allWoken",
                        "down"}

\* The blocks of threads whose winners meet: the divisors of N.
Sizes == {s \in 1 .. N : N % s = 0}

\* The winners of two neighbouring blocks of s threads, and their node.
Pairs(s)   == {t \in Threads : t % (2 * s) = 0}
Node(s, t) == N - N \div s + t \div (2 * s)

\* t has won over the other threads of its block, t .. t + Size(t) - 1.
Size(t)  == i[t] \div 2
Below(t) == t + 1 .. t + Size(t) - 1

\* Where a thread is in the tree.
Place(t) ==
    /\ i[t] = 2 * Size(t) /\ Size(t) \in Sizes
    /\ t % Size(t) = 0
    /\ base[t] = N - N \div Size(t)
    /\ pc[t] # "down" => Size(t) < N
    /\ pc[t] \in {"pairWait", "pairWoken"} => t % (2 * Size(t)) = 0
    /\ pc[t] \in {"allWait", "allWoken"} => t % (2 * Size(t)) # 0

\* Those below a thread wait for it, in the same round.
Won(t) == \A u \in Below(t) : pc[u] = "allWait" /\ entered[u] = entered[t]

\* t has counted itself at the node where blocks of s threads meet, and the
\* count is in use.
Counted(t, s) ==
    /\ Inside(t)
    /\ \/ s < Size(t)
       \/ s = Size(t) /\ pc[t] \in {"pairWait", "pairWoken", "allWait"}

Ones(b) == IF b THEN 1 ELSE 0

Counts ==
    \A s \in Sizes : s < N => \A t \in Pairs(s) :
        count[Node(s, t)] = Ones(Counted(t, s)) + Ones(Counted(t + s, s))

Released(t) == pc[t] \in {"down", "allWoken"}
Arriving(t) == pc[t] \in {"up", "pairWait", "pairWoken"}

\* u waits for t to come down to the node where u lost.
WaitsFor(u, t) == pc[u] = "allWait" /\ u = t + Size(u)

\* How many rounds t and u have begun and ended.  By the last clause, one that
\* waits at a node which t has come down past already waits there again, in
\* the next round.
Rounds(t, u) ==
    /\ left[t] <= entered[u]
    /\ Arriving(t) => left[u] < entered[t]
    /\ Released(t) => entered[t] <= entered[u]
    /\ Released(t) /\ Arriving(u) => entered[t] < entered[u]
    /\ WaitsFor(u, t) => left[t] < entered[u]
    /\ WaitsFor(u, t) /\ pc[t] = "down" /\ Size(u) >= Size(t) =>
           entered[t] < entered[u]

Visits(t) == entered[t] = left[t] + Ones(Inside(t))

PCs == {"main", "wait", "up", "pairWait", "pairWoken", "allWait", "allWoken",
        "down", "run", "join", "exited"}

TreeTypes ==
    /\ pc \in [Threads -> PCs]
    /\ site \in [Threads -> {"start", "end", "stop"}]
    /\ i \in [Threads -> Nat] /\ base \in [Threads -> Int]
    /\ count \in [Nodes -> 0 .. 2]
    /\ entered \in [Threads -> Nat] /\ left \in [Threads -> Nat]

TreeInv ==
    /\ TreeTypes
    /\ \A t \in Threads : Inside(t) => Place(t) /\ Won(t)
    /\ Counts
    /\ \A t \in Threads : Visits(t) /\ \A u \in Threads : Rounds(t, u)

\* 2k - 1 is the first barrier of the k-th function, 2k the second one.
Odd(k) == k % 2 = 1

\* What a thread has run, and where it stands, by the barriers it entered.
Protocol(t) ==
    /\ ran[t] = 1 .. entered[t] \div 2 /\ entered[t] <= 2 * func + 1
    /\ site[t] = "stop" => t = 0
    /\ Inside(t) => (site[t] = "end" <=> ~Odd(entered[t]))
    /\ pc[t] = "run" => entered[t] = 2 * func - 1
    /\ pc[t] = "wait" => t # 0 /\ ~Odd(entered[t])
    /\ pc[t] \in {"main", "join"} => t = 0
    /\ pc[t] = "exited" /\ t # 0 => doShutdown

\* The calls that thread 0 has made.
Main ==
    /\ entered[0] \in {2 * func - 1, 2 * func, 2 * func + 1}
    /\ doShutdown => entered[0] = 2 * func + 1 /\ func = MaxStarts
    /\ doShutdown <=> \/ pc[0] \in {"join", "exited"}
                      \/ Inside(0) /\ site[0] = "stop"
    /\ ~doShutdown /\ pc[0] # "main" => func >= 1 /\ entered[0] < 2 * func + 1
    /\ pc[0] = "main" => entered[0] = 2 * func
    /\ freed => \A t \in Threads : pc[t] = "exited"

PoolTypes ==
    /\ func \in 0 .. MaxStarts
    /\ doShutdown \in BOOLEAN /\ freed \in BOOLEAN
    /\ ran \in [Threads -> SUBSET Nat]

PoolInv ==
    /\ PoolTypes
    /\ Main
    /\ \A t \in Threads : Protocol(t)
-----------------------------------------------------------------------------
(* Multiples and halves *)

LEMMA Quotient ==
  ASSUME NEW x \in Nat, NEW s \in Nat \ {0}
  PROVE  /\ x \div s \in Nat /\ x % s \in 0 .. s - 1
         /\ x = s * (x \div s) + (x % s)
  OBVIOUS

LEMMA HasQuotient ==
  ASSUME NEW x \in Nat, NEW s \in Nat \ {0}, NEW q \in Nat,
         NEW r \in 0 .. s - 1, x = s * q + r
  PROVE  x % s = r /\ x \div s = q
<1> DEFINE p == x \div s
           e == x % s
<1>1. p \in Nat /\ e \in 0 .. s - 1 /\ x = s * p + e
  BY Quotient
<1> HIDE DEF p, e
<1>2. ASSUME p < q PROVE FALSE
  <2>1. q - p - 1 \in Nat /\ s * (q - p - 1) >= 0
    BY <1>1, <1>2
  <2>2. s * q = s * p + s + s * (q - p - 1)
    BY <1>1
  <2> QED
    BY <1>1, <2>1, <2>2
<1>3. ASSUME q < p PROVE FALSE
  <2>1. p - q - 1 \in Nat /\ s * (p - q - 1) >= 0
    BY <1>1, <1>3
  <2>2. s * p = s * q + s + s * (p - q - 1)
    BY <1>1
  <2> QED
    BY <1>1, <2>1, <2>2
<1>4. p = q
  BY <1>1, <1>2, <1>3
<1>5. e = r
  BY <1>1, <1>4
<1> QED
  BY <1>4, <1>5 DEF p, e

LEMMA IsMultiple ==
  ASSUME NEW x \in Nat, NEW s \in Nat \ {0}, NEW q \in Nat, x = s * q
  PROVE  x % s = 0 /\ x \div s = q
<1>1. 0 \in 0 .. s - 1 /\ x = s * q + 0
  OBVIOUS
<1> QED
  BY <1>1, HasQuotient

LEMMA AsMultiple ==
  ASSUME NEW x \in Nat, NEW s \in Nat \ {0}, x % s = 0
  PROVE  x \div s \in Nat /\ x = s * (x \div s)
  OBVIOUS

LEMMA Transitive ==
  ASSUME NEW x \in Nat, NEW r \in Nat \ {0}, NEW s \in Nat \ {0},
         x % r = 0, r % s = 0
  PROVE  x % s = 0
<1> DEFINE p == x \div r
           q == r \div s
<1>1. p \in Nat /\ q \in Nat /\ x = r * p /\ r = s * q
  BY AsMultiple
<1> HIDE DEF p, q
<1>2. q * p \in Nat /\ x = s * (q * p)
  BY <1>1
<1> QED
  BY <1>2, IsMultiple

LEMMA Sums ==
  ASSUME NEW x \in Nat, NEW y \in Nat, NEW s \in Nat \ {0},
         x % s = 0, y % s = 0
  PROVE  /\ (x + y) % s = 0
         /\ x >= y => (x - y) % s = 0
         /\ x < y => x + s <= y
<1> DEFINE p == x \div s
           q == y \div s
<1>1. p \in Nat /\ q \in Nat /\ x = s * p /\ y = s * q
  BY AsMultiple
<1> HIDE DEF p, q
<1>2. x + y = s * (p + q)
  BY <1>1
<1>3. ASSUME x >= y PROVE (x - y) % s = 0
  <2>1. p >= q
    BY <1>1, <1>3
  <2>2. p - q \in Nat /\ x - y = s * (p - q) /\ x - y \in Nat
    BY <1>1, <1>3, <2>1
  <2> QED
    BY <2>2, IsMultiple
<1>4. ASSUME x < y PROVE x + s <= y
  <2>1. p < q
    BY <1>1, <1>4
  <2>2. q - p - 1 \in Nat /\ s * (q - p - 1) >= 0
    BY <1>1, <2>1
  <2>3. y = x + s + s * (q - p - 1)
    BY <1>1
  <2> QED
    BY <1>1, <2>2, <2>3
<1>5. (x + y) % s = 0
  BY <1>1, <1>2, IsMultiple
<1> QED
  BY <1>3, <1>4, <1>5

LEMMA Regroup ==
  ASSUME NEW s \in Nat, NEW h \in Nat
  PROVE  s * (2 * h) = (2 * s) * h /\ s * (2 * h + 1) = (2 * s) * h + s
  OBVIOUS

\* A multiple of s that is none of 2s is one of s more or less.
LEMMA OddMultiple ==
  ASSUME NEW x \in Nat, NEW s \in Nat \ {0}, x % s = 0
  PROVE  /\ x % (2 * s) \in {0, s}
         /\ x % (2 * s) # 0 =>
                /\ x >= s /\ (x - s) % (2 * s) = 0
                /\ (x - s) \div (2 * s) = x \div (2 * s)
         /\ x % (2 * s) = 0 =>
                /\ (x + s) % (2 * s) = s /\ (x + s) % s = 0
                /\ (x + s) \div (2 * s) = x \div (2 * s)
<1> DEFINE p == x \div s
           h == p \div 2
           d == 2 * s
           y == x + s
           z == x - s
           next == p + 1
<1>1. p \in Nat /\ x = s * p /\ d \in Nat \ {0} /\ d = 2 * s
  BY AsMultiple
<1>2. h \in Nat /\ (p = 2 * h \/ p = 2 * h + 1)
  BY <1>1
<1>3. /\ y \in Nat /\ next \in Nat /\ y = s * next /\ z = x - s /\ y = x + s
      /\ 0 \in 0 .. d - 1 /\ s \in 0 .. d - 1
  BY <1>1
<1> HIDE DEF p, h, d, y, z, next
<1>4. y % s = 0
  BY <1>3, IsMultiple
<1>5. x \in Nat /\ d \in Nat \ {0} /\ h \in Nat /\ s \in 0 .. d - 1
  BY <1>1, <1>2, <1>3
<1>6. ASSUME p = 2 * h
      PROVE  x % d = 0 /\ x \div d = h /\ y % d = s /\ y \div d = h
  <2>1. x = d * h
    BY <1>1, <1>2, <1>6, Regroup
  <2>2. y = d * h + s
    BY <1>3, <2>1
  <2>3. x % d = 0 /\ x \div d = h
    BY <1>5, <2>1, IsMultiple
  <2>4. y % d = s /\ y \div d = h
    BY <1>3, <1>5, <2>2, HasQuotient
  <2> QED
    BY <2>3, <2>4
<1>7. ASSUME p = 2 * h + 1
      PROVE  /\ x % d = s /\ x \div d = h
             /\ x >= s /\ z % d = 0 /\ z \div d = h
  <2>1. x = d * h + s
    BY <1>1, <1>2, <1>7, Regroup
  <2>2. x >= s /\ z \in Nat /\ z = d * h
    <3>1. d * h \in Nat
      BY <1>5
    <3> QED
      BY <1>3, <2>1, <3>1
  <2>3. z % d = 0 /\ z \div d = h
    BY <1>5, <2>2, IsMultiple
  <2>4. x % d = s /\ x \div d = h
    BY <1>5, <2>1, HasQuotient
  <2> QED
    BY <2>2, <2>3, <2>4
<1>8. \/ x % d = 0 /\ y % d = s /\ y \div d = x \div d
      \/ x % d = s /\ x >= s /\ z % d = 0 /\ z \div d = x \div d
  BY <1>2, <1>6, <1>7
<1> QED
  BY <1>4, <1>8 DEF d, y, z

Smaller == {ss \in Nat \X Nat : ss[1] < ss[2]}

LEMMA SmallerWellFounded == IsWellFoundedOn(Smaller, Nat)
BY NatLessThanWellFounded DEF OpToRel, Smaller

LEMMA HasLeast ==
  ASSUME NEW T \in SUBSET Nat, T # {}
  PROVE  \E x \in T : \A y \in T : ~(y < x)
<1>1. \E x \in T : \A y \in T : <<y, x>> \notin Smaller
  BY SmallerWellFounded, WFMin
<1> QED
  BY <1>1 DEF Smaller

-----------------------------------------------------------------------------
(* Sizes of blocks *)

LEMMA SizeType ==
  ASSUME NEW s \in Sizes
  PROVE  /\ N \in Nat \ {0} /\ s \in Nat \ {0} /\ s <= N /\ N % s = 0
         /\ N \div s \in Nat \ {0} /\ N = s * (N \div s)
<1>1. N \in Nat \ {0} /\ s \in Nat \ {0} /\ s <= N /\ N % s = 0
  BY PoolAssumption DEF Sizes
<1>2. N \div s \in Nat /\ N = s * (N \div s)
  BY <1>1, AsMultiple
<1>3. N \div s # 0
  BY <1>1, <1>2
<1> QED
  BY <1>1, <1>2, <1>3

\* Two blocks of less than all threads make one.
LEMMA Doubled ==
  ASSUME NEW s \in Sizes, s < N
  PROVE  2 * s \in Sizes /\ N \div s = 2 * (N \div (2 * s))
<1> DEFINE q == N \div s
           p == q \div 2
<1>1. N \in Nat /\ s \in Nat \ {0} /\ q \in Nat \ {0} /\ N = s * q
  BY SizeType
<1>2. q # 1 /\ q <= N
  BY <1>1
<1>3. N % q = 0
  <2>1. N = q * s
    BY <1>1
  <2> QED
    BY <1>1, <2>1, IsMultiple
<1>4. q % 2 = 0
  BY <1>1, <1>2, <1>3, PoolAssumption
<1>5. p \in Nat /\ q = 2 * p
  BY <1>1, <1>4
<1> HIDE DEF q, p
<1>6. N = (2 * s) * p /\ 2 * s \in Nat \ {0} /\ p >= 1
  BY <1>1, <1>5
<1>7. N % (2 * s) = 0 /\ N \div (2 * s) = p
  BY <1>1, <1>5, <1>6, IsMultiple
<1>8. 2 * s <= N
  BY <1>1, <1>6, <1>5
<1> QED
  BY <1>5, <1>6, <1>7, <1>8 DEF Sizes, q

\* ... and a block of more than one is two.
LEMMA Halved ==
  ASSUME NEW s \in Sizes, s > 1
  PROVE  s \div 2 \in Sizes /\ s = 2 * (s \div 2) /\ s \div 2 < N
<1>1. N \in Nat \ {0} /\ s \in Nat \ {0} /\ s <= N /\ N % s = 0
  BY SizeType
<1>2. s % 2 = 0
  BY <1>1, PoolAssumption
<1>3. s \div 2 \in Nat \ {0} /\ s = 2 * (s \div 2)
  BY <1>1, <1>2
<1>4. s % (s \div 2) = 0
  <2>1. s = (s \div 2) * 2
    BY <1>3
  <2> QED
    BY <1>1, <1>3, <2>1, IsMultiple
<1>5. N % (s \div 2) = 0
  BY <1>1, <1>3, <1>4, Transitive
<1> QED
  BY <1>1, <1>3, <1>5 DEF Sizes

\* Of two sizes, the smaller divides the greater: the least that did not
\* would have a half that did.
LEMMA SmallerDivides ==
  ASSUME NEW s \in Sizes, NEW r \in Sizes, s <= r
  PROVE  r % s = 0
<1> DEFINE Wrong == {a \in Sizes : \E b \in Sizes : a <= b /\ b % a # 0}
<1>1. SUFFICES ASSUME Wrong # {} PROVE FALSE
  OBVIOUS
<1>2. PICK a \in Wrong : \A c \in Wrong : ~(c < a)
  <2>1. Wrong \in SUBSET Nat
    BY SizeType
  <2> QED
    BY <1>1, <2>1, HasLeast
<1>3. a \in Sizes /\ \E b \in Sizes : a <= b /\ b % a # 0
  BY <1>2
<1>4. PICK b \in Sizes : a <= b /\ b % a # 0
  BY <1>3
<1>5. a \in Nat \ {0} /\ b \in Nat \ {0}
  BY <1>3, SizeType
<1>6. a > 1
  BY <1>4, <1>5
<1> DEFINE c == a \div 2
           d == b \div 2
<1>7. c \in Sizes /\ d \in Sizes /\ a = 2 * c /\ b = 2 * d
  <2>1. b > 1
    BY <1>4, <1>5, <1>6
  <2> QED
    BY <1>3, <1>6, <2>1, Halved
<1> HIDE DEF c, d
<1>8. c \in Nat \ {0} /\ d \in Nat \ {0} /\ c < a /\ c <= d
  BY <1>4, <1>7, SizeType
<1>9. c \notin Wrong
  BY <1>2, <1>8
<1>10. d % c = 0
  BY <1>7, <1>8, <1>9
<1>11. d \div c \in Nat /\ d = c * (d \div c)
  BY <1>8, <1>10, AsMultiple
<1>12. b = a * (d \div c)
  BY <1>7, <1>8, <1>11
<1> QED
  BY <1>4, <1>5, <1>11, <1>12, IsMultiple

LEMMA NextSize ==
  ASSUME NEW s \in Sizes, NEW r \in Sizes, s < r
  PROVE  2 * s \in Sizes /\ 2 * s <= r /\ r % (2 * s) = 0
<1>1. s \in Nat \ {0} /\ r \in Nat \ {0} /\ r <= N /\ N \in Nat
  BY SizeType
<1>2. r % s = 0
  BY <1>1, SmallerDivides
<1>3. 2 * s \in Sizes
  BY <1>1, Doubled
<1>4. r \div s \in Nat /\ r = s * (r \div s)
  BY <1>1, <1>2, AsMultiple
<1>5. r \div s >= 2
  BY <1>1, <1>4
<1>6. 2 * s <= r
  BY <1>1, <1>4, <1>5
<1> QED
  BY <1>3, <1>6, SmallerDivides

\* At which size a thread loses is determined.
LEMMA LosesOnce ==
  ASSUME NEW x \in Nat, NEW s \in Sizes, NEW r \in Sizes,
         x % s = 0, x % (2 * s) # 0, x % r = 0, x % (2 * r) # 0
  PROVE  s = r
<1>1. s \in Nat \ {0} /\ r \in Nat \ {0}
  BY SizeType
<1>2. ASSUME s < r PROVE FALSE
  <2>1. r % (2 * s) = 0 /\ 2 * s \in Nat \ {0}
    BY <1>1, <1>2, NextSize
  <2> QED
    BY <1>1, <2>1, Transitive
<1>3. ASSUME r < s PROVE FALSE
  <2>1. s % (2 * r) = 0 /\ 2 * r \in Nat \ {0}
    BY <1>1, <1>3, NextSize
  <2> QED
    BY <1>1, <2>1, Transitive
<1> QED
  BY <1>1, <1>2, <1>3

-----------------------------------------------------------------------------
(* Nodes *)

LEMMA NodeType ==
  ASSUME NEW s \in Sizes, s < N, NEW t \in Threads
  PROVE  /\ Node(s, t) \in Nodes
         /\ N - N \div s <= Node(s, t)
         /\ Node(s, t) < N - N \div (2 * s)
<1> DEFINE q == N \div (2 * s)
           k == t \div (2 * s)
<1>1. /\ 2 * s \in Sizes /\ N \in Nat \ {0} /\ s \in Nat \ {0}
      /\ 2 * s \in Nat \ {0} /\ q \in Nat \ {0} /\ N = (2 * s) * q
      /\ N \div s = 2 * q
  BY Doubled, SizeType
<1>2. t \in Nat /\ t < N
  BY <1>1 DEF Threads
<1>3. k \in Nat /\ (2 * s) * k <= t
  <2> DEFINE d == 2 * s
             a == t \div d
             e == t % d
  <2>1. d \in Nat \ {0}
    BY <1>1
  <2>2. a \in Nat /\ e \in 0 .. d - 1 /\ t = d * a + e
    <3> HIDE DEF d
    <3> QED
      BY <1>2, <2>1, Quotient
  <2> HIDE DEF a, e, d
  <2>3. d * a \in Nat
    BY <2>1, <2>2
  <2>4. a \in Nat /\ d * a <= t
    BY <1>2, <2>2, <2>3
  <2> QED
    BY <2>4 DEF d, a
<1> HIDE DEF q, k
<1>4. k < q
  <2>1. (2 * s) * k < (2 * s) * q
    BY <1>1, <1>2, <1>3
  <2> QED
    BY <1>1, <1>3, <2>1
<1>5. 2 * q <= N
  BY <1>1
<1>6. Node(s, t) = N - 2 * q + k
  BY <1>1 DEF Node, k
<1> QED
  BY <1>1, <1>3, <1>4, <1>5, <1>6 DEF Nodes, q

\* No two pairs of neighbours meet at one node.
LEMMA OwnNode ==
  ASSUME NEW s \in Sizes, s < N, NEW t \in Pairs(s),
         NEW r \in Sizes, r < N, NEW u \in Pairs(r),
         Node(s, t) = Node(r, u)
  PROVE  s = r /\ t = u
<1>1. /\ s \in Nat \ {0} /\ r \in Nat \ {0} /\ N \in Nat
      /\ t \in Threads /\ u \in Threads /\ t \in Nat /\ u \in Nat
      /\ t % (2 * s) = 0 /\ u % (2 * r) = 0
  BY SizeType DEF Pairs, Threads
<1>2. ASSUME NEW a \in Sizes, NEW b \in Sizes, NEW x \in Threads,
             NEW y \in Threads, a < b, b < N
      PROVE  Node(a, x) < Node(b, y)
  <2>1. a < N /\ a \in Nat \ {0} /\ b \in Nat \ {0} /\ N \in Nat
    BY <1>2, SizeType
  <2>2. Node(a, x) < N - N \div (2 * a) /\ N - N \div b <= Node(b, y)
    BY <1>2, <2>1, NodeType
  <2>3. 2 * a \in Sizes /\ b % (2 * a) = 0
    BY <1>2, NextSize
  <2> DEFINE m == N \div (2 * a)
             k == N \div b
             j == b \div (2 * a)
  <2>4. /\ m \in Nat /\ k \in Nat /\ j \in Nat /\ N = (2 * a) * m
        /\ N = b * k /\ b = (2 * a) * j
    BY <2>1, <2>3, SizeType, AsMultiple
  <2> HIDE DEF m, k, j
  <2>5. N = (2 * a) * (j * k) /\ j * k \in Nat
    BY <2>1, <2>4
  <2>6. m = j * k
    BY <2>1, <2>4, <2>5
  <2>7. j >= 1
    BY <2>1, <2>4
  <2>8. m >= k
    BY <2>4, <2>6, <2>7
  <2>9. Node(a, x) \in Nat /\ Node(b, y) \in Nat
    BY <1>2, <2>1, NodeType DEF Nodes
  <2> QED
    BY <2>1, <2>2, <2>4, <2>8, <2>9 DEF m, k
<1>3. Node(s, t) \in Nat
  BY <1>1, NodeType DEF Nodes
<1>4. s = r
  BY <1>1, <1>2, <1>3
<1>5. t \div (2 * s) = u \div (2 * s)
  <2>1. t \div (2 * s) \in Nat /\ u \div (2 * s) \in Nat /\ N \div s \in Nat
    <3>1. 2 * s \in Nat \ {0}
      BY <1>1
    <3> QED
      BY <1>1, <3>1, Quotient, SizeType
  <2> QED
    BY <1>1, <1>4, <2>1 DEF Node
<1>6. t = (2 * s) * (t \div (2 * s)) /\ u = (2 * s) * (u \div (2 * s))
  <2>1. 2 * s \in Nat \ {0} /\ u % (2 * s) = 0
    BY <1>1, <1>4
  <2> QED
    BY <1>1, <2>1, AsMultiple
<1> QED
  BY <1>4, <1>5, <1>6

-----------------------------------------------------------------------------
(* Places in the tree *)

LEMMA ThreadType ==
  /\ N \in Nat \ {0} /\ 0 \in Threads
  /\ \A t \in Threads : t \in Nat /\ t < N
BY PoolAssumption DEF Threads

LEMMA PlaceType ==
  ASSUME NEW t \in Threads, Place(t)
  PROVE  /\ Size(t) \in Sizes /\ Size(t) \in Nat \ {0} /\ i[t] = 2 * Size(t)
         /\ Size(t) <= N
         /\ t % Size(t) = 0 /\ t + Size(t) <= N
         /\ Below(t) \subseteq Threads /\ t \notin Below(t)
         /\ index(t) = Node(Size(t), t)
<1> DEFINE s == Size(t)
<1>1. /\ s \in Sizes /\ t % s = 0 /\ i[t] = 2 * s
      /\ base[t] = N - N \div s
  BY DEF Place
<1>2. /\ s \in Nat \ {0} /\ N \in Nat \ {0} /\ t \in Nat /\ t < N
      /\ N % s = 0 /\ s <= N
  BY <1>1, SizeType, ThreadType
<1>3. index(t) = Node(s, t)
  BY <1>1 DEF index, Node
<1> HIDE DEF s
<1>4. t + s <= N
  BY <1>1, <1>2, Sums
<1>5. t + 1 .. t + s - 1 \subseteq Threads /\ t \notin t + 1 .. t + s - 1
  BY <1>2, <1>4 DEF Threads
<1> QED
  BY <1>1, <1>2, <1>3, <1>4, <1>5 DEF s, Below

\* The right neighbour of the winner of a block.
LEMMA Neighbour ==
  ASSUME NEW s \in Sizes, s < N, NEW t \in Pairs(s)
  PROVE  /\ t \in Threads /\ t + s \in Threads /\ t + 2 * s <= N
         /\ t % s = 0 /\ (t + s) % s = 0 /\ (t + s) % (2 * s) = s
         /\ t + s # t /\ Node(s, t + s) = Node(s, t)
<1>1. /\ t \in Threads /\ t \in Nat /\ t < N /\ t % (2 * s) = 0
      /\ s \in Nat \ {0} /\ N \in Nat
  BY SizeType, ThreadType DEF Pairs
<1> DEFINE d == 2 * s
<1>2. d \in Nat \ {0} /\ N % d = 0 /\ d % s = 0
  <2>1. d \in Nat \ {0} /\ N % d = 0 /\ d = s * 2
    BY <1>1, Doubled, SizeType
  <2> QED
    BY <1>1, <2>1, IsMultiple
<1>3. t % d = 0 /\ d = 2 * s
  BY <1>1
<1> HIDE DEF d
<1>4. t + d <= N
  BY <1>1, <1>2, <1>3, Sums
<1>5. t % s = 0
  BY <1>1, <1>2, <1>3, Transitive
<1>6. t + s \in Threads
  BY <1>1, <1>3, <1>4 DEF Threads
<1> QED
  BY <1>1, <1>3, <1>4, <1>5, <1>6, OddMultiple DEF Node

\* The left neighbour of who loses.
LEMMA LeftNeighbour ==
  ASSUME NEW s \in Sizes, NEW t \in Threads, t % s = 0, t % (2 * s) # 0
  PROVE  /\ s < N /\ t - s \in Pairs(s) /\ (t - s) + s = t
         /\ Node(s, t - s) = Node(s, t)
<1>1. s \in Nat \ {0} /\ t \in Nat /\ t < N /\ N \in Nat /\ t >= s
  BY SizeType, ThreadType, OddMultiple
<1>2. t - s \in Threads
  BY <1>1 DEF Threads
<1> QED
  BY <1>1, <1>2, OddMultiple DEF Pairs, Node

\* The neighbour has counted itself at the common node: it waits there.
LEMMA NeighbourWaits ==
  ASSUME TreeInv, NEW s \in Sizes, s < N, NEW t \in Pairs(s),
         Counted(t + s, s)
  PROVE  pc[t + s] = "allWait" /\ Size(t + s) = s
<1> DEFINE u == t + s
<1>1. u \in Threads /\ u \in Nat /\ u % s = 0 /\ u % (2 * s) # 0
  BY Neighbour, SizeType, ThreadType
<1>2. Inside(u) /\ Place(u)
  BY <1>1 DEF TreeInv, Counted
<1>3. Size(u) \in Sizes /\ Size(u) \in Nat /\ s \in Nat \ {0} /\ u % Size(u) = 0
  BY <1>1, <1>2, PlaceType, SizeType
<1> HIDE DEF u
<1>4. ~(s < Size(u))
  <2>1. ASSUME s < Size(u) PROVE FALSE
    <3>1. Size(u) % (2 * s) = 0 /\ 2 * s \in Nat \ {0} /\ Size(u) # 0
      BY <1>3, <2>1, NextSize
    <3> QED
      BY <1>1, <1>3, <3>1, Transitive
  <2> QED
    BY <2>1
<1>5. Counted(u, s)
  BY DEF u
<1>6. s = Size(u) /\ pc[u] \in {"pairWait", "pairWoken", "allWait"}
  BY <1>4, <1>5 DEF Counted
<1>7. pc[u] \notin {"pairWait", "pairWoken"}
  BY <1>1, <1>2, <1>6 DEF Place
<1> QED
  BY <1>6, <1>7 DEF u

\* ... and in the same round.
LEMMA NeighbourInRound ==
  ASSUME TreeInv, NEW s \in Sizes, s < N, NEW t \in Pairs(s),
         Counted(t + s, s), Arriving(t)
  PROVE  entered[t + s] = entered[t]
<1> DEFINE u == t + s
<1>1. u \in Threads /\ t \in Threads /\ pc[u] = "allWait" /\ WaitsFor(u, t)
  BY Neighbour, NeighbourWaits DEF WaitsFor
<1>2. Rounds(t, u) /\ Visits(t) /\ Visits(u) /\ Inside(t) /\ Inside(u)
  BY <1>1 DEF TreeInv, Arriving, Inside
<1>3. /\ entered[t] \in Nat /\ entered[u] \in Nat /\ left[t] \in Nat
      /\ left[u] \in Nat
  BY <1>1 DEF TreeInv, TreeTypes
<1>4. left[u] < entered[t] /\ left[t] < entered[u]
  BY <1>1, <1>2 DEF Rounds
<1>5. entered[t] = left[t] + 1 /\ entered[u] = left[u] + 1
  BY <1>2 DEF Visits, Ones
<1> QED
  BY <1>3, <1>4, <1>5

\* When t is on its way down, those it lets go are nobody else's.
LEMMA OnlyWinner ==
  ASSUME TreeInv, NEW s \in Sizes, s < N, NEW t \in Pairs(s),
         pc[t] = "down", Size(t) = 2 * s,
         NEW u \in Threads, u # t, Inside(u), t + s \in Below(u)
  PROVE  FALSE
<1> DEFINE r == Size(u)
           w == t + s
<1>1. /\ t \in Threads /\ w \in Threads /\ t % (2 * s) = 0
      /\ t % s = 0 /\ w % s = 0
  BY Neighbour DEF Pairs
<1>2. Place(t) /\ Won(t) /\ Place(u) /\ Won(u)
  BY <1>1 DEF TreeInv, Inside
<1>3. /\ r \in Sizes /\ r \in Nat \ {0} /\ s \in Nat \ {0} /\ u % r = 0
      /\ t \in Nat /\ u \in Nat /\ w \in Nat /\ w = t + s
      /\ w \in u + 1 .. u + r - 1
  BY <1>1, <1>2, PlaceType, SizeType, ThreadType DEF Below
<1> HIDE DEF w, r
<1>4. CASE u < t
  <2>1. t \in Below(u)
    BY <1>3, <1>4 DEF Below, r
  <2> QED
    BY <1>2, <2>1 DEF Won
<1>5. CASE t < u
  <2>1. r <= s => w % r = 0
    BY <1>1, <1>3, SmallerDivides, Transitive
  <2>2. ~(r <= s)
    <3>1. u < w
      BY <1>3
    <3> QED
      BY <1>3, <2>1, <3>1, Sums
  <2>3. r % (2 * s) = 0 /\ 2 * s \in Nat \ {0}
    BY <1>3, <2>2, NextSize
  <2>4. u % (2 * s) = 0
    BY <1>3, <2>3, Transitive
  <2>5. t + 2 * s <= u
    BY <1>1, <1>3, <1>5, <2>3, <2>4, Sums
  <2> QED
    BY <1>3, <2>5
<1> QED
  BY <1>3, <1>4, <1>5

\* Who waits at the node where t comes down is its neighbour.
LEMMA WaitsThere ==
  ASSUME TreeInv, NEW s \in Sizes, s < N, NEW t \in Pairs(s),
         NEW u \in Threads, pc[u] = "allWait", index(u) = Node(s, t)
  PROVE  u = t + s
<1> DEFINE r == Size(u)
           v == u - r
<1>1. Place(u) /\ Inside(u)
  BY DEF TreeInv, Inside
<1>2. /\ r \in Sizes /\ u % r = 0 /\ u % (2 * r) # 0
      /\ index(u) = Node(r, u)
  BY <1>1, PlaceType DEF Place
<1>3. r < N /\ v \in Pairs(r) /\ v + r = u /\ Node(r, v) = Node(r, u)
  <2> HIDE DEF r
  <2> QED
    BY <1>2, LeftNeighbour
<1> HIDE DEF r, v
<1>4. Node(s, t) = Node(r, v)
  BY <1>2, <1>3
<1>5. s = r /\ t = v
  BY <1>2, <1>3, <1>4, OwnNode
<1> QED
  BY <1>3, <1>5

-----------------------------------------------------------------------------
(* What a step leaves alone *)

\* Asleep at a node and awake there is the same thing.
Alike(t) ==
    \/ pc'[t] = pc[t]
    \/ /\ pc[t] \in {"pairWait", "pairWoken"}
       /\ pc'[t] \in {"pairWait", "pairWoken"}

LEMMA PlaceKept ==
  ASSUME NEW t \in Threads, Place(t),
         i'[t] = i[t], base'[t] = base[t], Alike(t)
  PROVE  Place(t)'
BY DEF Place, Size, Alike

LEMMA WonKept ==
  ASSUME NEW t \in Threads, Won(t), i'[t] = i[t], entered'[t] = entered[t],
         \A u \in Below(t) : pc'[u] = "allWait" /\ entered'[u] = entered[u]
  PROVE  Won(t)'
BY DEF Won, Below, Size

LEMMA CountedKept ==
  ASSUME NEW t \in Threads, NEW s \in Sizes, i'[t] = i[t], Alike(t)
  PROVE  Counted(t, s)' <=> Counted(t, s)
BY DEF Counted, Inside, Size, Alike

LEMMA CountsKept ==
  ASSUME Counts, count' = count,
         \A u \in Threads, s \in Sizes : Counted(u, s)' <=> Counted(u, s)
  PROVE  Counts'
<1> SUFFICES ASSUME NEW s \in Sizes, s < N, NEW t \in Pairs(s)
             PROVE  count'[Node(s, t)] =
                        Ones(Counted(t, s)') + Ones(Counted(t + s, s)')
  BY DEF Counts
<1>1. t \in Threads /\ t + s \in Threads
  BY Neighbour
<1>2. (Counted(t, s)' <=> Counted(t, s))
      /\ (Counted(t + s, s)' <=> Counted(t + s, s))
  BY <1>1
<1> QED
  BY <1>2 DEF Counts, Ones

\* ... and what changes the count of one node.
LEMMA CountsAt ==
  ASSUME Counts, NEW s \in Sizes, s < N, NEW t \in Pairs(s),
         \A n \in Nodes : n # Node(s, t) => count'[n] = count[n],
         count'[Node(s, t)] =
             Ones(Counted(t, s)') + Ones(Counted(t + s, s)'),
         \A u \in Threads, r \in Sizes : r # s \/ u \notin {t, t + s} =>
             (Counted(u, r)' <=> Counted(u, r))
  PROVE  Counts'
<1> SUFFICES ASSUME NEW r \in Sizes, r < N, NEW u \in Pairs(r),
                    r # s \/ u # t
             PROVE  count'[Node(r, u)] =
                        Ones(Counted(u, r)') + Ones(Counted(u + r, r)')
  BY DEF Counts
<1>1. /\ u \in Threads /\ u + r \in Threads /\ t \in Threads
      /\ t + s \in Threads
  BY Neighbour
<1>2. Node(r, u) \in Nodes /\ Node(r, u) # Node(s, t)
  BY <1>1, NodeType, OwnNode
<1>3. r = s => u \notin {t, t + s} /\ u + r \notin {t, t + s}
  <2>1. ASSUME r = s
        PROVE  /\ u \in Nat /\ t \in Nat /\ s \in Nat \ {0}
               /\ u % (2 * s) = 0 /\ t % (2 * s) = 0
               /\ (u + s) % (2 * s) = s /\ (t + s) % (2 * s) = s
    BY <1>1, <2>1, Neighbour, ThreadType, SizeType DEF Pairs
  <2> QED
    BY <2>1
<1>4. (Counted(u, r)' <=> Counted(u, r))
      /\ (Counted(u + r, r)' <=> Counted(u + r, r))
  BY <1>1, <1>3
<1>5. count'[Node(r, u)] = count[Node(r, u)]
  BY <1>2
<1> QED
  BY <1>4, <1>5 DEF Counts, Ones

LEMMA RoundTypes ==
  ASSUME TreeInv, NEW t \in Threads
  PROVE  /\ entered[t] \in Nat /\ left[t] \in Nat
         /\ Visits(t) /\ (Inside(t) => Place(t) /\ Won(t))
         /\ \A u \in Threads : Rounds(t, u)
BY DEF TreeInv, TreeTypes

-----------------------------------------------------------------------------
(* Into the barrier and out of it *)

LEMMA EnterTree ==
  ASSUME TreeInv, NEW t \in Threads, ~Inside(t),
         NEW where \in {"start", "end", "stop"}, Enter(t, where)
  PROVE  TreeInv'
<1>1. /\ pc'[t] = IF N < 2 THEN "down" ELSE "up"
      /\ i'[t] = 2 /\ base'[t] = 0 /\ entered'[t] = entered[t] + 1
      /\ count' = count /\ left' = left
      /\ \A u \in Threads \ {t} : /\ pc'[u] = pc[u] /\ i'[u] = i[u]
                                  /\ base'[u] = base[u]
                                  /\ entered'[u] = entered[u]
  BY DEF TreeInv, TreeTypes, Enter, Goto
<1>2. TreeTypes'
  BY DEF TreeInv, TreeTypes, PCs, Enter, Goto
<1>3. Size(t)' = 1 /\ 1 \in Sizes /\ N \in Nat \ {0} /\ N \div 1 = N
  <2>1. N \in Nat \ {0} /\ N % 1 = 0 /\ N \div 1 = N
    BY PoolAssumption
  <2> QED
    BY <1>1, <2>1 DEF Size, Sizes
<1>4. Place(t)' /\ Won(t)'
  <2>1. t \in Nat /\ t % 1 = 0
    BY ThreadType
  <2>2. Place(t)'
    BY <1>1, <1>3, <2>1 DEF Place
  <2>3. Below(t)' = {}
    BY <1>3, <2>1 DEF Below
  <2> QED
    BY <2>2, <2>3 DEF Won
<1>5. ASSUME NEW u \in Threads, u # t, Inside(u)'
      PROVE  Place(u)' /\ Won(u)'
  <2>1. Inside(u)
    BY <1>1, <1>5 DEF Inside
  <2>2. Place(u) /\ Won(u)
    BY <2>1 DEF TreeInv
  <2>3. \A w \in Below(u) : w \in Threads /\ pc[w] = "allWait" /\ w # t
                            /\ entered[w] = entered[u]
    BY <2>2, PlaceType DEF Won, Inside
  <2> QED
    BY <1>1, <1>5, <2>2, <2>3, PlaceKept, WonKept DEF Alike
<1>6. Counts'
  <2>1. ASSUME NEW s \in Sizes PROVE ~Counted(t, s)' /\ ~Counted(t, s)
    <3>1. s \in Nat \ {0}
      BY SizeType
    <3> QED
      BY <1>1, <1>3, <3>1 DEF Counted
  <2>2. \A u \in Threads, s \in Sizes : Counted(u, s)' <=> Counted(u, s)
    BY <1>1, <2>1, CountedKept DEF Alike
  <2> QED
    BY <1>1, <2>2, CountsKept DEF TreeInv
<1>7. ASSUME NEW u \in Threads PROVE Visits(u)'
  <2>1. Visits(u) /\ entered[u] \in Nat /\ left[u] \in Nat
    BY RoundTypes
  <2>2. CASE u = t
    BY <1>1, <2>1, <2>2 DEF Visits, Ones, Inside
  <2>3. CASE u # t
    BY <1>1, <2>1, <2>3 DEF Visits, Ones, Inside
  <2> QED
    BY <2>2, <2>3
<1>8. ASSUME NEW x \in Threads, NEW u \in Threads PROVE Rounds(x, u)'
  <2>1. /\ Rounds(x, u) /\ Visits(t) /\ left[u] <= entered[x]
        /\ entered[x] \in Nat /\ entered[u] \in Nat /\ entered[t] \in Nat
        /\ left[x] \in Nat /\ left[u] \in Nat
    BY RoundTypes DEF Rounds
  <2>2. CASE x # t /\ u # t
    BY <1>1, <2>1, <2>2
    DEF Rounds, Released, Arriving, WaitsFor, Size
  <2>3. CASE u = t /\ x # t
    BY <1>1, <2>1, <2>3
    DEF Rounds, Released, Arriving, WaitsFor, Size
  <2>4. CASE x = t /\ N >= 2
    <3>1. pc'[t] = "up"
      BY <1>1, <1>3, <2>4
    <3> QED
      BY <1>1, <2>1, <2>4, <3>1
      DEF Rounds, Released, Arriving, WaitsFor, Size
  <2>5. CASE x = t /\ N < 2
    <3>1. u = t /\ pc'[t] = "down"
      BY <1>1, <1>3, <2>5, ThreadType
    <3> QED
      BY <1>1, <2>1, <2>5, <3>1
      DEF Rounds, Released, Arriving, WaitsFor, Size, Visits, Ones
  <2> QED
    BY <1>3, <2>2, <2>3, <2>4, <2>5
<1> QED
  BY <1>2, <1>4, <1>5, <1>6, <1>7, <1>8 DEF TreeInv

LEMMA LeaveTree ==
  ASSUME TreeInv, NEW t \in Threads, NEW where \in PCs,
         where \in {"main", "wait", "run", "join", "exited"}, Leave(t, where)
  PROVE  TreeInv'
<1>1. /\ pc[t] = "down" /\ i[t] \div 2 <= 1 /\ pc'[t] = where
      /\ UNCHANGED <<i, base, count, entered>> /\ left'[t] = left[t] + 1
      /\ \A u \in Threads \ {t} : pc'[u] = pc[u] /\ left'[u] = left[u]
  BY DEF TreeInv, TreeTypes, Leave, Goto, barrier
<1>2. TreeTypes'
  BY DEF TreeInv, TreeTypes, Leave, Goto, barrier
<1>3. Inside(t) /\ ~Inside(t)' /\ Size(t) = 1
  <2>1. Inside(t) /\ ~Inside(t)'
    BY <1>1 DEF Inside
  <2> QED
    BY <1>1, <2>1, PlaceType DEF TreeInv, Size
<1>5. ASSUME NEW u \in Threads, Inside(u)'
      PROVE  Place(u)' /\ Won(u)'
  <2>1. Inside(u) /\ u # t
    BY <1>1, <1>3, <1>5 DEF Inside
  <2>2. Place(u) /\ Won(u)
    BY <2>1 DEF TreeInv
  <2>3. \A w \in Below(u) : w \in Threads /\ pc[w] = "allWait" /\ w # t
    BY <1>1, <2>2, PlaceType DEF Won
  <2> QED
    BY <1>1, <2>1, <2>2, <2>3, PlaceKept, WonKept DEF Alike
<1>6. Counts'
  <2>1. ASSUME NEW s \in Sizes PROVE ~Counted(t, s)' /\ ~Counted(t, s)
    <3>1. s \in Nat \ {0}
      BY SizeType
    <3> QED
      BY <1>1, <1>3, <3>1 DEF Counted
  <2>2. \A u \in Threads, s \in Sizes : Counted(u, s)' <=> Counted(u, s)
    BY <1>1, <2>1, CountedKept DEF Alike
  <2> QED
    BY <1>1, <2>2, CountsKept DEF TreeInv
<1>7. ASSUME NEW u \in Threads PROVE Visits(u)'
  <2>1. Visits(u) /\ entered[u] \in Nat /\ left[u] \in Nat
    BY RoundTypes
  <2>2. CASE u = t
    BY <1>1, <1>3, <2>1, <2>2 DEF Visits, Ones
  <2>3. CASE u # t
    BY <1>1, <2>1, <2>3 DEF Visits, Ones, Inside
  <2> QED
    BY <2>2, <2>3
<1>8. ASSUME NEW x \in Threads, NEW u \in Threads PROVE Rounds(x, u)'
  <2>1. /\ Rounds(x, u) /\ Rounds(u, x) /\ Visits(t)
        /\ entered[x] \in Nat /\ entered[u] \in Nat /\ entered[t] \in Nat
        /\ left[x] \in Nat /\ left[u] \in Nat
    BY RoundTypes
  <2>2. CASE x # t /\ u # t
    BY <1>1, <2>1, <2>2
    DEF Rounds, Released, Arriving, WaitsFor, Size
  <2>3. entered[t] = left[t] + 1
    BY <1>3, <2>1 DEF Visits, Ones
  <2>4. CASE u = t /\ x # t
    BY <1>1, <2>1, <2>3, <2>4
    DEF Rounds, Released, Arriving, WaitsFor, Size
  <2>5. CASE x = t
    <3>1. ASSUME pc[u] = "allWait" PROVE Size(u) \in Nat /\ Size(u) >= 1
      <4>1. Place(u)
        BY <3>1, RoundTypes DEF Inside
      <4> QED
        BY <4>1, PlaceType
    <3>2. left'[t] <= entered[u]
      BY <1>1, <2>1, <2>3, <2>5 DEF Rounds, Released
    <3>3. WaitsFor(u, t)' => left'[t] < entered[u]
      BY <1>1, <1>3, <2>1, <2>3, <2>5, <3>1 DEF Rounds, WaitsFor, Size
    <3>4. ~Released(t)' /\ ~Arriving(t)' /\ pc'[t] # "down"
      BY <1>1 DEF Released, Arriving
    <3> QED
      BY <1>1, <2>5, <3>2, <3>3, <3>4 DEF Rounds
  <2> QED
    BY <2>2, <2>4, <2>5
<1> QED
  BY <1>2, <1>5, <1>6, <1>7, <1>8 DEF TreeInv

-----------------------------------------------------------------------------
(* Up the tree *)

\* A thread that counts itself at its node.
LEMMA CountsUp ==
  ASSUME TreeInv, NEW s \in Sizes, s < N, NEW t \in Pairs(s),
         NEW w \in {t, t + s}, ~Counted(w, s), Counted(w, s)',
         count' \in [Nodes -> Nat],
         \A n \in Nodes : n # Node(s, t) => count'[n] = count[n],
         count'[Node(s, t)] = count[Node(s, t)] + 1,
         \A u \in Threads, r \in Sizes : r # s \/ u # w =>
             (Counted(u, r)' <=> Counted(u, r))
  PROVE  /\ Counts' /\ count' \in [Nodes -> 0 .. 2]
         /\ count'[Node(s, t)] = 2 =>
                Counted(t, s)' /\ Counted(t + s, s)'
<1>1. /\ t \in Threads /\ t + s \in Threads /\ t + s # t
      /\ Node(s, t) \in Nodes /\ count \in [Nodes -> 0 .. 2]
  BY Neighbour, NodeType DEF TreeInv, TreeTypes
<1>2. count[Node(s, t)] = Ones(Counted(t, s)) + Ones(Counted(t + s, s))
  BY DEF TreeInv, Counts
<1>3. \A u \in {t, t + s} : u # w => (Counted(u, s)' <=> Counted(u, s))
  BY <1>1
<1>4. count'[Node(s, t)] = Ones(Counted(t, s)') + Ones(Counted(t + s, s)')
  BY <1>1, <1>2, <1>3 DEF Ones
<1>6. Counts'
  <2>1. \A u \in Threads, r \in Sizes : r # s \/ u \notin {t, t + s} =>
            (Counted(u, r)' <=> Counted(u, r))
    OBVIOUS
  <2>2. Counts
    BY DEF TreeInv
  <2> QED
    BY <1>4, <2>1, <2>2, CountsAt
<1>7. count'[Node(s, t)] \in 0 .. 2
  BY <1>4 DEF Ones
<1>8. count' \in [Nodes -> 0 .. 2]
  BY <1>1, <1>7
<1>9. count'[Node(s, t)] = 2 => Counted(t, s)' /\ Counted(t + s, s)'
  BY <1>4 DEF Ones
<1> QED
  BY <1>6, <1>8, <1>9

\* A thread that sleeps or wakes up at a node for nothing.
LEMMA DozeTree ==
  ASSUME TreeInv, UNCHANGED <<i, base, count, entered, left, site>>,
         pc' \in [Threads -> PCs], \A u \in Threads : Alike(u)
  PROVE  TreeInv'
<1>1. TreeTypes'
  BY DEF TreeInv, TreeTypes
<1>2. ASSUME NEW u \in Threads, Inside(u)'
      PROVE  Place(u)' /\ Won(u)'
  <2>1. Inside(u)
    BY <1>2 DEF Inside, Alike
  <2>2. Place(u) /\ Won(u)
    BY <2>1 DEF TreeInv
  <2>3. \A w \in Below(u) : pc'[w] = "allWait"
    BY <2>2, PlaceType DEF Won, Alike
  <2> QED
    BY <2>2, <2>3, PlaceKept, WonKept
<1>3. Counts'
  BY CountedKept, CountsKept DEF TreeInv
<1>4. \A x \in Threads : Visits(x)'
  BY DEF TreeInv, Visits, Inside, Alike
<1>5. ASSUME NEW x \in Threads, NEW u \in Threads PROVE Rounds(x, u)'
  <2>1. Rounds(x, u) /\ Alike(x) /\ Alike(u)
    BY DEF TreeInv
  <2> QED
    BY <2>1 DEF Rounds, Released, Arriving, WaitsFor, Size, Alike
<1> QED
  BY <1>1, <1>2, <1>3, <1>4, <1>5 DEF TreeInv

\* What is known when one comes to a node.
LEMMA UpFacts ==
  ASSUME TreeInv, NEW t \in Threads, pc[t] = "up"
  PROVE  /\ Inside(t) /\ Place(t) /\ Won(t) /\ Arriving(t)
         /\ Size(t) \in Sizes /\ Size(t) \in Nat \ {0} /\ Size(t) < N
         /\ i[t] = 2 * Size(t) /\ t % Size(t) = 0
         /\ index(t) = Node(Size(t), t)
         /\ ~Counted(t, Size(t))
<1>1. Inside(t) /\ Place(t) /\ Won(t) /\ Arriving(t)
  BY DEF TreeInv, Inside, Arriving
<1>2. Size(t) < N
  BY <1>1 DEF Place
<1>3. Size(t) \in Nat
  BY <1>1, PlaceType
<1>4. ~Counted(t, Size(t))
  BY <1>3 DEF Counted
<1> QED
  BY <1>1, <1>2, <1>4, PlaceType

\* ... and counts oneself, without being higher up yet.
LEMMA CountOneself ==
  ASSUME TreeInv, NEW t \in Threads, pc[t] = "up",
         NEW s \in Sizes, s = Size(t),
         NEW v \in {"pairWait", "allWait"}, pc'[t] = v, i'[t] = i[t],
         \A u \in Threads \ {t} : i'[u] = i[u] /\ Alike(u)
  PROVE  /\ Counted(t, s)'
         /\ \A u \in Threads, r \in Sizes : r # s \/ u # t =>
                (Counted(u, r)' <=> Counted(u, r))
<1>1. Counted(t, s)'
  <2>1. Size(t)' = Size(t)
    BY DEF Size
  <2> QED
    BY <2>1 DEF Counted, Inside
<1>2. ASSUME NEW r \in Sizes, r # s
      PROVE  Counted(t, r)' <=> Counted(t, r)
  BY <1>2 DEF Counted, Inside, Size
<1> QED
  BY <1>1, <1>2, CountedKept

\* The first of a pair, or the second, waits.
LEMMA WaitTree ==
  ASSUME TreeInv, NEW t \in Threads, pc[t] = "up",
         NEW v \in {"pairWait", "allWait"}, pc'[t] = v,
         v = "pairWait" <=> t % i[t] = 0,
         pc' \in [Threads -> PCs], \A u \in Threads \ {t} : Alike(u),
         count' = [count EXCEPT ![index(t)] = @ + 1],
         UNCHANGED <<i, base, entered, left, site>>
  PROVE  TreeInv'
<1> PICK s \in Sizes : s = Size(t)
  BY UpFacts
<1>0. /\ Place(t) /\ Won(t) /\ Arriving(t) /\ Inside(t)
      /\ s \in Sizes /\ s \in Nat \ {0} /\ s < N
      /\ i[t] = 2 * s /\ t % s = 0 /\ index(t) = Node(s, t)
      /\ ~Counted(t, s)
  BY UpFacts
<1>1. /\ Counted(t, s)'
      /\ \A u \in Threads, r \in Sizes : r # s \/ u # t =>
             (Counted(u, r)' <=> Counted(u, r))
  BY CountOneself
<1>2. Place(t)'
  BY <1>0 DEF Place, Size
<1>8. /\ count' \in [Nodes -> Nat]
      /\ \A n \in Nodes : n # Node(s, t) => count'[n] = count[n]
      /\ count'[Node(s, t)] = count[Node(s, t)] + 1
  <2>1. count \in [Nodes -> 0 .. 2] /\ Node(s, t) \in Nodes
    BY <1>0, NodeType DEF TreeInv, TreeTypes
  <2> QED
    BY <1>0, <2>1
<1>3. Counts' /\ count' \in [Nodes -> 0 .. 2]
  <2>1. CASE t % (2 * s) = 0
    <3>1. t \in Pairs(s)
      BY <2>1 DEF Pairs
    <3> QED
      BY <1>0, <1>1, <1>8, <3>1, CountsUp
  <2>2. CASE t % (2 * s) # 0
    <3> DEFINE w == t - s
    <3>1. w \in Pairs(s) /\ w + s = t /\ Node(s, w) = Node(s, t)
      BY <1>0, <2>2, LeftNeighbour
    <3> HIDE DEF w
    <3>2. /\ t \in {w, w + s}
          /\ \A u \in Threads, r \in Sizes : r # s \/ u # t =>
                 (Counted(u, r)' <=> Counted(u, r))
      BY <1>1, <3>1
    <3> QED
      BY <1>0, <1>1, <1>8, <3>1, <3>2, CountsUp
  <2> QED
    BY <2>1, <2>2
<1>4. TreeTypes'
  BY <1>3 DEF TreeInv, TreeTypes
<1>5. ASSUME NEW u \in Threads, Inside(u)'
      PROVE  Place(u)' /\ Won(u)'
  <2>1. Inside(u)
    BY <1>0, <1>5 DEF Inside, Alike
  <2>2. Place(u) /\ Won(u)
    BY <2>1 DEF TreeInv
  <2>3. \A w \in Below(u) : pc'[w] = "allWait"
    BY <2>2, PlaceType DEF Won, Alike
  <2>4. Place(u)'
    BY <1>2, <2>2, PlaceKept
  <2> QED
    BY <2>2, <2>3, <2>4, WonKept
<1>6. \A x \in Threads : Visits(x)'
  <2>1. ASSUME NEW x \in Threads PROVE Inside(x)' <=> Inside(x)
    BY <1>0 DEF Inside, Alike
  <2> QED
    BY <2>1 DEF TreeInv, Visits, Ones
<1>7. ASSUME NEW x \in Threads, NEW u \in Threads PROVE Rounds(x, u)'
  <2>1. Rounds(x, u) /\ Rounds(u, x)
    BY DEF TreeInv
  <2>2. CASE x # t /\ u # t
    BY <2>1, <2>2
    DEF Rounds, Released, Arriving, WaitsFor, Size, Alike
  <2>3. CASE x = t
    <3>1. /\ ~Released(t)' /\ pc'[t] # "down" /\ Arriving(t)
          /\ u # t => (WaitsFor(u, t)' <=> WaitsFor(u, t))
      BY <1>0 DEF Released, WaitsFor, Size, Alike
    <3>2. ~WaitsFor(t, t)'
      BY <1>0, ThreadType DEF WaitsFor, Size
    <3> QED
      BY <2>1, <2>3, <3>1, <3>2 DEF Rounds
  <2>4. CASE u = t /\ x # t
    <3>1. /\ Released(x)' <=> Released(x)
          /\ Arriving(x)' <=> Arriving(x)
          /\ pc'[x] = "down" => Released(x)
          /\ Arriving(t)
      BY <1>0, <2>4 DEF Released, Arriving, Alike
    <3> QED
      BY <2>1, <2>4, <3>1 DEF Rounds
  <2> QED
    BY <2>2, <2>3, <2>4
<1> QED
  BY <1>3, <1>4, <1>5, <1>6, <1>7 DEF TreeInv

\* The winner of a pair goes on to the next level, or down if there is none.
LEMMA AscendPlace ==
  ASSUME TreeInv, NEW s \in Sizes, s < N, NEW t \in Pairs(s), s = Size(t),
         Arriving(t), Ascend(t)
  PROVE  /\ 2 * s \in Sizes /\ Size(t)' = 2 * s /\ Place(t)'
         /\ pc'[t] = "up" \/ (pc'[t] = "down" /\ 2 * s = N)
         /\ \A u \in Threads \ {t} : /\ pc'[u] = pc[u] /\ i'[u] = i[u]
                                     /\ base'[u] = base[u]
         /\ \A r \in Sizes : Counted(t, r)' <=> r = s \/ Counted(t, r)
<1>1. /\ t \in Threads /\ t % (2 * s) = 0 /\ Inside(t) /\ Place(t)
      /\ i[t] = 2 * s /\ base[t] = N - N \div s
      /\ s \in Nat \ {0} /\ N \in Nat \ {0}
  BY SizeType DEF Pairs, TreeInv, Inside, Arriving, Place
<1>2. /\ 2 * s \in Sizes /\ N \div s = 2 * (N \div (2 * s)) /\ 2 * s <= N
      /\ N \div (2 * s) \in Nat
  BY <1>1, Doubled, SizeType
<1>3. /\ i'[t] = 4 * s /\ base'[t] = base[t] + N \div (2 * s)
      /\ pc'[t] = IF 4 * s <= N THEN "up" ELSE "down"
      /\ \A u \in Threads \ {t} : /\ pc'[u] = pc[u] /\ i'[u] = i[u]
                                  /\ base'[u] = base[u]
  <2>1. i[t] * 2 = 4 * s
    BY <1>1
  <2> QED
    BY <1>1, <2>1 DEF Ascend, Goto, TreeInv, TreeTypes
<1>4. Size(t)' = 2 * s
  <2>1. (4 * s) \div 2 = 2 * s
    BY <1>1
  <2>2. Size(t)' = (4 * s) \div 2
    BY <1>3 DEF Size
  <2> QED
    BY <2>1, <2>2
<1>5. (pc'[t] = "up" /\ 2 * s < N) \/ (pc'[t] = "down" /\ 2 * s = N)
  <2>1. CASE 4 * s <= N
    <3>1. 2 * s < N
      BY <1>1, <2>1
    <3>2. pc'[t] = "up"
      BY <1>3, <2>1, Zenon
    <3> QED
      BY <3>1, <3>2
  <2>2. CASE ~(4 * s <= N)
    <3>1. ~(2 * s < N)
      <4>1. ASSUME 2 * s < N PROVE FALSE
        <5>1. 2 * (2 * s) \in Sizes
          BY <1>2, <4>1, Doubled
        <5>2. 2 * (2 * s) <= N
          BY <5>1, SizeType
        <5> QED
          BY <1>1, <2>2, <5>2
      <4> QED
        BY <4>1
    <3> QED
      BY <1>1, <1>2, <1>3, <2>2, <3>1
  <2> QED
    BY <2>1, <2>2
<1>6. Place(t)'
  <2>1. base'[t] = N - N \div (2 * s)
    BY <1>1, <1>2, <1>3
  <2>2. i'[t] = 2 * (2 * s)
    BY <1>1, <1>3
  <2> QED
    BY <1>1, <1>2, <1>4, <1>5, <2>1, <2>2 DEF Place
<1>7. ASSUME NEW r \in Sizes
      PROVE  Counted(t, r)' <=> r = s \/ Counted(t, r)
  <2>1. /\ r \in Nat \ {0} /\ s < r => 2 * s <= r
        /\ pc'[t] \in {"up", "down"}
    BY <1>1, <1>5, NextSize, SizeType
  <2>2. Counted(t, r)' <=> r < 2 * s
    BY <1>4, <2>1 DEF Counted, Inside
  <2>3. Counted(t, r) => r <= s
    BY <1>1, <2>1 DEF Counted
  <2>4. r < s => Counted(t, r)
    BY <1>1 DEF Counted
  <2> QED
    BY <1>1, <2>1, <2>2, <2>3, <2>4
<1> QED
  BY <1>2, <1>3, <1>4, <1>5, <1>6, <1>7

LEMMA ClimbTree ==
  ASSUME TreeInv, NEW s \in Sizes, s < N, NEW t \in Pairs(s), s = Size(t),
         Arriving(t), Ascend(t), Counted(t + s, s),
         Counts', count' \in [Nodes -> 0 .. 2],
         UNCHANGED <<site, entered, left>>
  PROVE  TreeInv'
<1> DEFINE w == t + s
<1>1. /\ t \in Threads /\ w \in Threads /\ w # t /\ t % (2 * s) = 0
      /\ pc[w] = "allWait" /\ Size(w) = s /\ entered[w] = entered[t]
      /\ s \in Nat \ {0} /\ t \in Nat /\ w = t + s
  BY Neighbour, NeighbourWaits, NeighbourInRound, SizeType, ThreadType
  DEF Pairs
<1>2. /\ 2 * s \in Sizes /\ Size(t)' = 2 * s /\ Place(t)'
      /\ pc'[t] = "up" \/ (pc'[t] = "down" /\ 2 * s = N)
      /\ \A u \in Threads \ {t} : /\ pc'[u] = pc[u] /\ i'[u] = i[u]
                                  /\ base'[u] = base[u]
  BY AscendPlace
<1>3. Inside(t) /\ Place(t) /\ Won(t) /\ Place(w) /\ Won(w) /\ t \notin Below(w)
      /\ w \in Nat
  <2>1. Inside(t) /\ Inside(w)
    BY <1>1 DEF Arriving, Inside
  <2>2. Place(t) /\ Won(t) /\ Place(w) /\ Won(w)
    BY <1>1, <2>1 DEF TreeInv
  <2> QED
    BY <1>1, <2>1, <2>2 DEF Below
<1> HIDE DEF w
<1>4. TreeTypes'
  <2>1. i[t] = 2 * s /\ N \div i[t] \in Int
    BY <1>1, <1>2, <1>3, SizeType DEF Place
  <2>2. pc'[t] \in PCs
    BY <1>2 DEF PCs
  <2> QED
    BY <1>1, <2>1, <2>2 DEF TreeInv, TreeTypes, Ascend, Goto, PCs
<1>5. Won(t)'
  <2> SUFFICES ASSUME NEW u \in t + 1 .. t + 2 * s - 1
               PROVE  pc'[u] = "allWait" /\ entered'[u] = entered'[t]
    BY <1>2 DEF Won, Below
  <2>1. u \in Below(t) \/ u = w \/ u \in Below(w)
    <3>1. /\ Below(t) = t + 1 .. t + s - 1
          /\ Below(w) = w + 1 .. w + s - 1
      BY <1>1 DEF Below
    <3>2. u \in Int /\ t < u /\ u < t + 2 * s /\ t \in Nat /\ s \in Nat
          /\ w = t + s
      BY <1>1
    <3>3. u \in t + 1 .. t + s - 1 \/ u = w \/ u \in w + 1 .. w + s - 1
      BY <3>2
    <3> QED
      BY <3>1, <3>3
  <2>2. u \in Threads /\ u # t /\ pc[u] = "allWait" /\ entered[u] = entered[t]
    BY <1>1, <1>3, <2>1, PlaceType DEF Won
  <2> QED
    BY <1>2, <2>2
<1>6. ASSUME NEW u \in Threads, u # t, Inside(u)'
      PROVE  Place(u)' /\ Won(u)'
  <2>1. Inside(u)
    BY <1>2, <1>6 DEF Inside
  <2>2. Place(u) /\ Won(u)
    BY <2>1 DEF TreeInv
  <2>3. \A v \in Below(u) : v \in Threads /\ pc[v] = "allWait" /\ v # t
    <3>1. pc[t] # "allWait"
      BY DEF Arriving
    <3> QED
      BY <2>2, <3>1, PlaceType DEF Won
  <2> QED
    BY <1>2, <1>6, <2>2, <2>3, PlaceKept, WonKept DEF Alike
<1>7. \A x \in Threads : Visits(x)'
  <2>1. ASSUME NEW x \in Threads PROVE Inside(x)' <=> Inside(x)
    BY <1>2, <1>3 DEF Inside
  <2> QED
    BY <2>1 DEF TreeInv, Visits, Ones
<1>8. ASSUME NEW x \in Threads, NEW u \in Threads PROVE Rounds(x, u)'
  <2>1. Rounds(x, u) /\ Rounds(u, x)
    BY DEF TreeInv
  <2>2. CASE x # t
    <3>1. /\ Released(x)' <=> Released(x)
          /\ Arriving(x)' <=> Arriving(x)
          /\ Arriving(u)' => Arriving(u)
          /\ WaitsFor(u, x)' => WaitsFor(u, x) /\ Size(u)' = Size(u)
          /\ pc'[x] = pc[x] /\ Size(x)' = Size(x)
      BY <1>2, <2>2 DEF Released, Arriving, WaitsFor, Size
    <3> QED
      BY <2>1, <3>1 DEF Rounds
  <2>3. CASE x = t /\ pc'[t] = "up"
    <3>1. /\ ~Released(t)' /\ pc'[t] # "down"
          /\ WaitsFor(u, t)' => WaitsFor(u, t)
      BY <1>2, <2>3 DEF Released, WaitsFor, Size
    <3> QED
      BY <2>1, <2>3, <3>1 DEF Rounds
  <2>4. CASE x = t /\ pc'[t] = "down"
    <3>1. 2 * s = N /\ t = 0
      <4>1. 2 * s = N /\ t < N
        BY <1>1, <1>2, <2>4, ThreadType
      <4>2. t % N = 0
        BY <1>1, <4>1
      <4> QED
        BY <1>1, <4>1, <4>2
    <3>2. u # t => /\ pc[u] = "allWait" /\ entered[u] = entered[t]
                   /\ pc'[u] = "allWait" /\ Size(u)' = Size(u)
      <4>1. u # t => u \in t + 1 .. t + 2 * s - 1
        BY <1>1, <3>1, ThreadType
      <4>2. u # t => u \in Below(t)'
        BY <1>2, <4>1 DEF Below
      <4>3. u # t => pc'[u] = "allWait" /\ entered'[u] = entered'[t]
        BY <1>5, <4>2 DEF Won
      <4> QED
        BY <1>2, <4>3 DEF Size
    <3>3. entered[t] \in Nat /\ ~Arriving(t)' /\ ~Arriving(u)'
      BY <1>1, <2>4, <3>2 DEF TreeInv, TreeTypes, Arriving
    <3>4. entered[t] <= entered[u]
      BY <3>2, <3>3
    <3>5. WaitsFor(u, t)' => u # t /\ Size(u) < Size(t)'
      <4>1. ASSUME WaitsFor(u, t)' PROVE u # t /\ Size(u) < Size(t)'
        <5>1. u # t
          BY <2>4, <4>1 DEF WaitsFor
        <5>2. Inside(u) /\ Place(u) /\ pc[u] # "down"
          BY <3>2, <5>1 DEF Inside, TreeInv
        <5> QED
          BY <1>2, <3>1, <5>1, <5>2 DEF Place
      <4> QED
        BY <4>1
    <3>6. WaitsFor(u, t)' => WaitsFor(u, t)
      BY <3>2, <3>5 DEF WaitsFor
    <3>7. WaitsFor(u, t)' => ~(Size(u)' >= Size(t)')
      <4>1. ASSUME u # t PROVE Size(u) \in Nat
        <5>1. Inside(u) /\ Place(u)
          BY <3>2, <4>1 DEF Inside, TreeInv
        <5> QED
          BY <5>1, PlaceType
      <4> QED
        BY <1>1, <1>2, <3>2, <3>5, <4>1
    <3> QED
      BY <2>1, <2>4, <3>3, <3>4, <3>6, <3>7 DEF Rounds
  <2> QED
    BY <1>2, <2>2, <2>3, <2>4
<1> QED
  BY <1>2, <1>4, <1>5, <1>6, <1>7, <1>8 DEF TreeInv

\* The first of a pair.
LEMMA ArriveFirstTree ==
  ASSUME TreeInv, NEW t \in Threads, ArriveFirst(t)
  PROVE  TreeInv'
<1> PICK s \in Sizes : s = Size(t)
  BY UpFacts DEF ArriveFirst
<1>1. /\ pc[t] = "up" /\ t % i[t] = 0
      /\ count' = [count EXCEPT ![index(t)] = @ + 1]
      /\ UNCHANGED <<site, entered, left>>
  BY DEF ArriveFirst
<1>2. /\ Arriving(t) /\ s < N /\ i[t] = 2 * s /\ index(t) = Node(s, t)
      /\ ~Counted(t, s) /\ t \in Pairs(s)
  BY <1>1, UpFacts DEF Pairs
<1>3. CASE count'[index(t)] < 2
  <2>1. Goto(t, "pairWait") /\ UNCHANGED <<i, base>>
    BY <1>3 DEF ArriveFirst
  <2>2. /\ pc'[t] = "pairWait" /\ pc' \in [Threads -> PCs]
        /\ \A u \in Threads \ {t} : Alike(u)
    BY <2>1 DEF Goto, TreeInv, TreeTypes, PCs, Alike
  <2> QED
    BY <1>1, <2>1, <2>2, WaitTree
<1>4. CASE ~(count'[index(t)] < 2)
  <2>1. Ascend(t)
    BY <1>4 DEF ArriveFirst
  <2>2. /\ \A u \in Threads \ {t} : pc'[u] = pc[u] /\ i'[u] = i[u]
        /\ \A r \in Sizes : Counted(t, r)' <=> r = s \/ Counted(t, r)
    BY <1>2, <2>1, AscendPlace
  <2>3. \A u \in Threads, r \in Sizes : r # s \/ u # t =>
            (Counted(u, r)' <=> Counted(u, r))
    BY <2>2, CountedKept DEF Alike
  <2>4. /\ count' \in [Nodes -> Nat]
        /\ \A n \in Nodes : n # Node(s, t) => count'[n] = count[n]
        /\ count'[Node(s, t)] = count[Node(s, t)] + 1
    <3>1. count \in [Nodes -> 0 .. 2] /\ Node(s, t) \in Nodes
      BY <1>2, NodeType DEF TreeInv, TreeTypes
    <3> QED
      BY <1>1, <1>2, <3>1
  <2>5. /\ Counts' /\ count' \in [Nodes -> 0 .. 2]
        /\ count'[Node(s, t)] = 2 => Counted(t + s, s)'
    BY <1>2, <2>2, <2>3, <2>4, CountsUp
  <2>6. count'[Node(s, t)] = 2
    <3>1. Node(s, t) \in Nodes
      BY <1>2, NodeType
    <3> QED
      BY <1>2, <1>4, <2>5, <3>1
  <2>7. Counted(t + s, s)
    <3>1. t + s \in Threads /\ t + s # t
      BY <1>2, Neighbour
    <3> QED
      BY <2>3, <2>5, <2>6, <3>1
  <2> QED
    BY <1>1, <1>2, <2>1, <2>5, <2>7, ClimbTree
<1> QED
  BY <1>3, <1>4

\* ... and when it has been woken.
LEMMA WakePairTree ==
  ASSUME TreeInv, NEW t \in Threads, WakePair(t)
  PROVE  TreeInv'
<1>1. /\ pc[t] = "pairWoken" /\ UNCHANGED <<site, count, entered, left>>
      /\ Inside(t) /\ Arriving(t)
  BY DEF WakePair, Inside, Arriving
<1>2. Place(t)
  BY <1>1 DEF TreeInv
<1> PICK s \in Sizes : s = Size(t)
  BY <1>2 DEF Place
<1>3. /\ s < N /\ index(t) = Node(s, t) /\ t \in Pairs(s) /\ Counted(t, s)
  BY <1>1, <1>2, PlaceType DEF Place, Pairs, Counted
<1>4. CASE count[index(t)] < 2
  <2>1. Goto(t, "pairWait") /\ UNCHANGED <<i, base>>
    BY <1>4 DEF WakePair
  <2>2. pc' \in [Threads -> PCs] /\ \A u \in Threads : Alike(u)
    BY <1>1, <2>1 DEF Goto, TreeInv, TreeTypes, PCs, Alike
  <2> QED
    BY <1>1, <2>1, <2>2, DozeTree
<1>5. CASE ~(count[index(t)] < 2)
  <2>1. Ascend(t)
    BY <1>5 DEF WakePair
  <2>2. \A u \in Threads, r \in Sizes : Counted(u, r)' <=> Counted(u, r)
    <3>1. /\ \A u \in Threads \ {t} : pc'[u] = pc[u] /\ i'[u] = i[u]
          /\ \A r \in Sizes : Counted(t, r)' <=> r = s \/ Counted(t, r)
      BY <1>1, <1>3, <2>1, AscendPlace
    <3> QED
      BY <1>3, <3>1, CountedKept DEF Alike
  <2>3. Counts' /\ count' \in [Nodes -> 0 .. 2]
    BY <1>1, <2>2, CountsKept DEF TreeInv, TreeTypes
  <2>4. Counted(t + s, s)
    <3>1. count[Node(s, t)] = Ones(Counted(t, s)) + Ones(Counted(t + s, s))
      BY <1>3 DEF TreeInv, Counts
    <3> QED
      BY <1>3, <1>5, <3>1 DEF Ones
  <2> QED
    BY <1>1, <1>3, <2>1, <2>3, <2>4, ClimbTree
<1> QED
  BY <1>4, <1>5

\* The second of a pair.
LEMMA ArriveSecondTree ==
  ASSUME TreeInv, NEW t \in Threads, ArriveSecond(t)
  PROVE  TreeInv'
<1>1. /\ pc[t] = "up" /\ t % i[t] # 0
      /\ count' = [count EXCEPT ![index(t)] = @ + 1]
      /\ UNCHANGED <<site, i, base, entered, left>>
  BY DEF ArriveSecond
<1> DEFINE waits == [pc EXCEPT ![t] = "allWait"]
<1>2. \/ pc' = waits
      \/ \E u \in Threads : pc[u] = "pairWait"
                            /\ pc' = [waits EXCEPT ![u] = "pairWoken"]
  BY DEF ArriveSecond, Signal
<1>3. /\ pc'[t] = "allWait" /\ pc' \in [Threads -> PCs]
      /\ \A u \in Threads \ {t} : Alike(u)
  <2>1. pc \in [Threads -> PCs]
    BY DEF TreeInv, TreeTypes
  <2> QED
    BY <1>1, <1>2, <2>1 DEF PCs, Alike
<1> QED
  BY <1>1, <1>3, WaitTree


-----------------------------------------------------------------------------
(* The way down *)

LEMMA WakeAllTree ==
  ASSUME TreeInv, NEW t \in Threads, WakeAll(t)
  PROVE  TreeInv'
<1>1. /\ pc[t] = "allWoken" /\ pc'[t] = "down" /\ pc' \in [Threads -> PCs]
      /\ UNCHANGED <<site, i, base, count, entered, left>>
      /\ \A u \in Threads \ {t} : pc'[u] = pc[u]
  BY DEF TreeInv, TreeTypes, WakeAll, Goto, barrier, PCs
<1>2. TreeTypes'
  BY <1>1 DEF TreeInv, TreeTypes
<1>3. Inside(t) /\ Place(t) /\ Won(t)
  BY <1>1, RoundTypes DEF Inside
<1>4. ASSUME NEW u \in Threads, Inside(u)'
      PROVE  Place(u)' /\ Won(u)'
  <2>1. Inside(u)
    BY <1>1, <1>3, <1>4 DEF Inside
  <2>2. Place(u) /\ Won(u)
    BY <2>1, RoundTypes
  <2>3. \A v \in Below(u) : v \in Threads /\ pc[v] = "allWait" /\ v # t
    BY <1>1, <2>2, PlaceType DEF Won
  <2>4. Place(u)'
    <3>1. CASE u = t
      BY <1>1, <2>2, <3>1 DEF Place, Size
    <3>2. CASE u # t
      BY <1>1, <2>2, <3>2, PlaceKept DEF Alike
    <3> QED
      BY <3>1, <3>2
  <2> QED
    BY <1>1, <2>2, <2>3, <2>4, WonKept
<1>5. Counts'
  <2>1. \A s \in Sizes : Counted(t, s)' <=> Counted(t, s)
    BY <1>1, <1>3 DEF Counted, Inside, Size
  <2>2. \A u \in Threads, s \in Sizes : Counted(u, s)' <=> Counted(u, s)
    BY <1>1, <2>1, CountedKept DEF Alike
  <2> QED
    BY <1>1, <2>2, CountsKept DEF TreeInv
<1>6. ASSUME NEW u \in Threads PROVE Visits(u)'
  <2>1. Visits(u) /\ (Inside(u)' <=> Inside(u))
    BY <1>1, RoundTypes DEF Inside
  <2> QED
    BY <1>1, <2>1 DEF Visits, Ones
\* Nobody waits for t at a node above the one where t lost itself.
<1>7. ASSUME NEW u \in Threads, WaitsFor(u, t) PROVE Size(u) < Size(t)
  <2> DEFINE r == Size(u)
             s == Size(t)
  <2>1. /\ Place(u) /\ pc[u] = "allWait" /\ u = t + r
    BY <1>7, RoundTypes DEF WaitsFor, Inside
  <2>2. /\ r \in Sizes /\ s \in Sizes /\ u % r = 0 /\ u % (2 * r) # 0
        /\ t % (2 * s) # 0
    BY <1>1, <1>3, <2>1 DEF Place
  <2>3. t \in Nat /\ r \in Nat \ {0} /\ s \in Nat \ {0}
    BY <2>2, SizeType, ThreadType
  <2>4. t % (2 * r) = 0
    <3>1. u - r \in Pairs(r) /\ u - r = t
      BY <2>1, <2>2, <2>3, LeftNeighbour
    <3> QED
      BY <3>1 DEF Pairs
  <2> HIDE DEF r, s
  <2>5. ASSUME s < r PROVE FALSE
    <3>1. r % (2 * s) = 0 /\ t % r = 0
      <4>1. (2 * r) % r = 0
        BY <2>3, IsMultiple
      <4> QED
        BY <2>2, <2>3, <2>4, <2>5, <4>1, NextSize, Transitive, SMTT(30)
    <3>2. 2 * s \in Nat \ {0}
      BY <2>3
    <3>3. t % (2 * s) = 0
      BY <2>3, <3>1, <3>2, Transitive
    <3> QED
      BY <2>2, <3>3
  <2>6. r < s
    BY <2>2, <2>3, <2>4, <2>5
  <2> QED
    BY <2>6 DEF r, s
<1>8. ASSUME NEW x \in Threads, NEW u \in Threads PROVE Rounds(x, u)'
  <2>1. Rounds(x, u)
    BY RoundTypes
  <2>2. /\ Released(x)' <=> Released(x)
        /\ \A v \in {x, u} : Arriving(v)' <=> Arriving(v)
        /\ WaitsFor(u, x)' <=> WaitsFor(u, x)
        /\ Size(u)' = Size(u) /\ Size(x)' = Size(x)
    BY <1>1 DEF Released, Arriving, WaitsFor, Size
  <2>3. CASE x # t
    BY <1>1, <2>1, <2>2, <2>3 DEF Rounds
  <2>4. CASE x = t
    <3>1. WaitsFor(u, t) => ~(Size(u) >= Size(t))
      <4>1. ASSUME WaitsFor(u, t) PROVE ~(Size(u) >= Size(t))
        <5>1. Place(u) /\ Size(u) \in Nat /\ Size(t) \in Nat
          BY <1>3, <4>1, RoundTypes, PlaceType DEF WaitsFor, Inside
        <5> QED
          BY <1>7, <4>1, <5>1
      <4> QED
        BY <4>1
    <3> QED
      BY <1>1, <2>1, <2>2, <2>4, <3>1 DEF Rounds
  <2> QED
    BY <2>3, <2>4
<1> QED
  BY <1>2, <1>4, <1>5, <1>6, <1>8 DEF TreeInv

LEMMA SpuriousTree ==
  ASSUME TreeInv, "allWait" \notin SpuriousAt, NEW t \in Threads, Spurious(t)
  PROVE  TreeInv'
<1>1. /\ pc[t] = "pairWait" /\ Goto(t, "pairWoken")
      /\ UNCHANGED <<site, i, base, count, entered, left>>
  BY PoolAssumption DEF Spurious, barrier
<1>2. pc' \in [Threads -> PCs] /\ \A u \in Threads : Alike(u)
  BY <1>1 DEF TreeInv, TreeTypes, Goto, PCs, Alike
<1> QED
  BY <1>1, <1>2, DozeTree

\* The winner of a pair resets their count, and its neighbour is the one
\* that the signal wakes.
LEMMA DescendFacts ==
  ASSUME TreeInv, NEW t \in Threads, Descend(t)
  PROVE  \E s \in Sizes :
             /\ s < N /\ t \in Pairs(s) /\ Size(t) = 2 * s /\ pc[t] = "down"
             /\ t + s \in Below(t) /\ pc[t + s] = "allWait"
             /\ Size(t + s) = s
             /\ i' = [i EXCEPT ![t] = 2 * s]
             /\ base' = [base EXCEPT ![t] = N - N \div s]
             /\ count' = [count EXCEPT ![Node(s, t)] = 0]
             /\ pc' = [pc EXCEPT ![t + s] = "allWoken"]
             /\ UNCHANGED <<site, entered, left>>
<1>1. /\ pc[t] = "down" /\ i[t] \div 2 > 1 /\ Inside(t)
      /\ UNCHANGED <<site, entered, left>>
  BY DEF Descend, Inside
<1>2. Place(t) /\ Won(t)
  BY <1>1, RoundTypes
<1>3. /\ Size(t) \in Sizes /\ Size(t) \in Nat \ {0} /\ Size(t) > 1
      /\ i[t] = 2 * Size(t) /\ t % Size(t) = 0 /\ base[t] = N - N \div Size(t)
  BY <1>1, <1>2, PlaceType DEF Place, Size
<1> PICK s \in Sizes : Size(t) = 2 * s /\ s < N
  BY <1>3, Halved
<1> DEFINE w == t + s
           n == Node(s, t)
<1>4. t \in Pairs(s) /\ s \in Nat \ {0} /\ t \in Nat /\ w = t + s
  BY <1>3, SizeType, ThreadType DEF Pairs
<1>5. /\ w \in Threads /\ w % s = 0 /\ w % (2 * s) = s /\ w # t
      /\ Node(s, w) = n
  BY <1>4, Neighbour
<1>6. w \in Below(t)
  <2>1. w \in t + 1 .. t + 2 * s - 1
    BY <1>4
  <2> QED
    BY <2>1 DEF Below
<1>7. pc[w] = "allWait" /\ Place(w)
  BY <1>2, <1>5, <1>6, RoundTypes DEF Won, Inside
<1>8. Size(w) = s
  <2>1. /\ Size(w) \in Sizes /\ w % Size(w) = 0 /\ w % (2 * Size(w)) # 0
        /\ w % (2 * s) # 0
    BY <1>4, <1>5, <1>7 DEF Place
  <2>2. w \in Nat
    BY <1>5, ThreadType
  <2>3. \A r \in Sizes : w % r = 0 /\ w % (2 * r) # 0 => r = s
    BY <1>5, <2>1, <2>2, LosesOnce
  <2> QED
    BY <2>1, <2>3
<1>9. index(w) = n
  BY <1>5, <1>7, <1>8, PlaceType
<1>10. \A u \in Threads : pc[u] = "allWait" /\ index(u) = n => u = w
  BY <1>4, WaitsThere
<1>11. i[t] \div 2 = 2 * s /\ base[t] - N \div (2 * s) = N - N \div s
  <2>1. i[t] = 4 * s /\ base[t] = N - N \div (2 * s)
    BY <1>3, <1>4
  <2>2. N \div s = 2 * (N \div (2 * s))
    BY Doubled
  <2>3. (4 * s) \div 2 = 2 * s
    BY <1>4
  <2>4. N \in Nat /\ N \div (2 * s) \in Nat
    BY <1>3, SizeType
  <2> QED
    BY <2>1, <2>2, <2>3, <2>4
<1>12. N - N \div s + t \div (2 * s) = n
  BY DEF Node
<1>13. /\ i' = [i EXCEPT ![t] = 2 * s]
       /\ base' = [base EXCEPT ![t] = N - N \div s]
       /\ count' = [count EXCEPT ![n] = 0]
       /\ Signal(n, "allWait", "allWoken", pc)
  BY <1>11, <1>12 DEF Descend
<1>14. pc' = [pc EXCEPT ![w] = "allWoken"]
  BY <1>5, <1>7, <1>9, <1>10, <1>13 DEF Signal
<1> QED
  BY <1>1, <1>4, <1>6, <1>7, <1>8, <1>13, <1>14

LEMMA DescendTree ==
  ASSUME TreeInv, NEW t \in Threads, Descend(t)
  PROVE  TreeInv'
<1> PICK s \in Sizes :
         /\ s < N /\ t \in Pairs(s) /\ Size(t) = 2 * s /\ pc[t] = "down"
         /\ t + s \in Below(t) /\ pc[t + s] = "allWait"
         /\ Size(t + s) = s
         /\ i' = [i EXCEPT ![t] = 2 * s]
         /\ base' = [base EXCEPT ![t] = N - N \div s]
         /\ count' = [count EXCEPT ![Node(s, t)] = 0]
         /\ pc' = [pc EXCEPT ![t + s] = "allWoken"]
         /\ UNCHANGED <<site, entered, left>>
  BY DescendFacts
<1> DEFINE w == t + s
<1>1. /\ w \in Threads /\ t \in Threads /\ w # t /\ Inside(t) /\ Inside(w)
      /\ s \in Nat \ {0} /\ N \in Nat \ {0} /\ Node(s, t) \in Nodes
      /\ t % s = 0 /\ N \div s \in Nat
      /\ w \in Below(t) /\ pc[w] = "allWait" /\ Size(w) = s /\ w = t + s
      /\ t \in Nat
  BY Neighbour, NodeType, SizeType, ThreadType DEF Inside
<1>2. Place(t) /\ Won(t) /\ Place(w) /\ Won(w) /\ entered[w] = entered[t]
  BY <1>1, RoundTypes DEF Won
<1>3. /\ pc'[t] = "down" /\ i'[t] = 2 * s /\ base'[t] = N - N \div s
      /\ pc'[w] = "allWoken" /\ i'[w] = i[w] /\ base'[w] = base[w]
      /\ \A u \in Threads : /\ u # w => pc'[u] = pc[u]
                            /\ u # t => i'[u] = i[u] /\ base'[u] = base[u]
                            /\ Inside(u)' <=> Inside(u)
  BY <1>1 DEF TreeInv, TreeTypes, Inside
<1>4. pc' = [pc EXCEPT ![w] = "allWoken"]
  OBVIOUS
<1>5. Size(t)' = s /\ Size(w)' = s
  <2>1. (2 * s) \div 2 = s
    BY <1>1
  <2> QED
    BY <1>1, <1>3, <2>1 DEF Size
<1> HIDE DEF w
<1>6. TreeTypes'
  BY <1>1, <1>4 DEF TreeInv, TreeTypes, PCs
<1>7. Place(t)' /\ Won(t)'
  <2>1. Place(t)'
    BY <1>1, <1>3, <1>5 DEF Place
  <2>2. ASSUME NEW u \in t + 1 .. t + s - 1
        PROVE  u \in Below(t) /\ u # w
    <3>1. u \in t + 1 .. t + 2 * s - 1 /\ u # w
      BY <1>1
    <3> QED
      BY <3>1 DEF Below
  <2>3. \A u \in t + 1 .. t + s - 1 :
            pc'[u] = "allWait" /\ entered'[u] = entered'[t]
    BY <1>2, <1>3, <2>2, PlaceType DEF Won
  <2> QED
    BY <1>5, <2>1, <2>3 DEF Won, Below
<1>8. Place(w)' /\ Won(w)'
  <2>1. Place(w)'
    BY <1>1, <1>2, <1>3, <1>5 DEF Place
  <2>2. \A u \in Below(w) : u \in Threads /\ u # w
    BY <1>1, <1>2, PlaceType
  <2> QED
    BY <1>1, <1>2, <1>3, <2>1, <2>2, WonKept DEF Won
<1>9. ASSUME NEW u \in Threads, u # t, u # w, Inside(u)'
      PROVE  Place(u)' /\ Won(u)'
  <2>1. Place(u) /\ Won(u) /\ Inside(u)
    BY <1>3, <1>9, RoundTypes
  <2>2. w \notin Below(u)
    BY <1>1, <1>9, <2>1, OnlyWinner
  <2>3. \A v \in Below(u) : v \in Threads /\ v # w /\ pc[v] = "allWait"
    BY <2>1, <2>2, PlaceType DEF Won
  <2> QED
    BY <1>3, <1>9, <2>1, <2>3, PlaceKept, WonKept DEF Alike
<1>10. Counts'
  <2>1. \A r \in Sizes : Counted(t, r)' <=> r < s
    BY <1>1, <1>3, <1>5 DEF Counted, Inside
  <2>2. \A r \in Sizes : Counted(w, r)' <=> r < s
    BY <1>1, <1>3, <1>5 DEF Counted, Inside
  <2>3. ASSUME NEW r \in Sizes, r # s
        PROVE  /\ Counted(t, r) <=> r < s
               /\ Counted(w, r) <=> r < s
    <3>1. r \in Nat \ {0} /\ ~(s < r /\ r < 2 * s)
      BY <1>1, SizeType, NextSize
    <3>2. Counted(t, r) <=> r < 2 * s
      BY <1>1 DEF Counted
    <3>3. Counted(w, r) <=> r < s
      BY <1>1, <2>3 DEF Counted
    <3> QED
      BY <1>1, <2>3, <3>1, <3>2, <3>3
  <2>4. \A u \in Threads, r \in Sizes : r # s \/ u \notin {t, w} =>
            (Counted(u, r)' <=> Counted(u, r))
    BY <1>3, <2>1, <2>2, <2>3, CountedKept DEF Alike
  <2>5. count'[Node(s, t)] = 0
    BY <1>1 DEF TreeInv, TreeTypes
  <2>6. Ones(Counted(t, s)') + Ones(Counted(w, s)') = 0
    BY <1>1, <2>1, <2>2 DEF Ones
  <2>7. \A n \in Nodes : n # Node(s, t) => count'[n] = count[n]
    BY DEF TreeInv, TreeTypes
  <2> QED
    BY <1>1, <2>4, <2>5, <2>6, <2>7, CountsAt DEF TreeInv
<1>11. ASSUME NEW u \in Threads PROVE Visits(u)'
  BY <1>3, RoundTypes DEF Visits, Ones
<1>12. ASSUME NEW x \in Threads, NEW u \in Threads PROVE Rounds(x, u)'
  <2>1. /\ Rounds(x, u) /\ Rounds(t, u) /\ entered[x] \in Nat
        /\ entered[u] \in Nat /\ entered[t] \in Nat
    BY <1>1, RoundTypes
  <2>2. /\ \A v \in Threads : Arriving(v)' <=> Arriving(v)
        /\ WaitsFor(u, x)' => WaitsFor(u, x) /\ u # w /\ Size(u)' = Size(u)
        /\ x # w => (Released(x)' <=> Released(x))
        /\ UNCHANGED <<entered, left>>
    BY <1>1, <1>3 DEF Arriving, Released, WaitsFor, Size
  <2>3. CASE x # t /\ x # w
    BY <1>3, <2>1, <2>2, <2>3 DEF Rounds, Size
  <2>4. CASE x = w
    <3>1. /\ entered[w] <= entered[u]
          /\ Arriving(u) => entered[w] < entered[u]
      BY <1>1, <1>2, <2>1 DEF Rounds, Released
    <3>2. ~Arriving(w) /\ pc'[w] # "down"
      BY <1>1, <1>3 DEF Arriving
    <3> QED
      BY <2>1, <2>2, <2>4, <3>1, <3>2 DEF Rounds
  <2>5. CASE x = t
    <3>1. ASSUME WaitsFor(u, t)', Size(u) >= s PROVE Size(u) >= 2 * s
      <4>1. WaitsFor(u, t) /\ u # w
        BY <2>2, <2>5, <3>1
      <4>2. Place(u) /\ Size(u) \in Sizes /\ u = t + Size(u)
        BY <4>1, RoundTypes DEF WaitsFor, Inside, Place
      <4>3. Size(u) # s /\ Size(u) \in Nat
        BY <1>1, <4>1, <4>2, SizeType
      <4>4. s < Size(u)
        BY <1>1, <3>1, <4>3
      <4>5. \A r \in Sizes : s < r => 2 * s <= r
        BY NextSize
      <4> QED
        BY <1>1, <4>2, <4>3, <4>4, <4>5
    <3>2. ASSUME WaitsFor(u, t)', Size(u)' >= Size(t)'
          PROVE  entered[t] < entered[u]
      <4>1. WaitsFor(u, t) /\ Size(u) >= 2 * s
        BY <1>5, <2>2, <2>5, <3>1, <3>2
      <4> QED
        BY <2>1, <4>1 DEF Rounds
    <3>3. Released(t)' <=> Released(t)
      BY <1>1, <2>2, <2>5
    <3> QED
      BY <2>1, <2>2, <2>5, <3>2, <3>3 DEF Rounds
  <2> QED
    BY <2>3, <2>4, <2>5
<1> QED
  BY <1>6, <1>7, <1>8, <1>9, <1>10, <1>11, <1>12 DEF TreeInv

-----------------------------------------------------------------------------
(* The barrier *)

LEMMA InitTree ==
  ASSUME Init
  PROVE  TreeInv
<1>1. /\ \A t \in Threads : pc[t] \in {"main", "wait"} /\ ~Inside(t)
      /\ \A t \in Threads : entered[t] = 0 /\ left[t] = 0
  BY DEF Init, Inside
<1>2. TreeTypes
  BY DEF Init, TreeTypes, PCs, thread_barrier_init
<1>3. Counts
  <2> SUFFICES ASSUME NEW s \in Sizes, s < N, NEW t \in Pairs(s)
               PROVE  count[Node(s, t)] =
                          Ones(Counted(t, s)) + Ones(Counted(t + s, s))
    BY DEF Counts
  <2>1. t \in Threads /\ t + s \in Threads /\ Node(s, t) \in Nodes
    BY Neighbour, NodeType
  <2>2. count[Node(s, t)] = 0
    BY <2>1 DEF Init, thread_barrier_init
  <2>3. ~Counted(t, s) /\ ~Counted(t + s, s)
    BY <1>1, <2>1 DEF Counted
  <2> QED
    BY <2>2, <2>3 DEF Ones
<1>4. \A t \in Threads : Visits(t)
  BY <1>1 DEF Visits, Ones
<1>5. \A t, u \in Threads : Rounds(t, u)
  BY <1>1 DEF Rounds, Arriving, Released, WaitsFor
<1> QED
  BY <1>1, <1>2, <1>3, <1>4, <1>5 DEF TreeInv

\* A thread outside the barrier goes elsewhere outside.
LEMMA OutsideTree ==
  ASSUME TreeInv, NEW t \in Threads, ~Inside(t), NEW where \in PCs,
         where \in {"main", "wait", "run", "join", "exited"}, Goto(t, where),
         UNCHANGED <<site, i, base, count, entered, left>>
  PROVE  TreeInv'
<1>1. /\ ~Inside(t)' /\ pc' \in [Threads -> PCs] /\ pc'[t] = where
      /\ \A u \in Threads \ {t} : pc'[u] = pc[u]
  BY DEF TreeInv, TreeTypes, Goto, Inside
<1>2. TreeTypes'
  BY <1>1 DEF TreeInv, TreeTypes
<1>3. ASSUME NEW u \in Threads, Inside(u)'
      PROVE  Place(u)' /\ Won(u)'
  <2>1. Inside(u) /\ u # t
    BY <1>1, <1>3 DEF Inside
  <2>2. Place(u) /\ Won(u)
    BY <2>1, RoundTypes
  <2>3. \A v \in Below(u) : v \in Threads /\ pc[v] = "allWait" /\ v # t
    BY <2>2, PlaceType DEF Won, Inside
  <2> QED
    BY <1>1, <2>1, <2>2, <2>3, PlaceKept, WonKept DEF Alike
<1>4. Counts'
  <2>1. \A s \in Sizes : ~Counted(t, s)' /\ ~Counted(t, s)
    BY <1>1 DEF Counted
  <2>2. \A u \in Threads, s \in Sizes : Counted(u, s)' <=> Counted(u, s)
    BY <1>1, <2>1, CountedKept DEF Alike
  <2> QED
    BY <2>2, CountsKept DEF TreeInv
<1>5. ASSUME NEW u \in Threads PROVE Visits(u)'
  <2>1. Visits(u) /\ (Inside(u)' <=> Inside(u))
    BY <1>1, RoundTypes DEF Inside
  <2> QED
    BY <2>1 DEF Visits, Ones
<1>6. ASSUME NEW x \in Threads, NEW u \in Threads PROVE Rounds(x, u)'
  <2>1. Rounds(x, u)
    BY RoundTypes
  <2>2. \A v \in Threads : /\ Arriving(v)' <=> Arriving(v)
                           /\ Released(v)' <=> Released(v)
                           /\ pc'[v] = "down" <=> pc[v] = "down"
                           /\ pc'[v] = "allWait" <=> pc[v] = "allWait"
    BY <1>1 DEF Arriving, Released, Inside
  <2> QED
    BY <2>1, <2>2 DEF Rounds, WaitsFor, Size
<1> QED
  BY <1>2, <1>3, <1>4, <1>5, <1>6 DEF TreeInv

LEMMA NextTree ==
  ASSUME TreeInv, "allWait" \notin SpuriousAt, [Next]_vars
  PROVE  TreeInv'
<1>1. CASE UNCHANGED vars
  <2>1. /\ UNCHANGED <<i, base, count, entered, left, site, pc>>
        /\ pc \in [Threads -> PCs]
    BY <1>1 DEF vars, barrier, TreeInv, TreeTypes
  <2> QED
    BY <2>1, DozeTree DEF Alike
<1>2. CASE Primary
  <2>1. 0 \in Threads
    BY ThreadType
  <2>2. CASE thread_start
    BY <2>1, <2>2, EnterTree DEF thread_start, Inside
  <2>3. CASE thread_shutdown
    BY <2>1, <2>3, EnterTree DEF thread_shutdown, Inside
  <2>4. CASE Stopped
    BY <2>1, <2>4, LeaveTree DEF Stopped, PCs
  <2>5. CASE Join
    <3>1. /\ pc[0] = "join" /\ ~Inside(0) /\ Goto(0, "exited")
          /\ UNCHANGED <<site, i, base, count, entered, left>>
      BY <2>5 DEF Join, Inside, barrier
    <3> QED
      BY <2>1, <3>1, OutsideTree DEF PCs
  <2> QED
    BY <1>2, <2>2, <2>3, <2>4, <2>5 DEF Primary
<1>3. CASE \E t \in Threads : Step(t) \/ Spurious(t)
  <2> PICK t \in Threads : Step(t) \/ Spurious(t)
    BY <1>3
  <2>1. CASE ArriveFirst(t)
    BY <2>1, ArriveFirstTree
  <2>2. CASE WakePair(t)
    BY <2>2, WakePairTree
  <2>3. CASE ArriveSecond(t)
    BY <2>3, ArriveSecondTree
  <2>4. CASE WakeAll(t)
    BY <2>4, WakeAllTree
  <2>5. CASE Descend(t)
    BY <2>5, DescendTree
  <2>6. CASE WaitStart(t)
    BY <2>6, EnterTree DEF WaitStart, Inside
  <2>7. CASE Started(t)
    BY <2>7, LeaveTree DEF Started, PCs
  <2>8. CASE Run(t)
    BY <2>8, EnterTree DEF Run, Inside
  <2>9. CASE Ended(t)
    BY <2>9, LeaveTree DEF Ended, PCs
  <2>10. CASE Spurious(t)
    BY <2>10, SpuriousTree
  <2> QED
    BY <2>1, <2>2, <2>3, <2>4, <2>5, <2>6, <2>7, <2>8, <2>9, <2>10 DEF Step
<1>4. CASE Finished
  BY <1>1, <1>4 DEF Finished
<1> QED
  BY <1>1, <1>2, <1>3, <1>4 DEF Next

-----------------------------------------------------------------------------
(* The functions *)

LEMMA HalfOfEven ==
  ASSUME NEW k \in Nat, ~Odd(k)
  PROVE  Odd(k + 1) /\ (k + 1) \div 2 = k \div 2
BY DEF Odd

LEMMA HalfOfTwice ==
  ASSUME NEW k \in Nat
  PROVE  /\ ~Odd(2 * k) /\ (2 * k) \div 2 = k
         /\ Odd(2 * k + 1) /\ (2 * k + 1) \div 2 = k
         /\ k >= 1 => Odd(2 * k - 1) /\ (2 * k - 1) \div 2 = k - 1
BY DEF Odd

\* A step within the barrier is none for the functions.
LEMMA QuietPool ==
  ASSUME TreeInv, PoolInv, UNCHANGED <<site, pool, entered>>,
         \A u \in Threads : pc'[u] = pc[u] \/ (Inside(u) /\ Inside(u)')
  PROVE  PoolInv'
<1>1. 0 \in Threads
  BY ThreadType
<1>2. UNCHANGED <<site, doShutdown, func, ran, freed, entered>>
  BY DEF pool
<1>3. PoolTypes'
  BY <1>2 DEF PoolInv, PoolTypes
<1>4. ASSUME NEW u \in Threads
      PROVE  /\ Inside(u)' <=> Inside(u)
             /\ \A v \in {"main", "wait", "run", "join", "exited"} :
                    pc'[u] = v <=> pc[u] = v
  BY DEF Inside
<1>5. Main'
  BY <1>1, <1>2, <1>4 DEF PoolInv, Main
<1>6. ASSUME NEW u \in Threads PROVE Protocol(u)'
  BY <1>2, <1>4 DEF PoolInv, Protocol
<1> QED
  BY <1>3, <1>5, <1>6 DEF PoolInv

\* How far anybody is when thread 0 has been let out or has not begun.
LEMMA Together ==
  ASSUME TreeInv, NEW t \in Threads
  PROVE  /\ 0 \in Threads /\ entered[t] \in Nat /\ entered[0] \in Nat
         /\ entered[0] <= entered[t] + 1 /\ entered[t] <= entered[0] + 1
         /\ ~Inside(0) => entered[0] <= entered[t]
         /\ Released(t) => entered[t] <= entered[0]
<1>1. 0 \in Threads
  BY ThreadType
<1>2. /\ Rounds(0, t) /\ Rounds(t, 0) /\ Visits(0) /\ Visits(t)
      /\ entered[t] \in Nat /\ entered[0] \in Nat
      /\ left[t] \in Nat /\ left[0] \in Nat
  BY <1>1, RoundTypes
<1> QED
  BY <1>1, <1>2 DEF Rounds, Visits, Ones

LEMMA EnterFacts ==
  ASSUME TreeInv, NEW t \in Threads, NEW where \in {"start", "end", "stop"},
         Enter(t, where)
  PROVE  /\ Inside(t)' /\ pc'[t] \in {"up", "down"}
         /\ entered'[t] = entered[t] + 1 /\ site'[t] = where
         /\ \A u \in Threads \ {t} : /\ pc'[u] = pc[u] /\ site'[u] = site[u]
                                     /\ entered'[u] = entered[u]
                                     /\ Inside(u)' <=> Inside(u)
BY DEF Enter, Goto, TreeInv, TreeTypes, Inside

LEMMA LeaveFacts ==
  ASSUME TreeInv, NEW t \in Threads, NEW where \in PCs,
         where \in {"main", "wait", "run", "join", "exited"}, Leave(t, where)
  PROVE  /\ pc[t] = "down" /\ Inside(t) /\ ~Inside(t)' /\ pc'[t] = where
         /\ UNCHANGED <<site, entered>> /\ Released(t)
         /\ \A u \in Threads \ {t} : /\ pc'[u] = pc[u]
                                     /\ Inside(u)' <=> Inside(u)
BY DEF Leave, Goto, TreeInv, TreeTypes, Inside, Released

\* A step of t, seen from the others.
LEMMA OthersKept ==
  ASSUME PoolInv, NEW t \in Threads, NEW u \in Threads, u # t,
         pc'[u] = pc[u], site'[u] = site[u], entered'[u] = entered[u],
         ran'[u] = ran[u], func' \in Nat, func' >= func,
         pc[u] # "run" \/ func' = func, doShutdown => doShutdown',
         entered[u] \in Nat
  PROVE  Protocol(u)'
<1>1. Protocol(u) /\ func \in Nat
  BY PoolAssumption DEF PoolInv, PoolTypes
<1>2. Inside(u)' <=> Inside(u)
  BY DEF Inside
<1> QED
  BY <1>1, <1>2 DEF Protocol

LEMMA StartPool ==
  ASSUME TreeInv, PoolInv, thread_start
  PROVE  PoolInv'
<1>1. /\ 0 \in Threads /\ pc[0] = "main" /\ func < MaxStarts
      /\ func' = func + 1 /\ Enter(0, "start")
      /\ UNCHANGED <<doShutdown, ran, freed>> /\ ~Inside(0)
  BY ThreadType DEF thread_start, Inside
<1>2. /\ func \in Nat /\ func' \in 0 .. MaxStarts /\ func' >= func
      /\ entered[0] = 2 * func /\ ~doShutdown /\ ~freed
  BY <1>1, PoolAssumption DEF PoolInv, PoolTypes, Main
<1>3. /\ Inside(0)' /\ pc'[0] \in {"up", "down"}
      /\ entered'[0] = entered[0] + 1 /\ site'[0] = "start"
      /\ \A u \in Threads \ {0} : /\ pc'[u] = pc[u] /\ site'[u] = site[u]
                                  /\ entered'[u] = entered[u]
  BY <1>1, EnterFacts
<1>4. PoolTypes'
  BY <1>1, <1>2 DEF PoolInv, PoolTypes
<1>5. Main'
  BY <1>1, <1>2, <1>3 DEF Main
<1>6. Protocol(0)'
  <2>1. Odd(entered'[0]) /\ entered'[0] \div 2 = entered[0] \div 2
    BY <1>2, <1>3, HalfOfTwice
  <2>2. entered'[0] <= 2 * func' + 1
    BY <1>1, <1>2, <1>3
  <2> QED
    BY <1>1, <1>3, <2>1, <2>2 DEF PoolInv, Protocol
<1>7. ASSUME NEW u \in Threads, u # 0 PROVE Protocol(u)'
  <2>1. pc[u] # "run"
    <3>1. pc[u] = "run" => entered[u] = 2 * func - 1
      BY DEF PoolInv, Protocol
    <3>2. entered[0] <= entered[u] /\ entered[u] \in Nat
      BY <1>1, Together
    <3> QED
      BY <1>2, <3>1, <3>2
  <2> QED
    BY <1>1, <1>2, <1>3, <1>7, <2>1, OthersKept, Together
<1> QED
  BY <1>4, <1>5, <1>6, <1>7 DEF PoolInv

LEMMA ShutdownPool ==
  ASSUME TreeInv, PoolInv, thread_shutdown
  PROVE  PoolInv'
<1>1. /\ 0 \in Threads /\ pc[0] = "main" /\ func = MaxStarts /\ ~doShutdown
      /\ doShutdown' /\ Enter(0, "stop") /\ UNCHANGED <<func, ran, freed>>
      /\ ~Inside(0)
  BY ThreadType DEF thread_shutdown, Inside
<1>2. func \in Nat /\ entered[0] = 2 * func /\ ~freed
  BY <1>1, PoolAssumption DEF PoolInv, PoolTypes, Main
<1>3. /\ Inside(0)' /\ pc'[0] \in {"up", "down"}
      /\ entered'[0] = entered[0] + 1 /\ site'[0] = "stop"
      /\ \A u \in Threads \ {0} : /\ pc'[u] = pc[u] /\ site'[u] = site[u]
                                  /\ entered'[u] = entered[u]
  BY <1>1, EnterFacts
<1>4. PoolTypes'
  BY <1>1 DEF PoolInv, PoolTypes, thread_shutdown
<1>5. Main'
  BY <1>1, <1>2, <1>3 DEF Main
<1>6. Protocol(0)'
  <2>1. Odd(entered'[0]) /\ entered'[0] \div 2 = entered[0] \div 2
    BY <1>2, <1>3, HalfOfTwice
  <2> QED
    BY <1>1, <1>2, <1>3, <2>1 DEF PoolInv, Protocol
<1>7. ASSUME NEW u \in Threads, u # 0 PROVE Protocol(u)'
  BY <1>1, <1>2, <1>3, <1>7, OthersKept, Together
<1> QED
  BY <1>4, <1>5, <1>6, <1>7 DEF PoolInv

LEMMA WaitStartPool ==
  ASSUME TreeInv, PoolInv, NEW t \in Threads, WaitStart(t)
  PROVE  PoolInv'
<1>1. /\ 0 \in Threads /\ pc[t] = "wait" /\ Enter(t, "start")
      /\ UNCHANGED <<doShutdown, func, ran, freed>>
  BY ThreadType DEF WaitStart, pool
<1>2. /\ func \in Nat /\ entered[t] \in Nat /\ Protocol(t) /\ t # 0
      /\ ~Odd(entered[t]) /\ ~freed
  BY <1>1, PoolAssumption, Together
  DEF PoolInv, PoolTypes, Protocol, Main
<1>3. /\ Inside(t)' /\ pc'[t] \in {"up", "down"}
      /\ entered'[t] = entered[t] + 1 /\ site'[t] = "start"
      /\ \A u \in Threads \ {t} : /\ pc'[u] = pc[u] /\ site'[u] = site[u]
                                  /\ entered'[u] = entered[u]
                                  /\ Inside(u)' <=> Inside(u)
  BY <1>1, EnterFacts
<1>4. PoolTypes'
  BY <1>1 DEF PoolInv, PoolTypes
<1>5. Main'
  BY <1>1, <1>2, <1>3 DEF PoolInv, Main
<1>6. Protocol(t)'
  <2>1. Odd(entered'[t]) /\ entered'[t] \div 2 = entered[t] \div 2
    BY <1>2, <1>3, HalfOfEven
  <2>2. entered'[t] <= 2 * func + 1
    BY <1>2, <1>3 DEF Protocol, Odd
  <2> QED
    BY <1>1, <1>2, <1>3, <2>1, <2>2 DEF Protocol
<1>7. ASSUME NEW u \in Threads, u # t PROVE Protocol(u)'
  BY <1>1, <1>2, <1>3, <1>7, OthersKept, Together
<1> QED
  BY <1>4, <1>5, <1>6, <1>7 DEF PoolInv

LEMMA RunPool ==
  ASSUME TreeInv, PoolInv, NEW t \in Threads, Run(t)
  PROVE  PoolInv'
<1>1. /\ 0 \in Threads /\ pc[t] = "run" /\ Enter(t, "end")
      /\ ran' = [ran EXCEPT ![t] = @ \cup {func}]
      /\ UNCHANGED <<doShutdown, func, freed>> /\ ~Inside(t)
  BY ThreadType DEF Run, Inside
<1>2. /\ func \in Nat /\ entered[t] \in Nat /\ entered[t] = 2 * func - 1
      /\ func >= 1 /\ ran[t] = 1 .. func - 1 /\ ~freed
      /\ t = 0 => ~doShutdown
  <2>1. /\ func \in Nat /\ entered[t] \in Nat /\ entered[t] = 2 * func - 1
        /\ ran[t] = 1 .. entered[t] \div 2
    BY <1>1, PoolAssumption, Together DEF PoolInv, PoolTypes, Protocol
  <2>2. func >= 1
    BY <2>1
  <2>3. ~freed /\ (t = 0 => ~doShutdown)
    BY <1>1 DEF PoolInv, Main
  <2> QED
    BY <2>1, <2>2, <2>3, HalfOfTwice
<1>3. /\ Inside(t)' /\ pc'[t] \in {"up", "down"}
      /\ entered'[t] = entered[t] + 1 /\ site'[t] = "end"
      /\ \A u \in Threads \ {t} : /\ pc'[u] = pc[u] /\ site'[u] = site[u]
                                  /\ entered'[u] = entered[u]
                                  /\ Inside(u)' <=> Inside(u)
  BY <1>1, EnterFacts
<1>4. /\ PoolTypes' /\ ran'[t] = ran[t] \cup {func}
      /\ \A u \in Threads \ {t} : ran'[u] = ran[u]
  BY <1>1, <1>2 DEF PoolInv, PoolTypes
<1>5. entered'[t] = 2 * func
  BY <1>2, <1>3
<1>6. Main'
  <2>1. CASE t = 0
    BY <1>1, <1>2, <1>3, <1>5, <2>1 DEF PoolInv, Main
  <2>2. CASE t # 0
    BY <1>1, <1>2, <1>3, <2>2 DEF PoolInv, Main
  <2> QED
    BY <2>1, <2>2
<1>7. Protocol(t)'
  <2>1. ~Odd(entered'[t]) /\ entered'[t] \div 2 = func
    BY <1>2, <1>5, HalfOfTwice
  <2>2. ran'[t] = 1 .. func
    BY <1>2, <1>4
  <2>3. entered'[t] <= 2 * func + 1
    BY <1>2, <1>5
  <2> QED
    BY <1>1, <1>3, <2>1, <2>2, <2>3 DEF Protocol
<1>8. ASSUME NEW u \in Threads, u # t PROVE Protocol(u)'
  BY <1>1, <1>2, <1>3, <1>4, <1>8, OthersKept, Together
<1> QED
  BY <1>4, <1>6, <1>7, <1>8 DEF PoolInv

LEMMA StartedPool ==
  ASSUME TreeInv, PoolInv, NEW t \in Threads, Started(t)
  PROVE  PoolInv'
<1> DEFINE where == IF doShutdown THEN "exited" ELSE "run"
<1>1. /\ 0 \in Threads /\ site[t] = "start" /\ Leave(t, where)
      /\ UNCHANGED <<doShutdown, func, ran, freed>>
  BY ThreadType DEF Started, pool
<1>2. /\ pc[t] = "down" /\ Inside(t) /\ ~Inside(t)' /\ pc'[t] = where
      /\ UNCHANGED <<site, entered>> /\ Released(t)
      /\ \A u \in Threads \ {t} : /\ pc'[u] = pc[u]
                                  /\ Inside(u)' <=> Inside(u)
  BY <1>1, LeaveFacts DEF PCs
<1>3. /\ func \in Nat /\ entered[t] \in Nat /\ entered[0] \in Nat
      /\ Protocol(t) /\ Odd(entered[t]) /\ ~freed /\ Main
      /\ t = 0 => ~doShutdown
  BY <1>1, <1>2, PoolAssumption, Together, SMTT(30)
  DEF PoolInv, PoolTypes, Protocol, Main
<1>4. ~doShutdown => entered[t] = 2 * func - 1
  <2> SUFFICES ASSUME ~doShutdown PROVE entered[t] = 2 * func - 1
    OBVIOUS
  <2>1. /\ entered[0] <= entered[t] + 1 /\ entered[t] <= entered[0]
        /\ ~Inside(0) => entered[0] <= entered[t]
    BY <1>2, Together
  <2>2. CASE pc[0] = "main"
    <3>1. entered[0] = 2 * func /\ ~Inside(0)
      BY <1>3, <2>2 DEF Main, Inside
    <3>2. entered[t] = 2 * func
      BY <1>3, <2>1, <3>1
    <3> QED
      BY <1>3, <3>2, HalfOfTwice
  <2>3. CASE pc[0] # "main"
    <3>1. func >= 1 /\ entered[0] \in {2 * func - 1, 2 * func}
      BY <1>3, <2>3 DEF Main
    <3>2. entered[t] \in {2 * func - 2, 2 * func - 1, 2 * func}
      BY <1>3, <2>1, <3>1
    <3>3. ~Odd(2 * (func - 1)) /\ ~Odd(2 * func)
      BY <1>3, <3>1, HalfOfTwice
    <3> QED
      BY <1>3, <3>2, <3>3
  <2> QED
    BY <2>2, <2>3
<1>5. PoolTypes'
  BY <1>1 DEF PoolInv, PoolTypes
<1>6. Main'
  <2>1. CASE t = 0
    BY <1>1, <1>2, <1>3, <2>1 DEF Main
  <2>2. CASE t # 0
    BY <1>1, <1>2, <1>3, <2>2 DEF Main
  <2> QED
    BY <2>1, <2>2
<1>7. Protocol(t)'
  BY <1>1, <1>2, <1>3, <1>4 DEF Protocol
<1>8. ASSUME NEW u \in Threads, u # t PROVE Protocol(u)'
  BY <1>1, <1>2, <1>3, <1>8, OthersKept, Together
<1> QED
  BY <1>5, <1>6, <1>7, <1>8 DEF PoolInv

LEMMA EndedPool ==
  ASSUME TreeInv, PoolInv, NEW t \in Threads, Ended(t)
  PROVE  PoolInv'
<1> DEFINE where == IF t = 0 THEN "main" ELSE "wait"
<1>1. /\ 0 \in Threads /\ site[t] = "end" /\ Leave(t, where)
      /\ UNCHANGED <<doShutdown, func, ran, freed>>
  BY ThreadType DEF Ended, pool
<1>2. /\ pc[t] = "down" /\ Inside(t) /\ ~Inside(t)' /\ pc'[t] = where
      /\ UNCHANGED <<site, entered>>
      /\ \A u \in Threads \ {t} : /\ pc'[u] = pc[u]
                                  /\ Inside(u)' <=> Inside(u)
  BY <1>1, LeaveFacts DEF PCs
<1>3. /\ func \in Nat /\ entered[t] \in Nat
      /\ Protocol(t) /\ ~Odd(entered[t]) /\ ~freed /\ Main
  BY <1>1, <1>2, PoolAssumption, Together
  DEF PoolInv, PoolTypes, Protocol, Main
<1>4. PoolTypes'
  BY <1>1 DEF PoolInv, PoolTypes
<1>5. Main'
  <2>1. CASE t = 0
    <3>1. ~doShutdown /\ func >= 1 /\ entered[0] \in {2 * func - 1, 2 * func}
      BY <1>1, <1>2, <1>3, <2>1 DEF Main
    <3>2. entered[0] = 2 * func
      BY <1>3, <2>1, <3>1, HalfOfTwice
    <3> QED
      BY <1>1, <1>2, <1>3, <2>1, <3>1, <3>2 DEF Main
  <2>2. CASE t # 0
    BY <1>1, <1>2, <1>3, <2>2 DEF Main
  <2> QED
    BY <2>1, <2>2
<1>6. Protocol(t)'
  BY <1>1, <1>2, <1>3 DEF Protocol
<1>7. ASSUME NEW u \in Threads, u # t PROVE Protocol(u)'
  BY <1>1, <1>2, <1>3, <1>7, OthersKept, Together
<1> QED
  BY <1>4, <1>5, <1>6, <1>7 DEF PoolInv

LEMMA StoppedPool ==
  ASSUME TreeInv, PoolInv, Stopped
  PROVE  PoolInv'
<1>1. /\ 0 \in Threads /\ site[0] = "stop" /\ Leave(0, "join")
      /\ UNCHANGED <<doShutdown, func, ran, freed>>
  BY ThreadType DEF Stopped, pool
<1>2. /\ pc[0] = "down" /\ Inside(0) /\ ~Inside(0)' /\ pc'[0] = "join"
      /\ UNCHANGED <<site, entered>>
      /\ \A u \in Threads \ {0} : /\ pc'[u] = pc[u]
                                  /\ Inside(u)' <=> Inside(u)
  BY <1>1, LeaveFacts DEF PCs
<1>3. func \in Nat /\ Protocol(0) /\ ~freed /\ Main
  BY <1>1, <1>2, PoolAssumption DEF PoolInv, PoolTypes, Main
<1>4. PoolTypes'
  BY <1>1 DEF PoolInv, PoolTypes
<1>5. Main'
  BY <1>1, <1>2, <1>3 DEF Main
<1>6. Protocol(0)'
  BY <1>1, <1>2, <1>3 DEF Protocol
<1>7. ASSUME NEW u \in Threads, u # 0 PROVE Protocol(u)'
  BY <1>1, <1>2, <1>3, <1>7, OthersKept, Together
<1> QED
  BY <1>4, <1>5, <1>6, <1>7 DEF PoolInv

LEMMA JoinPool ==
  ASSUME TreeInv, PoolInv, Join
  PROVE  PoolInv'
<1>1. /\ 0 \in Threads /\ pc[0] = "join" /\ pc'[0] = "exited" /\ freed'
      /\ \A u \in Threads \ {0} : pc'[u] = pc[u] /\ pc[u] = "exited"
      /\ UNCHANGED <<site, doShutdown, func, ran, entered>>
  BY ThreadType DEF Join, Goto, TreeInv, TreeTypes
<1>2. func \in Nat /\ Protocol(0) /\ Main
  BY <1>1, PoolAssumption DEF PoolInv, PoolTypes
<1>3. PoolTypes'
  BY <1>1 DEF PoolInv, PoolTypes, Join
<1>4. Main'
  BY <1>1, <1>2 DEF Main
<1>5. Protocol(0)'
  BY <1>1, <1>2 DEF Protocol, Inside
<1>6. ASSUME NEW u \in Threads, u # 0 PROVE Protocol(u)'
  BY <1>1, <1>2, <1>6, OthersKept, Together
<1> QED
  BY <1>3, <1>4, <1>5, <1>6 DEF PoolInv

LEMMA InitPool ==
  ASSUME Init
  PROVE  PoolInv
<1>1. 0 \in Threads /\ MaxStarts \in Nat
  BY ThreadType, PoolAssumption
<1>2. \A t \in Threads : ~Inside(t) /\ entered[t] = 0
  BY DEF Init, Inside
<1>3. PoolTypes
  <2>1. 0 \in 0 .. MaxStarts
    BY <1>1
  <2>2. [t \in Threads |-> {}] \in [Threads -> SUBSET Nat]
    OBVIOUS
  <2> QED
    BY <2>1, <2>2 DEF Init, PoolTypes
<1>4. Main
  BY <1>1, <1>2 DEF Init, Main
<1>5. ASSUME NEW t \in Threads PROVE Protocol(t)
  <2>1. ~Odd(0) /\ 0 \div 2 = 0
    BY DEF Odd
  <2>2. ran[t] = {} /\ 1 .. 0 = {}
    BY DEF Init
  <2>3. 0 <= 2 * func + 1
    BY DEF Init
  <2>4. /\ pc[t] = IF t = 0 THEN "main" ELSE "wait"
        /\ site[t] = "start"
    BY DEF Init
  <2> QED
    BY <1>2, <2>1, <2>2, <2>3, <2>4 DEF Protocol
<1> QED
  BY <1>3, <1>4, <1>5 DEF PoolInv

LEMMA NextPool ==
  ASSUME TreeInv, PoolInv, [Next]_vars
  PROVE  PoolInv'
<1>1. CASE UNCHANGED vars
  BY <1>1, QuietPool DEF vars
<1>2. CASE Primary
  BY <1>2, StartPool, ShutdownPool, StoppedPool, JoinPool DEF Primary
<1>3. CASE \E t \in Threads : Step(t) \/ Spurious(t)
  <2> PICK t \in Threads : Step(t) \/ Spurious(t)
    BY <1>3
  <2> DEFINE Quiet ==
        /\ UNCHANGED <<site, pool, entered>>
        /\ \A u \in Threads : pc'[u] = pc[u] \/ (Inside(u) /\ Inside(u)')
  <2>1. pc \in [Threads -> PCs]
    BY DEF TreeInv, TreeTypes
  <2>2. CASE ArriveFirst(t)
    <3>1. Quiet
      BY <2>1, <2>2 DEF ArriveFirst, Ascend, Goto, Inside
    <3> QED
      BY <3>1, QuietPool
  <2>3. CASE WakePair(t)
    <3>1. Quiet
      BY <2>1, <2>3 DEF WakePair, Ascend, Goto, Inside
    <3> QED
      BY <3>1, QuietPool
  <2>4. CASE ArriveSecond(t)
    <3>1. Quiet
      BY <2>1, <2>4 DEF ArriveSecond, Signal, Inside
    <3> QED
      BY <3>1, QuietPool
  <2>5. CASE WakeAll(t)
    <3>1. Quiet
      BY <2>1, <2>5 DEF WakeAll, Goto, Inside
    <3> QED
      BY <3>1, QuietPool
  <2>6. CASE Descend(t)
    <3>1. Quiet
      BY <2>1, <2>6 DEF Descend, Signal, Inside
    <3> QED
      BY <3>1, QuietPool
  <2>7. CASE Spurious(t)
    <3>1. Quiet
      BY <2>1, <2>7, PoolAssumption DEF Spurious, Goto, Inside
    <3> QED
      BY <3>1, QuietPool
  <2> QED
    BY <2>2, <2>3, <2>4, <2>5, <2>6, <2>7,
       WaitStartPool, StartedPool, RunPool, EndedPool DEF Step
<1>4. CASE Finished
  BY <1>1, <1>4 DEF Finished
<1> QED
  BY <1>1, <1>2, <1>3, <1>4 DEF Next

-----------------------------------------------------------------------------
(* Theorems.  The wait for the whole tree must not return by itself: it    *)
(* tests nothing when it does.                                             *)

\* Those below a thread in the tree wait for it in its round, and each node
\* counts those who have come to it and are not let go yet.
THEOREM TreeKept ==
  ASSUME "allWait" \notin SpuriousAt
  PROVE  Spec => [](TreeInv /\ PoolInv)
<1>1. Init => TreeInv /\ PoolInv
  BY InitTree, InitPool
<1>2. TreeInv /\ PoolInv /\ [Next]_vars => (TreeInv /\ PoolInv)'
  BY NextTree, NextPool
<1> QED
  BY <1>1, <1>2, PTL DEF Spec

\* thread_barrier stays within the array of nodes, and no node counts more
\* than the two that meet there.
THEOREM TypeCorrect ==
  ASSUME "allWait" \notin SpuriousAt
  PROVE  Spec => []TypeOK
<1>1. ASSUME TreeInv, PoolInv PROVE TypeOK
  <2>1. ASSUME NEW t \in Threads, pc[t] \in {"up", "pairWait", "allWait"}
        PROVE  index(t) \in Nodes
    <3>1. Place(t)
      BY <1>1, <2>1, RoundTypes DEF Inside
    <3>2. Size(t) \in Sizes /\ Size(t) < N /\ index(t) = Node(Size(t), t)
      BY <2>1, <3>1, PlaceType DEF Place
    <3> QED
      BY <3>2, NodeType
  <2>2. ASSUME NEW t \in Threads PROVE ran[t] \subseteq 1 .. MaxStarts
    <3>1. /\ func \in Nat /\ MaxStarts \in Nat /\ func <= MaxStarts
          /\ entered[t] \in Nat /\ entered[t] <= 2 * func + 1
          /\ ran[t] = 1 .. entered[t] \div 2
      BY <1>1, PoolAssumption, Together
      DEF PoolInv, PoolTypes, Protocol
    <3>2. entered[t] \div 2 <= func /\ entered[t] \div 2 \in Nat
      BY <3>1
    <3> QED
      BY <3>1, <3>2
  <2>3. ran \in [Threads -> SUBSET (1 .. MaxStarts)]
    BY <1>1, <2>2 DEF PoolInv, PoolTypes
  <2> QED
    BY <1>1, <2>1, <2>3
    DEF TreeInv, TreeTypes, PCs, PoolInv, PoolTypes, TypeOK
<1> QED
  BY <1>1, TreeKept, PTL

\* When thread_start returns, everybody has run the function.
THEOREM EverybodyHasRun ==
  ASSUME "allWait" \notin SpuriousAt
  PROVE  Spec => []EverybodyRan
<1>1. ASSUME TreeInv, PoolInv PROVE EverybodyRan
  <2> USE <1>1
  <2>1. func \in Nat /\ Main
    BY PoolAssumption DEF PoolInv, PoolTypes
  <2>2. ASSUME NEW t \in Threads, pc[0] = "main" PROVE ran[t] = 1 .. func
    <3>1. /\ entered[0] = 2 * func /\ entered[0] <= entered[t]
          /\ entered[t] \in Nat /\ entered[t] <= 2 * func + 1
      BY <2>1, <2>2, Together DEF Main, Inside, PoolInv, Protocol
    <3>2. entered[t] \div 2 = func
      <4>1. entered[t] \in {2 * func, 2 * func + 1}
        BY <2>1, <3>1
      <4> QED
        BY <2>1, <4>1, HalfOfTwice
    <3> QED
      BY <3>2 DEF PoolInv, Protocol
  <2>3. ASSUME NEW t \in Threads, pc[t] = "run"
        PROVE  ran[t] = 1 .. func - 1
    <3>1. entered[t] = 2 * func - 1 /\ entered[t] \in Nat
      BY <2>3, Together DEF PoolInv, Protocol
    <3>2. func >= 1
      BY <2>1, <3>1
    <3>3. entered[t] \div 2 = func - 1
      BY <2>1, <3>1, <3>2, HalfOfTwice
    <3> QED
      BY <3>3 DEF PoolInv, Protocol
  <2> QED
    BY <2>2, <2>3 DEF EverybodyRan
<1> QED
  BY <1>1, TreeKept, PTL

\* THREAD_BARRIER is a barrier: nobody leaves it for the k-th time before
\* everybody has entered it for the k-th time.
THEOREM TreeIsBarrier ==
  ASSUME "allWait" \notin SpuriousAt
  PROVE  Spec => IsBarrier
<1>1. Init => R!Init
  BY DEF Init, R!Init
<1>2. ASSUME NEW t \in Threads, NEW where \in {"start", "end", "stop"},
             TreeInv, ~Inside(t), Enter(t, where)
      PROVE  R!Enter(t)
  <2>1. entered[t] = left[t]
    BY <1>2, RoundTypes DEF Visits, Ones
  <2> QED
    BY <1>2, <2>1 DEF Enter, R!Enter
<1>3. ASSUME NEW t \in Threads, NEW where, TreeInv, Leave(t, where)
      PROVE  R!Leave(t)
  <2>1. Released(t) /\ Inside(t)
    BY <1>3 DEF Leave, Released, Inside
  <2>2. left[t] < entered[t]
    BY <1>3, <2>1, RoundTypes DEF Visits, Ones
  <2>3. \A u \in Threads : entered[u] >= entered[t]
    BY <1>3, <2>1, RoundTypes DEF Rounds
  <2> QED
    BY <1>3, <2>2, <2>3 DEF Leave, R!Leave
<1>4. TreeInv /\ [Next]_vars => [R!Next]_(R!vars)
  <2> SUFFICES ASSUME TreeInv, [Next]_vars
               PROVE  R!Next \/ UNCHANGED <<entered, left>>
    BY DEF R!vars
  <2>1. 0 \in Threads
    BY ThreadType
  <2>2. CASE UNCHANGED vars \/ Finished
    BY <2>2 DEF vars, Finished
  <2>3. CASE Primary
    <3>1. CASE thread_start
      BY <1>2, <2>1, <3>1 DEF thread_start, Inside, R!Next
    <3>2. CASE thread_shutdown
      BY <1>2, <2>1, <3>2 DEF thread_shutdown, Inside, R!Next
    <3>3. CASE Stopped
      BY <1>3, <2>1, <3>3 DEF Stopped, R!Next
    <3>4. CASE Join
      BY <3>4 DEF Join
    <3> QED
      BY <2>3, <3>1, <3>2, <3>3, <3>4 DEF Primary
  <2>4. CASE \E t \in Threads : Step(t) \/ Spurious(t)
    <3> PICK t \in Threads : Step(t) \/ Spurious(t)
      BY <2>4
    <3>1. CASE WaitStart(t)
      BY <1>2, <3>1 DEF WaitStart, Inside, R!Next
    <3>2. CASE Run(t)
      BY <1>2, <3>2 DEF Run, Inside, R!Next
    <3>3. CASE Started(t)
      BY <1>3, <3>3 DEF Started, R!Next
    <3>4. CASE Ended(t)
      BY <1>3, <3>4 DEF Ended, R!Next
    <3>5. CASE \/ ArriveFirst(t) \/ WakePair(t) \/ ArriveSecond(t)
               \/ WakeAll(t) \/ Descend(t) \/ Spurious(t)
      BY <3>5
      DEF ArriveFirst, WakePair, ArriveSecond, WakeAll, Descend, Spurious
    <3> QED
      BY <3>1, <3>2, <3>3, <3>4, <3>5 DEF Step
  <2> QED
    BY <2>2, <2>3, <2>4 DEF Next
<1> QED
  BY <1>1, <1>4, TreeKept, PTL DEF Spec, IsBarrier, R!Spec
=============================================================================
