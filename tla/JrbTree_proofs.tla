--------------------------- MODULE JrbTree_proofs ---------------------------
(***************************************************************************)
(* The operators of the tree: loops end, a rotation keeps the leaves in    *)
(* order, lookups find what is there, and insertion and deletion keep a    *)
(* red-black tree, for any memory and any keys.                            *)
(***************************************************************************)
EXTENDS JrbTree, FiniteSetTheorems, NaturalsInduction, WellFoundedInduction, TLAPS

\* A set of natural numbers has a least one.
LEMMA LeastNat ==
    ASSUME NEW W \in SUBSET Nat, W # {}
    PROVE  \E m \in W : \A l \in W : m <= l
<1>1. PICK m \in W : \A l \in W : ~(<<l, m>> \in OpToRel(<, Nat))
  BY NatLessThanWellFounded, WFMin
<1>2. \A l \in W : l \in Nat /\ m \in Nat /\ ~(l < m)
  BY <1>1 DEF OpToRel
<1>3. \A l \in W : m <= l
  BY <1>2
<1> QED
  BY <1>3

-----------------------------------------------------------------------------
(* Loops *)

\* The first c turns of a loop that takes n to f[n].
Along(f, n, c, at) == at = [k \in 0 .. c |-> IF k = 0 THEN n ELSE f[at[k - 1]]]

\* Each turn applies f to where the last one ended.
LEMMA AlongStep ==
    ASSUME NEW f, NEW n, NEW c \in Nat, NEW at, Along(f, n, c, at)
    PROVE  at[0] = n /\ \A k \in 1 .. c : at[k] = f[at[k - 1]]
<1>1. \A k \in 0 .. c : at[k] = IF k = 0 THEN n ELSE f[at[k - 1]]
  BY DEF Along
<1>2. 0 \in 0 .. c /\ \A k \in 1 .. c : k \in 0 .. c /\ k # 0
  OBVIOUS
<1> QED
  BY <1>1, <1>2

\* There is a walk of any number of turns.
LEMMA AlongExists ==
    ASSUME NEW f, NEW n, NEW c \in Nat
    PROVE  \E at : Along(f, n, c, at)
<1> DEFINE endless == {m \in Nat : ~\E at : Along(f, n, m, at)}
<1> SUFFICES ASSUME endless # {} PROVE FALSE
  OBVIOUS
<1>1. PICK m \in endless : \A l \in endless : m <= l
  <2>1. endless \in SUBSET Nat
    OBVIOUS
  <2> HIDE DEF endless
  <2> QED
    BY <2>1, LeastNat
<1>2. m # 0
  <2>1. Along(f, n, 0, [k \in 0 .. 0 |-> n])
    BY DEF Along
  <2> QED
    BY <1>1, <2>1
<1>3. m \in Nat /\ m - 1 \in Nat /\ m - 1 \notin endless
  BY <1>1, <1>2
<1>4. PICK at : Along(f, n, m - 1, at)
  BY <1>3
<1>5. at[0] = n /\ \A k \in 1 .. m - 1 : at[k] = f[at[k - 1]]
  BY <1>3, <1>4, AlongStep
<1> DEFINE longer == [k \in 0 .. m |-> IF k < m THEN at[k] ELSE f[at[m - 1]]]
<1>6. \A k \in 0 .. m : longer[k] = IF k = 0 THEN n ELSE f[longer[k - 1]]
  <2> SUFFICES ASSUME NEW k \in 0 .. m
               PROVE  longer[k] = IF k = 0 THEN n ELSE f[longer[k - 1]]
    OBVIOUS
  <2>1. CASE k = m
    BY <1>2, <1>3, <2>1
  <2>2. CASE k < m
    BY <1>3, <1>5, <2>2
  <2> QED
    BY <1>3, <2>1, <2>2
<1>7. longer = [k \in 0 .. m |-> longer[k]]
  OBVIOUS
<1> HIDE DEF longer
<1>8. Along(f, n, m, longer)
  BY <1>6, <1>7 DEF Along
<1> QED
  BY <1>1, <1>8

\* Two walks from one node agree as far as both go.
LEMMA AlongSame ==
    ASSUME NEW f, NEW n, NEW c \in Nat, NEW d \in Nat, NEW at, NEW to,
           Along(f, n, c, at), Along(f, n, d, to), c <= d
    PROVE  at[c] = to[c]
<1> DEFINE wrong == {k \in 0 .. c : at[k] # to[k]}
<1> SUFFICES ASSUME wrong # {} PROVE FALSE
  OBVIOUS
<1>1. PICK m \in wrong : \A l \in wrong : m <= l
  <2>1. wrong \in SUBSET Nat
    OBVIOUS
  <2> HIDE DEF wrong
  <2> QED
    BY <2>1, LeastNat
<1>2. /\ at[0] = n /\ \A k \in 1 .. c : at[k] = f[at[k - 1]]
      /\ to[0] = n /\ \A k \in 1 .. d : to[k] = f[to[k - 1]]
  BY AlongStep
<1>3. m \in 1 .. c /\ m \in 1 .. d /\ m - 1 \in 0 .. c
  BY <1>1, <1>2
<1>4. at[m - 1] = to[m - 1]
  BY <1>1, <1>3
<1> QED
  BY <1>1, <1>2, <1>3, <1>4

\* Each turn applies f once.
LEMMA TurnsStep ==
    ASSUME NEW f, NEW n
    PROVE  /\ Turns(f, n, 0) = n
           /\ \A c \in Nat : Turns(f, n, c + 1) = f[Turns(f, n, c)]
<1>1. \A c \in Nat : \E at : Along(f, n, c, at) /\ Turns(f, n, c) = at[c]
  <2> SUFFICES ASSUME NEW c \in Nat
               PROVE  \E at : Along(f, n, c, at) /\ Turns(f, n, c) = at[c]
    OBVIOUS
  <2> DEFINE it == CHOOSE at : Along(f, n, c, at)
  <2>1. Turns(f, n, c) = it[c]
    BY DEF Turns, Along
  <2>2. Along(f, n, c, it)
    BY AlongExists
  <2> QED
    BY <2>1, <2>2
<1>2. Turns(f, n, 0) = n
  <2>1. PICK at : Along(f, n, 0, at) /\ Turns(f, n, 0) = at[0]
    BY <1>1
  <2>2. at = [k \in 0 .. 0 |-> IF k = 0 THEN n ELSE f[at[k - 1]]]
    BY <2>1 DEF Along
  <2>3. 0 \in 0 .. 0
    OBVIOUS
  <2>4. at[0] = n
    BY <2>2, <2>3
  <2> QED
    BY <2>1, <2>4
<1>3. ASSUME NEW c \in Nat PROVE Turns(f, n, c + 1) = f[Turns(f, n, c)]
  <2>1. PICK at : Along(f, n, c, at) /\ Turns(f, n, c) = at[c]
    BY <1>1
  <2>2. PICK to : Along(f, n, c + 1, to) /\ Turns(f, n, c + 1) = to[c + 1]
    BY <1>1
  <2>3. at[c] = to[c]
    BY <2>1, <2>2, AlongSame
  <2>4. to[c + 1] = f[to[c]]
    <3>1. PICK d \in Nat : d = c + 1 /\ d \in 1 .. d /\ d - 1 = c
      OBVIOUS
    <3>2. Along(f, n, d, to)
      BY <2>2, <3>1
    <3>3. \A k \in 1 .. d : to[k] = f[to[k - 1]]
      BY <3>2, AlongStep
    <3> QED
      BY <3>1, <3>3
  <2> QED
    BY <2>1, <2>2, <2>3, <2>4
<1> QED
  BY <1>2, <1>3

\* A loop that keeps S, and in which something finite rises with each turn, has
\* ended after as many turns as there are nodes.
THEOREM LoopEnds ==
    ASSUME NEW f, NEW S, NEW n \in S, \A s \in S : f[s] \in S,
           NEW V, IsFiniteSet(V), Cardinality(V) <= Cardinality(Node),
           NEW v \in [S -> V], NEW rank \in [V -> Int],
           \A s \in S : f[s] # s => rank[v[f[s]]] > rank[v[s]]
    PROVE  Loop(f, n) \in S /\ f[Loop(f, n)] = Loop(f, n)
<1> DEFINE N == Cardinality(Node)
           at == [c \in 0 .. N |-> Turns(f, n, c)]
<1>1. N \in Nat
  BY NodeAssumption, FS_CardinalityType
<1> HIDE DEF N
<1>2. at[0] = n /\ \A c \in 0 .. N : c < N => at[c + 1] = f[at[c]]
  BY <1>1, TurnsStep
<1>a. Loop(f, n) = at[N]
  BY <1>1 DEF Loop, N
<1> HIDE DEF at
<1>3. \A c \in 0 .. N : at[c] \in S
  <2> DEFINE wrong == {c \in 0 .. N : at[c] \notin S}
  <2> SUFFICES ASSUME wrong # {} PROVE FALSE
    OBVIOUS
  <2>1. PICK m \in wrong : \A l \in wrong : m <= l
    <3>1. wrong \in SUBSET Nat
      OBVIOUS
    <3> HIDE DEF wrong
    <3> QED
      BY <3>1, LeastNat
  <2>2. m \in 0 .. N /\ m # 0
    BY <1>2, <2>1
  <2>3. m - 1 \in 0 .. N /\ m - 1 < N /\ (m - 1) + 1 = m
    BY <1>1, <2>2
  <2>4. at[m - 1] \in S
    BY <2>1, <2>2, <2>3
  <2> QED
    BY <1>2, <2>1, <2>3, <2>4
<1>4. SUFFICES ASSUME f[at[N]] # at[N] PROVE FALSE
  BY <1>1, <1>3, <1>a
<1>5. \A c \in 0 .. N : f[at[c]] # at[c]
  <2> DEFINE stay == {c \in 0 .. N : f[at[N - c]] = at[N - c]}
  <2> SUFFICES ASSUME stay # {} PROVE FALSE
    <3> SUFFICES ASSUME NEW c \in 0 .. N, f[at[c]] = at[c] PROVE FALSE
      OBVIOUS
    <3>1. N - c \in 0 .. N /\ N - (N - c) = c
      BY <1>1
    <3> QED
      BY <3>1
  <2>1. PICK m \in stay : \A l \in stay : m <= l
    <3>1. stay \in SUBSET Nat
      OBVIOUS
    <3> HIDE DEF stay
    <3> QED
      BY <3>1, LeastNat
  <2>2. m \in 0 .. N /\ m # 0
    BY <1>1, <1>4, <2>1
  <2>3. /\ N - m \in 0 .. N /\ N - m < N /\ (N - m) + 1 = N - (m - 1)
        /\ m - 1 \in 0 .. N /\ ~(m <= m - 1)
    BY <1>1, <2>2
  <2>4. at[N - (m - 1)] = at[N - m]
    BY <1>2, <2>1, <2>3
  <2>5. m - 1 \in stay
    BY <2>1, <2>3, <2>4
  <2> QED
    BY <2>1, <2>3, <2>5
<1> DEFINE r == [c \in 0 .. N |-> rank[v[at[c]]]]
<1>6. \A c \in 0 .. N : r[c] \in Int /\ (c < N => r[c + 1] > r[c])
  BY <1>1, <1>2, <1>3, <1>5
<1>7. \A c, d \in 0 .. N : c < d => r[c] < r[d]
  <2> HIDE DEF r
  <2> DEFINE wrong == {d \in 0 .. N : \E c \in 0 .. N : c < d /\ ~(r[c] < r[d])}
  <2> SUFFICES ASSUME wrong # {} PROVE FALSE
    OBVIOUS
  <2>1. PICK m \in wrong : \A l \in wrong : m <= l
    <3>1. wrong \in SUBSET Nat
      OBVIOUS
    <3> HIDE DEF wrong
    <3> QED
      BY <3>1, LeastNat
  <2>2. PICK c \in 0 .. N : c < m /\ ~(r[c] < r[m])
    BY <2>1
  <2>3. m \in 0 .. N /\ m - 1 \in 0 .. N /\ m - 1 < N /\ (m - 1) + 1 = m /\ c <= m - 1
    BY <1>1, <2>1, <2>2
  <2>4. r[m - 1] < r[m] /\ r[m - 1] \in Int /\ r[c] \in Int /\ r[m] \in Int
    BY <1>6, <2>3
  <2>5. c = m - 1 \/ r[c] < r[m - 1]
    BY <2>1, <2>3
  <2> QED
    BY <2>2, <2>4, <2>5
<1>8. IsFiniteSet(0 .. N) /\ Cardinality(0 .. N) = N + 1
  BY <1>1, FS_Interval
<1>9. PICK w : w = [c \in 0 .. N |-> v[at[c]]]
  OBVIOUS
<1>10. w \in [0 .. N -> V]
  BY <1>3, <1>9
<1>11. Cardinality(0 .. N) > Cardinality(V)
  BY <1>1, <1>8, FS_CardinalityType DEF N
<1>12. PICK c, d \in 0 .. N : c # d /\ w[c] = w[d]
  BY <1>8, <1>10, <1>11, FS_PigeonHole
<1>13. r[c] = r[d]
  BY <1>9, <1>12
<1> HIDE DEF r
<1> QED
  BY <1>1, <1>6, <1>7, <1>12, <1>13

-----------------------------------------------------------------------------
(* Pointers *)

\* The external nodes, the internal ones, and both.
Leaves(t) == {n \in t.used : n # Nil /\ ~t.internal[n]}
Inner(t) == {n \in t.used : n # Nil /\ t.internal[n]}
Nodes(t) == t.used \ {Nil}

\* What two trees have in common between which only links differ.
SameBut(t, u) ==
    /\ u.used = t.used /\ u.exited = t.exited /\ u.key = t.key
    /\ u.lext = t.lext /\ u.rext = t.rext /\ u.internal = t.internal /\ u.red = t.red

\* There are two sides, and each is the other one of the other.
LEMMA Sides ==
    /\ Left \in Side /\ Right \in Side /\ Left # Right
    /\ \A s \in Side : /\ s = Left \/ s = Right
                       /\ Other(s) \in Side /\ Other(s) # s /\ Other(Other(s)) = s
    /\ \A s, o \in Side : s # o => o = Other(s)
  BY DEF Left, Right, Side, Other

\* The fields of a tree have values in their ranges.
LEMMA TreeFields ==
    ASSUME NEW t \in Tree
    PROVE  /\ t.used \subseteq Node /\ t.exited \in BOOLEAN
           /\ t.flink \in [Node -> Node] /\ t.blink \in [Node -> Node]
           /\ t.parent \in [Node -> Node] /\ t.lext \in [Node -> Node]
           /\ t.rext \in [Node -> Node] /\ t.key \in [Node -> Int]
           /\ t.root \in [Node -> BOOLEAN] /\ t.internal \in [Node -> BOOLEAN]
           /\ t.red \in [Node -> BOOLEAN] /\ t.side \in [Node -> Side]
  BY DEF Tree

\* Hanging c below n changes one child of n, and of c the parent and the side.
Hung(t, u, n, b, c) ==
    /\ u \in Tree /\ SameBut(t, u) /\ u.root = t.root
    /\ \A m \in Node :
          /\ \A d \in Side : child(u, m, d) = IF m = n /\ d = b THEN c ELSE child(t, m, d)
          /\ u.parent[m] = IF m = c THEN n ELSE t.parent[m]
          /\ u.side[m] = IF m = c THEN b ELSE t.side[m]

\* What hanging a node changes (jrb.c:83-86, 379-392).
LEMMA HangFacts ==
    ASSUME NEW t \in Tree, NEW n \in Node, NEW c \in Node, NEW b \in Side
    PROVE  Hung(t, Hang(t, n, b, c), n, b, c)
<1> DEFINE v == SetChild(t, n, b, c)
           u == [v EXCEPT !.parent[c] = n, !.side[c] = b]
<1>1. Hang(t, n, b, c) = u
  BY DEF Hang
<1>2. /\ v \in Tree /\ SameBut(t, v)
      /\ v.parent = t.parent /\ v.side = t.side /\ v.root = t.root
      /\ v.flink = IF b = Left THEN [t.flink EXCEPT ![n] = c] ELSE t.flink
      /\ v.blink = IF b = Left THEN t.blink ELSE [t.blink EXCEPT ![n] = c]
  <2>1. CASE b = Left
    BY <2>1 DEF SetChild, Tree, SameBut
  <2>2. CASE b = Right
    BY <2>2, Sides DEF SetChild, Tree, SameBut
  <2> QED
    BY <2>1, <2>2, Sides
<1> HIDE DEF v
<1>3. /\ u \in Tree /\ SameBut(v, u) /\ u.root = v.root
      /\ u.flink = v.flink /\ u.blink = v.blink
      /\ u.parent = [v.parent EXCEPT ![c] = n] /\ u.side = [v.side EXCEPT ![c] = b]
  BY <1>2 DEF Tree, SameBut
<1> HIDE DEF u
<1>4. /\ u \in Tree /\ SameBut(t, u) /\ u.root = t.root
      /\ \A m \in Node : /\ u.parent[m] = IF m = c THEN n ELSE t.parent[m]
                         /\ u.side[m] = IF m = c THEN b ELSE t.side[m]
  BY <1>2, <1>3, TreeFields DEF SameBut
<1>5. ASSUME NEW m \in Node, NEW d \in Side
      PROVE  child(u, m, d) = IF m = n /\ d = b THEN c ELSE child(t, m, d)
  <2>1. CASE d = Left
    BY <1>2, <1>3, <2>1, TreeFields, Sides DEF child
  <2>2. CASE d = Right
    BY <1>2, <1>3, <2>2, TreeFields, Sides DEF child
  <2> QED
    BY <2>1, <2>2, Sides
<1>6. Hung(t, u, n, b, c)
  BY <1>4, <1>5 DEF Hung
<1> QED
  BY <1>1, <1>6

\* Planting n makes it the child of the head.
Planted(t, u, n) ==
    /\ u \in Tree /\ SameBut(t, u) /\ u.side = t.side /\ u.root[n]
    /\ u.flink = t.flink /\ u.blink = t.blink
    /\ \A m \in Node :
          /\ u.parent[m] = IF m = n THEN Nil ELSE IF m = Nil THEN n ELSE t.parent[m]
          /\ m # n => u.root[m] = t.root[m]

\* What making a node the root changes (jrb.c:87-89, 379-384).
LEMMA PlantFacts ==
    ASSUME NEW t \in Tree, NEW n \in Node, n # Nil
    PROVE  Planted(t, Plant(t, n), n)
  BY NodeAssumption DEF Tree, Plant, SameBut, Planted

-----------------------------------------------------------------------------
(* Parents and children fit together *)

\* The child of n on the side b knows its parent and its side.
IsChild(t, n, b) ==
    LET c == child(t, n, b) IN
    c \in Nodes(t) /\ t.parent[c] = n /\ t.side[c] = b /\ ~t.root[c]

\* n is the root, or its parent has it on its side.
HasPlace(t, n) ==
    IF t.root[n] THEN t.parent[n] = Nil /\ t.parent[Nil] = n
    ELSE t.parent[n] \in Inner(t) /\ child(t, t.parent[n], t.side[n]) = n

\* The head knows the root, parents know their children, and children their parents.
Linked(t) ==
    /\ Nil \in t.used
    /\ t.parent[Nil] \in Nodes(t) /\ t.root[t.parent[Nil]]
    /\ \A n \in Inner(t) : \A b \in Side : IsChild(t, n, b)
    /\ \A n \in Nodes(t) : HasPlace(t, n)

\* No node is above itself.
Ranked(t, rank) ==
    /\ rank \in [Node -> Int]
    /\ \A n \in Inner(t) : \A b \in Side : rank[child(t, n, b)] < rank[n]

\* What a rotation at y makes of t: its child x on the side l takes its place, and
\* y becomes the child of x on the other side, o.
Turned(t, u, y, l, o) ==
    LET x == child(t, y, l)
        c == child(t, x, o)
    IN  /\ SameBut(t, u)
        /\ child(u, y, l) = c /\ child(u, y, o) = child(t, y, o)
        /\ child(u, x, o) = y /\ child(u, x, l) = child(t, x, l)
        /\ \A m \in Node \ {x, y} : \A b \in Side :
              child(u, m, b) = IF ~t.root[y] /\ m = t.parent[y] /\ b = t.side[y] THEN x
                               ELSE child(t, m, b)
        /\ u.parent[Nil] = IF t.root[y] THEN x ELSE t.parent[Nil]
        /\ \A m \in Node \ {Nil} :
              u.parent[m] = IF m = x THEN t.parent[y] ELSE IF m = y THEN x
                            ELSE IF m = c THEN y ELSE t.parent[m]
        /\ u.side[y] = o /\ u.side[c] = l /\ (~t.root[y] => u.side[x] = t.side[y])
        /\ \A m \in Node \ {x, y, c} : u.side[m] = t.side[m]
        /\ u.root[x] = t.root[y] /\ ~u.root[y]
        /\ \A m \in Node \ {x, y} : u.root[m] = t.root[m]

\* What single_rotate does to the links (jrb.c:351-394).
LEMMA RotateTurns ==
    ASSUME NEW t \in Tree, Linked(t), NEW rank, Ranked(t, rank),
           NEW y \in Inner(t), NEW l \in Side, NEW o \in Side, o = Other(l),
           child(t, y, l) \in Inner(t)
    PROVE  single_rotate(t, y, l) \in Tree /\ Turned(t, single_rotate(t, y, l), y, l, o)
<1> DEFINE x == child(t, y, l)
           c == child(t, x, o)
           yp == t.parent[y]
<1>1. /\ x \in Node /\ y \in Node /\ c \in Node /\ yp \in Node
      /\ x # Nil /\ y # Nil /\ c # Nil /\ ~t.root[x] /\ ~t.root[c]
      /\ IsChild(t, y, l) /\ IsChild(t, x, o)
  <2>1. IsChild(t, y, l) /\ IsChild(t, x, o)
    BY DEF Linked
  <2>2. t.used \subseteq Node /\ t.parent \in [Node -> Node]
    BY TreeFields
  <2> QED
    BY <2>1, <2>2 DEF IsChild, Inner, Nodes
<1>2. c # x /\ c # y /\ x # y
  <2>1. rank[c] < rank[x] /\ rank[x] < rank[y] /\ rank \in [Node -> Int]
    BY DEF Ranked
  <2> QED
    BY <1>1, <2>1
<1>3. ~t.root[y] => yp # Nil /\ yp # y /\ yp # x /\ yp # c /\ t.side[y] \in Side
  <2> SUFFICES ASSUME ~t.root[y] PROVE yp # Nil /\ yp # y /\ yp # x /\ yp # c /\ t.side[y] \in Side
    OBVIOUS
  <2>1. HasPlace(t, y)
    BY DEF Linked, Nodes, Inner
  <2>2. yp \in Inner(t) /\ child(t, yp, t.side[y]) = y /\ t.side[y] \in Side
    BY <1>1, <2>1, TreeFields DEF HasPlace
  <2>3. rank[y] < rank[yp] /\ rank[c] < rank[x] /\ rank[x] < rank[y]
    BY <2>2 DEF Ranked
  <2> QED
    BY <1>1, <1>2, <2>2, <2>3 DEF Inner, Ranked
<1> HIDE DEF x, c, yp
<1>a. PICK v : v = Hang(t, y, l, c)
  OBVIOUS
<1>b. PICK w : w = Hang(v, x, o, y)
  OBVIOUS
<1>4. /\ v \in Tree /\ SameBut(t, v) /\ v.root = t.root
      /\ \A m \in Node :
            /\ \A d \in Side : child(v, m, d) = IF m = y /\ d = l THEN c ELSE child(t, m, d)
            /\ v.parent[m] = IF m = c THEN y ELSE t.parent[m]
            /\ v.side[m] = IF m = c THEN l ELSE t.side[m]
  <2>1. Hung(t, v, y, l, c)
    BY <1>1, <1>a, HangFacts
  <2> QED
    BY <2>1 DEF Hung
<1>5. /\ w \in Tree /\ SameBut(v, w) /\ w.root = v.root
      /\ \A m \in Node :
            /\ \A d \in Side : child(w, m, d) = IF m = x /\ d = o THEN y ELSE child(v, m, d)
            /\ w.parent[m] = IF m = y THEN x ELSE v.parent[m]
            /\ w.side[m] = IF m = y THEN o ELSE v.side[m]
  <2>1. v \in Tree /\ x \in Node /\ y \in Node
    BY <1>1, <1>4
  <2>2. Hung(v, w, x, o, y)
    BY <1>b, <2>1, HangFacts
  <2> QED
    BY <2>2 DEF Hung
<1>6. /\ SameBut(t, w) /\ w.root = t.root
      /\ child(w, y, l) = c /\ child(w, y, o) = child(t, y, o)
      /\ child(w, x, o) = y /\ child(w, x, l) = child(t, x, l)
      /\ \A m \in Node \ {x, y} : \A d \in Side : child(w, m, d) = child(t, m, d)
      /\ \A m \in Node :
            /\ w.parent[m] = IF m = y THEN x ELSE IF m = c THEN y ELSE t.parent[m]
            /\ w.side[m] = IF m = y THEN o ELSE IF m = c THEN l ELSE t.side[m]
  BY <1>1, <1>2, <1>4, <1>5, Sides DEF SameBut
<1>7. CASE t.root[y]
  <2>a. PICK r : r = [w EXCEPT !.root[y] = FALSE]
    OBVIOUS
  <2>b. PICK u : u = Plant(r, x)
    OBVIOUS
  <2>1. single_rotate(t, y, l) = u
    BY <1>7, <1>a, <1>b, <2>a, <2>b DEF single_rotate, x, c
  <2>2. /\ r \in Tree /\ SameBut(w, r) /\ r.side = w.side /\ r.parent = w.parent
        /\ r.flink = w.flink /\ r.blink = w.blink /\ r.root = [w.root EXCEPT ![y] = FALSE]
    BY <1>1, <1>5, <2>a DEF Tree, SameBut
  <2>3. /\ u \in Tree /\ SameBut(r, u) /\ u.side = r.side /\ u.root[x]
        /\ \A m \in Node :
              /\ \A b \in Side : child(u, m, b) = child(r, m, b)
              /\ u.parent[m] = IF m = x THEN Nil ELSE IF m = Nil THEN x ELSE r.parent[m]
              /\ m # x => u.root[m] = r.root[m]
    <3>1. Planted(r, u, x)
      BY <1>1, <2>2, <2>b, PlantFacts
    <3> QED
      BY <3>1 DEF Planted, child
  <2>4. yp = Nil
    BY <1>7 DEF Linked, HasPlace, yp, Nodes, Inner
  <2>5. SameBut(t, u)
    BY <1>6, <2>2, <2>3 DEF SameBut
  <2>6. \A m \in Node : \A b \in Side : child(u, m, b) = child(w, m, b)
    BY ZenonT(60), <2>2, <2>3 DEF child
  <2>7. ~u.root[y] /\ \A m \in Node \ {x, y} : u.root[m] = t.root[m]
    <3>1. r.root = [t.root EXCEPT ![y] = FALSE] /\ t.root \in [Node -> BOOLEAN]
      BY <1>6, <2>2, TreeFields
    <3> QED
      BY <1>1, <1>2, <2>3, <3>1
  <2>8. \A m \in Node : u.side[m] = w.side[m]
    BY <2>2, <2>3
  <2>9. \A m \in Node : u.parent[m] = IF m = x THEN Nil ELSE IF m = Nil THEN x ELSE w.parent[m]
    BY <2>2, <2>3
  <2>10. u.root[x] = t.root[y]
    BY <1>1, <1>7, <2>3, TreeFields
  <2>11. Turned(t, u, y, l, o)
    BY <1>1, <1>2, <1>6, <1>7, <2>4, <2>5, <2>6, <2>7, <2>8, <2>9, <2>10 DEF Turned, x, c, yp
  <2> QED
    BY <2>1, <2>3, <2>11
<1>8. CASE ~t.root[y]
  <2>b. PICK u : u = Hang(w, yp, t.side[y], x)
    OBVIOUS
  <2>1. single_rotate(t, y, l) = u
    BY <1>8, <1>a, <1>b, <2>b DEF single_rotate, x, c, yp
  <2>2. PICK a \in Side : a = t.side[y]
    BY <1>3, <1>8
  <2>3. /\ u \in Tree /\ SameBut(w, u) /\ u.root = w.root
        /\ \A m \in Node :
              /\ \A d \in Side :
                    child(u, m, d) = IF m = yp /\ d = a THEN x ELSE child(w, m, d)
              /\ u.parent[m] = IF m = x THEN yp ELSE w.parent[m]
              /\ u.side[m] = IF m = x THEN a ELSE w.side[m]
    <3>1. w \in Tree /\ yp \in Node /\ x \in Node
      BY <1>1, <1>5
    <3>2. Hung(w, u, yp, a, x)
      BY <2>b, <2>2, <3>1, HangFacts
    <3> QED
      BY <3>2 DEF Hung
  <2>4. SameBut(t, u)
    BY <1>6, <2>3 DEF SameBut
  <2>5. /\ \A m \in Node \ {x, y} : \A b \in Side :
              child(u, m, b) = IF m = yp /\ b = a THEN x ELSE child(t, m, b)
        /\ child(u, y, l) = c /\ child(u, y, o) = child(t, y, o)
        /\ child(u, x, o) = y /\ child(u, x, l) = child(t, x, l)
    BY <1>1, <1>2, <1>3, <1>6, <1>8, <2>3
  <2>6. /\ u.root[x] = t.root[y] /\ ~u.root[y] /\ \A m \in Node \ {x, y} : u.root[m] = t.root[m]
    BY <1>1, <1>6, <1>8, <2>3, TreeFields
  <2>7. u.parent[Nil] = t.parent[Nil]
    BY <1>1, <1>6, <2>3, NodeAssumption
  <2>8. \A m \in Node \ {Nil} :
           u.parent[m] = IF m = x THEN yp ELSE IF m = y THEN x
                         ELSE IF m = c THEN y ELSE t.parent[m]
    BY <1>6, <2>3
  <2>9. /\ u.side[y] = o /\ u.side[c] = l /\ u.side[x] = t.side[y]
        /\ \A m \in Node \ {x, y, c} : u.side[m] = t.side[m]
    BY <1>1, <1>2, <1>6, <2>2, <2>3
  <2>10. Turned(t, u, y, l, o)
    BY <1>8, <2>2, <2>4, <2>5, <2>6, <2>7, <2>8, <2>9 DEF Turned, x, c, yp
  <2> QED
    BY <2>1, <2>3, <2>10
<1> QED
  BY <1>7, <1>8

\* Where only links differ, the nodes are the same.
LEMMA SameNodes ==
    ASSUME NEW t, NEW u, SameBut(t, u)
    PROVE  Inner(u) = Inner(t) /\ Leaves(u) = Leaves(t) /\ Nodes(u) = Nodes(t)
  BY DEF SameBut, Inner, Leaves, Nodes

\* A node is internal or external, and never the head.
LEMMA NodeKinds ==
    ASSUME NEW t \in Tree
    PROVE  /\ Nodes(t) = Inner(t) \union Leaves(t) /\ Inner(t) \intersect Leaves(t) = {}
           /\ Nodes(t) \subseteq Node \ {Nil}
  BY TreeFields DEF Nodes, Inner, Leaves

\* After a rotation, parents and children still fit together.
LEMMA RotateLinked ==
    ASSUME NEW t \in Tree, Linked(t), NEW rank, Ranked(t, rank),
           NEW y \in Inner(t), NEW l \in Side, NEW o \in Side, o = Other(l),
           child(t, y, l) \in Inner(t), NEW u \in Tree, Turned(t, u, y, l, o)
    PROVE  Linked(u)
<1> DEFINE x == child(t, y, l)
           c == child(t, x, o)
           d == child(t, y, o)
           z == child(t, x, l)
<1>1. /\ IsChild(t, y, l) /\ IsChild(t, y, o) /\ IsChild(t, x, l) /\ IsChild(t, x, o)
      /\ HasPlace(t, y) /\ x \in Inner(t) /\ l # o /\ \A b \in Side : b = l \/ b = o
  BY Sides, NodeKinds DEF Linked
<1>2. /\ rank[c] < rank[x] /\ rank[x] < rank[y] /\ rank \in [Node -> Int]
      /\ rank[d] < rank[y] /\ rank[z] < rank[x]
  BY DEF Ranked
<1>3. /\ x \in Node \ {Nil} /\ y \in Node \ {Nil} /\ c \in Node \ {Nil}
      /\ d \in Node \ {Nil} /\ z \in Node \ {Nil}
      /\ x \in Nodes(t) /\ y \in Nodes(t) /\ c \in Nodes(t)
      /\ d \in Nodes(t) /\ z \in Nodes(t)
  BY <1>1, NodeKinds DEF IsChild
<1>a. /\ t.parent[x] = y /\ t.side[x] = l /\ ~t.root[x]
      /\ t.parent[d] = y /\ t.side[d] = o /\ ~t.root[d]
      /\ t.parent[c] = x /\ t.side[c] = o /\ ~t.root[c]
      /\ t.parent[z] = x /\ t.side[z] = l /\ ~t.root[z]
  BY <1>1 DEF IsChild
<1>4. /\ x # y /\ c # x /\ c # y /\ z # c /\ z # x /\ z # y
      /\ d # x /\ d # y /\ d # c /\ d # z
  BY <1>1, <1>2, <1>3, <1>a
<1> HIDE DEF x, c, d, z
<1>5. Turned(t, u, y, l, o) /\ SameBut(t, u)
  BY DEF Turned
<1>6. Inner(u) = Inner(t) /\ Nodes(u) = Nodes(t) /\ u.used = t.used
  BY <1>5, SameNodes DEF SameBut
<1>b. /\ child(u, y, l) = c /\ child(u, y, o) = d /\ child(u, x, o) = y /\ child(u, x, l) = z
      /\ u.parent[c] = y /\ u.side[c] = l /\ ~u.root[c]
      /\ u.parent[d] = y /\ u.side[d] = o /\ ~u.root[d]
      /\ u.parent[y] = x /\ u.side[y] = o /\ ~u.root[y]
      /\ u.parent[z] = x /\ u.side[z] = l /\ ~u.root[z]
  BY <1>1, <1>3, <1>4, <1>5, <1>a DEF Turned, x, c, d, z
<1>7. ASSUME NEW n \in Inner(t), NEW b \in Side PROVE IsChild(u, n, b)
  <2>1. IsChild(t, n, b) /\ n \in Node \ {Nil}
    BY NodeKinds DEF Linked
  <2>2. CASE n = y
    BY <1>1, <1>3, <1>6, <1>b, <2>2 DEF IsChild
  <2>3. CASE n = x
    BY <1>1, <1>3, <1>6, <1>b, <2>3 DEF IsChild
  <2>4. CASE n # x /\ n # y
    BY <1>1, <1>3, <1>4, <1>5, <1>6, <2>1, <2>4, NodeKinds DEF IsChild, Turned, HasPlace, x, c
  <2> QED
    BY <2>2, <2>3, <2>4
<1>8. ASSUME NEW n \in Nodes(t) PROVE HasPlace(u, n)
  <2>1. HasPlace(t, n) /\ n \in Node \ {Nil}
    BY NodeKinds DEF Linked
  <2>2. CASE n \in {c, d, y, z}
    BY <1>1, <1>3, <1>6, <1>b, <2>2 DEF HasPlace
  <2>3. CASE n = x
    <3>1. /\ u.root[x] = t.root[y] /\ u.parent[x] = t.parent[y]
          /\ u.parent[Nil] = IF t.root[y] THEN x ELSE t.parent[Nil]
          /\ ~t.root[y] => u.side[x] = t.side[y]
      BY <1>3, <1>5 DEF Turned, x
    <3>2. CASE t.root[y]
      BY <1>1, <2>3, <3>1, <3>2 DEF HasPlace
    <3>3. CASE ~t.root[y]
      <4>1. t.parent[y] \in Inner(t) /\ child(t, t.parent[y], t.side[y]) = y /\ t.side[y] \in Side
        BY <1>1, <1>3, <3>3, TreeFields DEF HasPlace
      <4>2. rank[y] < rank[t.parent[y]]
        BY <4>1 DEF Ranked
      <4>3. t.parent[y] \in Node \ {x, y}
        BY <1>2, <1>3, <4>1, <4>2, NodeKinds
      <4>4. child(u, t.parent[y], t.side[y]) = x
        BY <1>5, <3>3, <4>1, <4>3 DEF Turned, x
      <4> QED
        BY <1>6, <2>3, <3>1, <3>3, <4>1, <4>4 DEF HasPlace
    <3> QED
      BY <3>2, <3>3
  <2>4. CASE n \notin {x, y, c, d, z}
    <3>1. /\ u.root[n] = t.root[n] /\ u.parent[n] = t.parent[n] /\ u.side[n] = t.side[n]
      BY <1>5, <2>1, <2>4 DEF Turned, x, c
    <3>2. CASE t.root[n]
      <4>1. ~t.root[y]
        BY <1>1, <2>1, <2>4, <3>2 DEF HasPlace
      <4> QED
        BY <1>5, <2>1, <3>1, <3>2, <4>1 DEF HasPlace, Turned
    <3>3. CASE ~t.root[n]
      <4>1. t.parent[n] \in Inner(t) /\ child(t, t.parent[n], t.side[n]) = n /\ t.side[n] \in Side
        BY <2>1, <3>3, TreeFields DEF HasPlace
      <4>2. t.parent[n] \in Node \ {x, y}
        BY <1>1, <2>4, <4>1, NodeKinds DEF x, c, d, z
      <4>3. ~(~t.root[y] /\ t.parent[n] = t.parent[y] /\ t.side[n] = t.side[y])
        BY <1>1, <2>4, <4>1 DEF HasPlace
      <4>4. child(u, t.parent[n], t.side[n]) = n
        BY <1>5, <4>1, <4>2, <4>3 DEF Turned, x
      <4> QED
        BY <1>6, <3>1, <3>3, <4>1, <4>4 DEF HasPlace
    <3> QED
      BY <3>2, <3>3
  <2> QED
    BY <2>2, <2>3, <2>4
<1>9. u.parent[Nil] \in Nodes(t) /\ u.root[u.parent[Nil]]
  <2>1. CASE t.root[y]
    BY <1>3, <1>5, <2>1 DEF Turned, x
  <2>2. CASE ~t.root[y]
    <3>1. t.parent[Nil] \in Nodes(t) /\ t.root[t.parent[Nil]] /\ t.parent[Nil] \in Node
      BY NodeKinds DEF Linked
    <3>2. t.parent[Nil] # x /\ t.parent[Nil] # y
      BY <1>a, <2>2, <3>1
    <3> QED
      BY <1>5, <2>2, <3>1, <3>2 DEF Turned, x
  <2> QED
    BY <2>1, <2>2
<1> QED
  BY <1>6, <1>7, <1>8, <1>9 DEF Linked

-----------------------------------------------------------------------------
(* The order of the nodes from left to right, and the stretch each has of it *)

\* Whether a is farther than b on a side.
Beyond(s, a, b) == (s = Left => a < b) /\ (s = Right => b < a)

\* The external node next to another one.
beside(t, n, s) == child(t, n, Other(s))

\* The list has the leaves in the order of pos, and leaves out none.
Listed(t, pos) ==
    /\ pos \in [Node -> Int]
    /\ \A n \in Leaves(t) \union {Nil} : \A s \in Side :
          /\ beside(t, n, s) \in Leaves(t) \union {Nil}
          /\ beside(t, beside(t, n, s), Other(s)) = n
    /\ \A n \in Leaves(t) : \A s \in Side :
          beside(t, n, s) # Nil => Beyond(s, pos[beside(t, n, s)], pos[n])
    /\ \A m, n \in Leaves(t) : \A s \in Side :
          Beyond(s, pos[n], pos[m]) =>
             beside(t, m, s) # Nil /\ ~Beyond(s, pos[beside(t, m, s)], pos[n])
    /\ \A m, n \in Leaves(t) : pos[m] = pos[n] => m = n

\* A node lies inside its stretch, and its children share it out.
Spans(t, pos, lim) ==
    /\ lim \in [Node -> [Side -> Int]]
    /\ \A n \in Nodes(t) : \A s \in Side :
          Beyond(s, lim[n][s], pos[n]) /\ ~Beyond(s, lim[n][s], lim[t.parent[Nil]][s])
    /\ \A n \in Inner(t) : \A s \in Side :
          lim[child(t, n, s)][s] = lim[n][s] /\ lim[child(t, n, s)][Other(s)] = pos[n]
    /\ \A m, n \in Inner(t) : pos[m] = pos[n] => m = n
    /\ \A n \in Leaves(t) : \A s \in Side :
          /\ beside(t, n, s) = Nil => lim[n][s] = lim[t.parent[Nil]][s]
          /\ beside(t, n, s) # Nil => lim[beside(t, n, s)][Other(s)] = lim[n][s]

\* A tree whose links fit together, whose list is in order and whose stretches share out.
Shaped(t, pos, lim) == t \in Tree /\ Linked(t) /\ Listed(t, pos) /\ Spans(t, pos, lim)

\* Beyond is a strict order, and turns around with the side.
LEMMA BeyondOrder ==
    ASSUME NEW s \in Side
    PROVE  /\ \A p \in Int : ~Beyond(s, p, p)
           /\ \A p, q \in Int : Beyond(s, p, q) \/ Beyond(s, q, p) \/ p = q
           /\ \A p, q \in Int : Beyond(Other(s), p, q) <=> Beyond(s, q, p)
           /\ \A p, q, r \in Int : Beyond(s, p, q) /\ Beyond(s, q, r) => Beyond(s, p, r)
<1>1. CASE s = Left
  BY <1>1, Sides DEF Beyond, Other
<1>2. CASE s = Right
  BY <1>2, Sides DEF Beyond, Other
<1> QED
  BY <1>1, <1>2, Sides

\* How long a stretch is: it falls on the way down, so that loops up and down end.
Width(lim) == [n \in Node |-> lim[n][Right] - lim[n][Left]]

\* A child has a shorter stretch than its parent.
LEMMA WidthRanks ==
    ASSUME NEW t, NEW pos, NEW lim, Shaped(t, pos, lim)
    PROVE  Ranked(t, Width(lim))
<1>1. t \in Tree /\ Linked(t) /\ lim \in [Node -> [Side -> Int]] /\ pos \in [Node -> Int]
  BY DEF Shaped, Spans, Listed
<1>2. /\ Width(lim) \in [Node -> Int]
      /\ \A n \in Node : Width(lim)[n] = lim[n][Right] - lim[n][Left]
  BY <1>1, Sides DEF Width
<1>3. ASSUME NEW n \in Inner(t), NEW s \in Side
      PROVE  Width(lim)[child(t, n, s)] < Width(lim)[n]
  <2>1. PICK c : c = child(t, n, s)
    OBVIOUS
  <2>2. c \in Node /\ n \in Node /\ n \in Nodes(t)
    BY <1>1, <2>1, NodeKinds DEF Linked, IsChild
  <2>3. lim[c][s] = lim[n][s] /\ lim[c][Other(s)] = pos[n]
    BY <2>1 DEF Shaped, Spans
  <2>4. \A b \in Side : Beyond(b, lim[n][b], pos[n])
    BY <2>2 DEF Shaped, Spans
  <2>5. lim[n][Left] < pos[n] /\ pos[n] < lim[n][Right]
    BY <2>4, Sides DEF Beyond
  <2>6. \A m \in Node : \A b \in Side : lim[m][b] \in Int
    BY <1>1
  <2>7. /\ lim[n][Left] \in Int /\ lim[n][Right] \in Int /\ pos[n] \in Int
        /\ lim[c][Left] \in Int /\ lim[c][Right] \in Int
    BY <1>1, <2>2, <2>6, Sides
  <2>8. CASE s = Left
    <3>1. lim[c][Left] = lim[n][Left] /\ lim[c][Right] = pos[n]
      BY <2>3, <2>8 DEF Other
    <3> QED
      BY <1>2, <2>1, <2>2, <2>5, <2>7, <3>1
  <2>9. CASE s = Right
    <3>1. lim[c][Right] = lim[n][Right] /\ lim[c][Left] = pos[n]
      BY <2>3, <2>9, Sides DEF Other
    <3> QED
      BY <1>2, <2>1, <2>2, <2>5, <2>7, <3>1
  <2> QED
    BY <2>8, <2>9, Sides
<1> QED
  BY <1>2, <1>3 DEF Ranked

\* Trees whose leaves have the same links have the same list.
SameList(t, u) ==
    /\ Leaves(u) = Leaves(t) /\ Inner(u) = Inner(t)
    /\ \A n \in Leaves(t) \union {Nil} : \A s \in Side : beside(u, n, s) = beside(t, n, s)

\* A tree with the list of another has it in the same order.
LEMMA ListKept ==
    ASSUME NEW t, NEW u, NEW pos, Listed(t, pos), SameList(t, u)
    PROVE  Listed(u, pos)
<1>1. \A n \in Leaves(t) : \A s \in Side : beside(u, n, s) = beside(t, n, s)
  BY DEF SameList
<1>2. \A n \in Leaves(t) \union {Nil} : \A s \in Side :
         /\ beside(u, n, s) \in Leaves(t) \union {Nil}
         /\ beside(u, beside(u, n, s), Other(s)) = n
  BY Sides DEF SameList, Listed
<1> QED
  BY <1>1, <1>2 DEF SameList, Listed

\* A rotation leaves the list alone.
LEMMA RotateList ==
    ASSUME NEW t \in Tree, Linked(t), NEW y \in Inner(t), NEW l \in Side, NEW o \in Side,
           child(t, y, l) \in Inner(t), NEW u, Turned(t, u, y, l, o)
    PROVE  SameList(t, u)
<1>1. SameBut(t, u) /\ Leaves(u) = Leaves(t) /\ Inner(u) = Inner(t)
  BY SameNodes DEF Turned
<1>2. ~t.root[y] => t.parent[y] \in Inner(t)
  BY NodeKinds DEF Linked, HasPlace
<1>3. ASSUME NEW m \in Leaves(t) \union {Nil}, NEW s \in Side
      PROVE  child(u, m, s) = child(t, m, s)
  <2>1. m \in Node \ {child(t, y, l), y} /\ m \notin Inner(t)
    BY NodeAssumption, NodeKinds DEF Inner
  <2>2. ~(~t.root[y] /\ m = t.parent[y])
    BY <1>2, <2>1
  <2> QED
    BY <2>1, <2>2 DEF Turned
<1> QED
  BY <1>1, <1>3, Sides DEF SameList, beside

\* A rotation leaves the list alone, and the stretches but those of the two nodes that
\* turn.
THEOREM RotateShaped ==
    ASSUME NEW t, NEW pos, NEW lim, Shaped(t, pos, lim),
           NEW y \in Inner(t), NEW l \in Side, NEW o \in Side, o = Other(l),
           child(t, y, l) \in Inner(t), NEW u \in Tree, Turned(t, u, y, l, o)
    PROVE  /\ SameList(t, u)
           /\ \E lims : /\ Shaped(u, pos, lims)
                        /\ \A n \in Leaves(t) : lims[n] = lim[n]
<1> DEFINE x == child(t, y, l)
           c == child(t, x, o)
           d == child(t, y, o)
           z == child(t, x, l)
           r == t.parent[Nil]
<1>1. t \in Tree /\ Linked(t) /\ Listed(t, pos) /\ Spans(t, pos, lim)
  BY DEF Shaped
<1>2. PICK rank : Ranked(t, rank)
  BY WidthRanks
<1>3. Linked(u)
  BY <1>1, <1>2, RotateLinked
<1>4. SameList(t, u) /\ Listed(u, pos)
  BY <1>1, RotateList, ListKept
<1>5. /\ IsChild(t, y, l) /\ IsChild(t, y, o) /\ IsChild(t, x, l) /\ IsChild(t, x, o)
      /\ x \in Inner(t) /\ l # o /\ \A b \in Side : b = l \/ b = o
  BY <1>1, Sides, NodeKinds DEF Linked
<1>6. /\ x \in Nodes(t) /\ y \in Nodes(t) /\ c \in Nodes(t) /\ d \in Nodes(t) /\ z \in Nodes(t)
      /\ Nodes(t) \subseteq Node \ {Nil}
  BY <1>1, <1>5, NodeKinds DEF IsChild
<1>7. /\ c # x /\ c # y /\ d # x /\ d # y /\ z # x /\ z # y /\ x # y
  <2>1. /\ rank[c] < rank[x] /\ rank[x] < rank[y] /\ rank \in [Node -> Int]
        /\ rank[d] < rank[y] /\ rank[z] < rank[x]
    BY <1>2, <1>5 DEF Ranked, x, c, d, z
  <2>2. t.side[d] = o /\ t.side[x] = l
    BY <1>5 DEF IsChild, x, d
  <2> QED
    BY <1>5, <1>6, <2>1, <2>2
<1>8. /\ child(u, y, l) = c /\ child(u, y, o) = d /\ child(u, x, o) = y /\ child(u, x, l) = z
      /\ Inner(u) = Inner(t) /\ Nodes(u) = Nodes(t) /\ Leaves(u) = Leaves(t)
  BY SameNodes DEF Turned, x, c, d, z
<1> HIDE DEF x, c, d, z, r
<1>9. /\ lim \in [Node -> [Side -> Int]] /\ pos \in [Node -> Int]
      /\ lim[x][l] = lim[y][l] /\ lim[x][o] = pos[y]
      /\ lim[d][o] = lim[y][o] /\ lim[d][l] = pos[y]
      /\ lim[z][l] = lim[x][l] /\ lim[z][o] = pos[x]
      /\ lim[c][o] = lim[x][o] /\ lim[c][l] = pos[x]
  BY <1>1, <1>5, Sides DEF Spans, Listed, x, c, d, z
<1>10. PICK lims : lims = [m \in Node |-> [s \in Side |->
                             IF m = x THEN lim[y][s]
                             ELSE IF m = y /\ s = l THEN pos[x] ELSE lim[m][s]]]
  OBVIOUS
<1>11. /\ \A s \in Side : lims[x][s] = lim[y][s]
       /\ lims[y][l] = pos[x] /\ lims[y][o] = lim[y][o]
       /\ \A m \in Node \ {x, y} : \A s \in Side : lims[m][s] = lim[m][s]
  BY <1>5, <1>6, <1>7, <1>10
<1>12. lims \in [Node -> [Side -> Int]]
  <2>1. pos[x] \in Int /\ \A m \in Node : \A s \in Side : lim[m][s] \in Int
    BY <1>6, <1>9
  <2> QED
    BY <1>6, <1>10, <2>1
<1>13. \A m \in Node \ {x, y} : lims[m] = lim[m]
  <2> SUFFICES ASSUME NEW m \in Node \ {x, y} PROVE lims[m] = lim[m]
    OBVIOUS
  <2>1. lims[m] \in [Side -> Int] /\ lim[m] \in [Side -> Int]
    BY <1>9, <1>12
  <2> QED
    BY <1>11, <2>1
<1>14. \A n \in Leaves(t) : n \in Node \ {x, y} /\ lims[n] = lim[n]
  BY <1>1, <1>5, <1>13, NodeKinds
<1>15. /\ u.parent[Nil] \in Nodes(t) /\ \A s \in Side : lims[u.parent[Nil]][s] = lim[r][s]
  <2>1. t.root[y] => r = y
    BY <1>1, <1>6 DEF Linked, HasPlace, r
  <2>2. u.parent[Nil] = IF t.root[y] THEN x ELSE r
    BY DEF Turned, x, r
  <2>3. r \in Nodes(t) /\ t.root[r] /\ r # x
    BY <1>1, <1>5 DEF Linked, IsChild, x, r
  <2> QED
    BY <1>6, <1>11, <2>1, <2>2, <2>3
<1>16. /\ \A n \in Nodes(t) : \A s \in Side :
              Beyond(s, lim[n][s], pos[n]) /\ ~Beyond(s, lim[n][s], lim[r][s])
       /\ \A n \in Inner(t) : \A s \in Side :
              lim[child(t, n, s)][s] = lim[n][s] /\ lim[child(t, n, s)][Other(s)] = pos[n]
  BY <1>1 DEF Spans, r
<1>17. Beyond(o, pos[y], pos[x]) /\ Beyond(l, pos[x], pos[y])
  <2>1. Beyond(o, lim[x][o], pos[x])
    BY <1>6, <1>16
  <2>2. Beyond(o, pos[y], pos[x])
    BY <1>9, <2>1
  <2>3. Beyond(l, pos[x], pos[y])
    BY <2>2, Sides DEF Beyond, Other
  <2> QED
    BY <2>2, <2>3
<1>18. ASSUME NEW n \in Nodes(t), NEW s \in Side
       PROVE  Beyond(s, lims[n][s], pos[n]) /\ ~Beyond(s, lims[n][s], lim[r][s])
  <2>0. pos[x] \in Int /\ pos[y] \in Int /\ r \in Node
    BY <1>1, <1>6, <1>9, NodeKinds DEF Linked, r
  <2>i. \A m \in Node : \A b \in Side : lim[m][b] \in Int
    BY <1>9
  <2>1. CASE n = y /\ s = l
    <3>1. ~Beyond(l, lim[y][l], lim[r][l]) /\ Beyond(l, lim[x][l], pos[x])
      BY <1>6, <1>16
    <3>2. ~Beyond(l, lim[y][l], lim[r][l]) /\ Beyond(l, lim[y][l], pos[x])
      BY <1>9, <3>1
    <3>3. lim[y][l] \in Int /\ lim[r][l] \in Int
      BY <1>6, <2>0, <2>i
    <3>4. ~Beyond(l, pos[x], lim[r][l])
      BY <2>0, <3>2, <3>3, Sides DEF Beyond
    <3> QED
      BY <1>11, <1>17, <2>1, <3>4
  <2>2. CASE n = x
    <3>1. Beyond(s, lim[y][s], pos[y]) /\ ~Beyond(s, lim[y][s], lim[r][s])
      BY <1>6, <1>16
    <3>2. Beyond(s, lim[y][s], pos[x])
      <4>1. CASE s = l
        <5>1. Beyond(l, lim[x][l], pos[x])
          BY <1>6, <1>16
        <5> QED
          BY <1>9, <4>1, <5>1
      <4>2. CASE s = o
        <5>1. lim[y][o] \in Int
          BY <1>6, <2>i
        <5> QED
          BY <1>17, <2>0, <3>1, <4>2, <5>1, Sides DEF Beyond
      <4> QED
        BY <1>5, <4>1, <4>2
    <3> QED
      BY <1>11, <2>2, <3>1, <3>2
  <2>3. CASE n # x /\ ~(n = y /\ s = l)
    <3>1. lims[n][s] = lim[n][s]
      BY <1>5, <1>6, <1>11, <2>3
    <3> QED
      BY <1>16, <3>1
  <2> QED
    BY <1>7, <2>1, <2>2, <2>3
<1>19. ASSUME NEW n \in Inner(t), NEW s \in Side
       PROVE  lims[child(u, n, s)][s] = lims[n][s] /\ lims[child(u, n, s)][Other(s)] = pos[n]
  <2>0. Other(l) = o /\ Other(o) = l
    BY Sides
  <2>1. CASE n = y /\ s = l
    BY <1>6, <1>7, <1>8, <1>9, <1>11, <2>0, <2>1
  <2>2. CASE n = y /\ s = o
    BY <1>6, <1>7, <1>8, <1>9, <1>11, <2>0, <2>2
  <2>3. CASE n = x /\ s = l
    BY <1>6, <1>7, <1>8, <1>9, <1>11, <2>0, <2>3
  <2>4. CASE n = x /\ s = o
    BY <1>6, <1>7, <1>8, <1>9, <1>11, <2>0, <2>4
  <2>5. CASE n # x /\ n # y
    <3>1. PICK e : e = child(t, n, s)
      OBVIOUS
    <3>2. IsChild(t, n, s) /\ n \in Node /\ Other(s) \in Side /\ HasPlace(t, y)
      BY <1>1, <1>6, NodeKinds, Sides DEF Linked
    <3>3. e \in Node /\ e # x
      BY <1>5, <1>6, <2>5, <3>1, <3>2 DEF IsChild, x
    <3>4. lim[e][s] = lim[n][s] /\ lim[e][Other(s)] = pos[n] /\ lims[n][s] = lim[n][s]
      BY <1>11, <1>16, <2>5, <3>1, <3>2
    <3>5. child(u, n, s) = IF ~t.root[y] /\ n = t.parent[y] /\ s = t.side[y] THEN x ELSE e
      BY <2>5, <3>1, <3>2 DEF Turned, x
    <3>6. CASE e = y
      <4>1. t.parent[y] = n /\ t.side[y] = s /\ ~t.root[y]
        BY <3>1, <3>2, <3>6 DEF IsChild
      <4>2. child(u, n, s) = x
        BY <3>5, <4>1
      <4>3. lims[x][s] = lim[y][s] /\ lims[x][Other(s)] = lim[y][Other(s)]
        BY <1>11, <3>2
      <4> QED
        BY <3>4, <3>6, <4>2, <4>3
    <3>7. CASE e # y
      <4>1. child(u, n, s) = e
        BY <3>1, <3>2, <3>5, <3>7 DEF HasPlace
      <4>2. lims[e][s] = lim[e][s] /\ lims[e][Other(s)] = lim[e][Other(s)]
        BY <1>11, <3>2, <3>3, <3>7
      <4> QED
        BY <3>4, <4>1, <4>2
    <3> QED
      BY <3>6, <3>7
  <2> QED
    BY <1>5, <2>1, <2>2, <2>3, <2>4, <2>5
<1>20. \A n \in Leaves(t) : \A s \in Side :
          /\ beside(u, n, s) = Nil => lims[n][s] = lim[r][s]
          /\ beside(u, n, s) # Nil => lims[beside(u, n, s)][Other(s)] = lims[n][s]
  <2>1. \A n \in Leaves(t) : \A s \in Side : beside(u, n, s) = beside(t, n, s)
    BY <1>4 DEF SameList
  <2>2. \A n \in Leaves(t) : \A s \in Side :
          /\ beside(t, n, s) = Nil => lim[n][s] = lim[r][s]
          /\ beside(t, n, s) # Nil => lim[beside(t, n, s)][Other(s)] = lim[n][s]
    BY <1>1 DEF Spans, r
  <2>3. \A n \in Leaves(t) : \A s \in Side :
           beside(t, n, s) # Nil => beside(t, n, s) \in Leaves(t)
    BY <1>1 DEF Listed
  <2> QED
    BY <1>14, <2>1, <2>2, <2>3
<1>21. \A m, n \in Inner(t) : pos[m] = pos[n] => m = n
  BY <1>1 DEF Spans
<1>22. Spans(u, pos, lims)
  BY <1>8, <1>12, <1>15, <1>18, <1>19, <1>20, <1>21 DEF Spans
<1> QED
  BY <1>3, <1>4, <1>14, <1>22 DEF Shaped

-----------------------------------------------------------------------------
(* Colours: R are the red nodes of a tree, and h counts the black ones below each *)

\* The red nodes.
Red(t) == {n \in Nodes(t) : t.red[n]}

\* On each way down from n there are h[n] black nodes, one less below short.
Heights(t, R, h, short) ==
    /\ R \subseteq Inner(t) /\ h \in [Node -> Nat]
    /\ \A n \in Leaves(t) : h[n] = 0
    /\ \A n \in Inner(t) : \A s \in Side :
          h[n] = h[child(t, n, s)] + (IF child(t, n, s) \in R THEN 0 ELSE 1)
                                   + (IF child(t, n, s) = short THEN 1 ELSE 0)

\* No red node has a red parent, but for n.
Reds(t, R, n) == \A m \in R \ {n} : ~t.root[m] => t.parent[m] \notin R

\* Trees that differ only in the colours.
Repainted(t, u) ==
    /\ u \in Tree /\ u.used = t.used /\ u.exited = t.exited
    /\ u.flink = t.flink /\ u.blink = t.blink /\ u.parent = t.parent
    /\ u.lext = t.lext /\ u.rext = t.rext /\ u.key = t.key
    /\ u.root = t.root /\ u.internal = t.internal /\ u.side = t.side

\* Colours change no node and no link.
LEMMA RepaintedNodes ==
    ASSUME NEW t, NEW u, Repainted(t, u)
    PROVE  /\ Inner(u) = Inner(t) /\ Leaves(u) = Leaves(t) /\ Nodes(u) = Nodes(t)
           /\ \A n, s : child(u, n, s) = child(t, n, s)
           /\ \A n, s : beside(u, n, s) = beside(t, n, s)
  BY DEF Repainted, Inner, Leaves, Nodes, child, beside

\* Colours change neither the shape nor the list.
LEMMA RepaintedShaped ==
    ASSUME NEW t, NEW u, NEW pos, NEW lim, Shaped(t, pos, lim), Repainted(t, u)
    PROVE  Shaped(u, pos, lim) /\ SameList(t, u)
<1>1. /\ Inner(u) = Inner(t) /\ Leaves(u) = Leaves(t) /\ Nodes(u) = Nodes(t)
      /\ \A n, s : child(u, n, s) = child(t, n, s)
      /\ \A n, s : beside(u, n, s) = beside(t, n, s)
      /\ u \in Tree /\ u.parent = t.parent /\ u.side = t.side /\ u.root = t.root
      /\ u.used = t.used
  BY RepaintedNodes DEF Repainted
<1>2. Linked(u)
  BY <1>1 DEF Shaped, Linked, IsChild, HasPlace
<1>3. Spans(u, pos, lim)
  BY <1>1 DEF Shaped, Spans
<1>4. SameList(t, u)
  BY <1>1 DEF SameList
<1> QED
  BY <1>1, <1>2, <1>3, <1>4, ListKept DEF Shaped

\* A rotation that turns a red node up and swaps the colours of the two nodes keeps
\* the heights.
LEMMA RotateHeights ==
    ASSUME NEW t, NEW pos, NEW lim, Shaped(t, pos, lim),
           NEW y \in Inner(t), NEW l \in Side, NEW o \in Side, o = Other(l),
           NEW x \in Inner(t), x = child(t, y, l), NEW u \in Tree, Turned(t, u, y, l, o),
           NEW R, NEW h, NEW short, Heights(t, R, h, short),
           x \in R, x # short, y # short,
           NEW Q, y \in Q, x \in Q <=> y \in R, \A m \in Node \ {x, y} : m \in Q <=> m \in R,
           Q \subseteq Inner(t)
    PROVE  Heights(u, Q, h, short)
<1> DEFINE c == child(t, x, o)
           d == child(t, y, o)
           z == child(t, x, l)
<1>1. t \in Tree /\ Linked(t) /\ Inner(u) = Inner(t) /\ Leaves(u) = Leaves(t)
  BY SameNodes DEF Shaped, Turned
<1>2. PICK rank : Ranked(t, rank)
  BY WidthRanks
<1>3. /\ IsChild(t, y, l) /\ IsChild(t, y, o) /\ IsChild(t, x, l) /\ IsChild(t, x, o)
      /\ HasPlace(t, y) /\ l # o /\ \A b \in Side : b = l \/ b = o
  BY <1>1, Sides, NodeKinds DEF Linked
<1>4. /\ rank[c] < rank[x] /\ rank[x] < rank[y] /\ rank \in [Node -> Int]
      /\ rank[d] < rank[y] /\ rank[z] < rank[x]
  BY <1>2, <1>3 DEF Ranked
<1>5. /\ x \in Node /\ y \in Node /\ c \in Node /\ d \in Node /\ z \in Node
      /\ t.side[d] = o /\ t.side[x] = l
  BY <1>1, <1>3, NodeKinds DEF IsChild
<1>6. /\ x # y /\ c # x /\ c # y /\ z # x /\ z # y /\ d # x /\ d # y
  BY <1>3, <1>4, <1>5
<1>7. /\ child(u, y, l) = c /\ child(u, y, o) = d /\ child(u, x, o) = y /\ child(u, x, l) = z
  BY DEF Turned
<1> HIDE DEF c, d, z
<1> DEFINE down(m) == h[m] + (IF m \in R THEN 0 ELSE 1) + (IF m = short THEN 1 ELSE 0)
           Down(m) == h[m] + (IF m \in Q THEN 0 ELSE 1) + (IF m = short THEN 1 ELSE 0)
<1>8. /\ h \in [Node -> Nat]
      /\ \A n \in Inner(t) : \A s \in Side : h[n] = down(child(t, n, s))
  BY DEF Heights
<1>9. h[y] = down(x) /\ h[y] = down(d) /\ h[x] = down(z) /\ h[x] = down(c)
  BY <1>8 DEF c, d, z
<1>10. h[x] = h[y]
  BY <1>5, <1>8, <1>9
<1>11. down(d) = Down(d) /\ down(c) = Down(c) /\ down(z) = Down(z)
  BY <1>5, <1>6
<1>12. Down(x) = down(y)
  BY <1>10
<1>13. Down(y) = h[x]
  BY <1>5, <1>8, <1>10
<1>14. ASSUME NEW n \in Inner(t), NEW s \in Side PROVE h[n] = Down(child(u, n, s))
  <2>1. CASE n \in {x, y}
    BY <1>3, <1>7, <1>9, <1>10, <1>11, <1>13, <2>1
  <2>2. CASE n # x /\ n # y
    <3>1. PICK e : e = child(t, n, s)
      OBVIOUS
    <3>2. IsChild(t, n, s) /\ n \in Node
      BY <1>1, NodeKinds DEF Linked
    <3>3. e \in Node /\ e # x
      BY <1>1, <1>3, <2>2, <3>1, <3>2, NodeKinds DEF IsChild
    <3>4. h[n] = down(e)
      BY <1>8, <3>1
    <3>5. child(u, n, s) = IF ~t.root[y] /\ n = t.parent[y] /\ s = t.side[y] THEN x ELSE e
      BY <2>2, <3>1, <3>2 DEF Turned
    <3>6. CASE e = y
      <4>1. t.parent[y] = n /\ t.side[y] = s /\ ~t.root[y]
        BY <3>1, <3>2, <3>6 DEF IsChild
      <4>2. child(u, n, s) = x
        BY <3>5, <4>1
      <4> QED
        BY <1>12, <3>4, <3>6, <4>2
    <3>7. CASE e # y
      <4>1. child(u, n, s) = e
        BY <1>3, <3>1, <3>5, <3>7 DEF HasPlace
      <4>2. down(e) = Down(e)
        BY <3>3, <3>7
      <4> QED
        BY <3>4, <4>1, <4>2
    <3> QED
      BY <3>6, <3>7
  <2> QED
    BY <2>1, <2>2
<1>15. \A n \in Leaves(t) : h[n] = 0
  BY SMTT(60) DEF Heights
<1> QED
  BY <1>1, <1>8, <1>14, <1>15 DEF Heights

\* Recolouring a red node's red parent and uncle moves the red pair two levels up.
LEMMA ClimbColours ==
    ASSUME NEW t \in Tree, Linked(t), NEW rank, Ranked(t, rank),
           NEW R, NEW h, Heights(t, R, h, Nil), NEW n \in R, Reds(t, R, n),
           NEW p, NEW gp, NEW q, p = t.parent[n], gp = t.parent[p], q = sibling(t, p),
           ~t.root[n], ~t.root[p], p \in R, q \in R
    PROVE  /\ gp \in Inner(t) /\ rank[gp] > rank[n]
           /\ \E k : Heights(t, (R \ {p, q}) \union {gp}, k, Nil)
           /\ Reds(t, (R \ {p, q}) \union {gp}, gp)
<1>1. /\ R \subseteq Inner(t) /\ h \in [Node -> Nat]
      /\ \A m \in Leaves(t) : h[m] = 0
      /\ \A m \in Inner(t) : \A s \in Side :
            h[m] = h[child(t, m, s)] + (IF child(t, m, s) \in R THEN 0 ELSE 1)
                                     + (IF child(t, m, s) = Nil THEN 1 ELSE 0)
  BY DEF Heights
<1>2. /\ \A m \in Inner(t) : \A s \in Side : IsChild(t, m, s) /\ child(t, m, s) # Nil
      /\ \A m \in Nodes(t) : HasPlace(t, m)
      /\ Inner(t) \subseteq Nodes(t) /\ Nodes(t) \subseteq Node \ {Nil}
      /\ Inner(t) \intersect Leaves(t) = {}
  BY NodeKinds DEF Linked, IsChild
<1>3. /\ n \in Inner(t) /\ p \in Inner(t) /\ q \in Inner(t) /\ gp \in Inner(t)
      /\ child(t, p, t.side[n]) = n /\ child(t, gp, t.side[p]) = p
      /\ t.side[n] \in Side /\ t.side[p] \in Side
      /\ q = child(t, gp, Other(t.side[p]))
  BY SMTT(60), <1>1, <1>2, TreeFields DEF HasPlace, sibling
<1>4. /\ rank[n] < rank[p] /\ rank[p] < rank[gp] /\ rank[q] < rank[gp] /\ rank \in [Node -> Int]
      /\ IsChild(t, gp, t.side[p]) /\ IsChild(t, gp, Other(t.side[p]))
  BY SMTT(60), <1>2, <1>3, Sides DEF Ranked
<1>5. n # p /\ p # gp /\ q # gp /\ rank[n] < rank[gp]
  BY SMTT(60), <1>2, <1>3, <1>4
<1>6. gp \notin R /\ t.parent[q] = gp
  BY <1>3, <1>4, <1>5 DEF Reds, IsChild
<1>7. PICK Q : Q = (R \ {p, q}) \union {gp}
  OBVIOUS
<1>8. PICK k : k = [h EXCEPT ![gp] = h[gp] + 1]
  OBVIOUS
<1>9. k \in [Node -> Nat] /\ k[gp] = h[gp] + 1 /\ \A m \in Node \ {gp} : k[m] = h[m]
  <2>1. gp \in Node /\ h[gp] \in Nat
    BY <1>1, <1>2, <1>3
  <2> QED
    BY SMTT(60), <1>1, <1>8, <2>1
<1>10. ASSUME NEW m \in Inner(t), NEW s \in Side
       PROVE  k[m] = k[child(t, m, s)] + (IF child(t, m, s) \in Q THEN 0 ELSE 1)
                                       + (IF child(t, m, s) = Nil THEN 1 ELSE 0)
  <2>1. PICK c : c = child(t, m, s)
    OBVIOUS
  <2>2. t.parent[c] = m /\ t.side[c] = s /\ c \in Node /\ c # Nil /\ m \in Node
    BY <1>2, <2>1 DEF IsChild
  <2>3. h[m] = h[c] + (IF c \in R THEN 0 ELSE 1) /\ h[c] \in Nat /\ h[m] \in Nat
    <3>1. h[c] \in Nat /\ h[m] \in Nat
      BY <1>1, <2>2
    <3> QED
      BY <1>1, <2>1, <2>2, <3>1
  <2>4. CASE c \in {p, q}
    <3>1. m = gp /\ c \notin Q /\ c \in R /\ c # gp
      BY <1>5, <1>6, <1>7, <2>2, <2>4
    <3> QED
      BY <1>9, <2>1, <2>2, <2>3, <3>1
  <2>5. CASE c = gp
    <3>1. m # gp
      <4>1. rank[c] < rank[m]
        BY <2>1 DEF Ranked
      <4> QED
        BY <1>4, <2>2, <2>5, <4>1
    <3> QED
      BY SMTT(60), <1>6, <1>7, <1>9, <2>1, <2>2, <2>3, <2>5, <3>1
  <2>6. CASE c \notin {p, q, gp}
    <3>1. m # gp
      <4>1. s = t.side[p] \/ s = Other(t.side[p])
        BY <1>3, Sides
      <4> QED
        BY <1>3, <2>1, <2>6, <4>1
    <3>2. c \in Q <=> c \in R
      BY SMTT(60), <1>7, <2>6
    <3> QED
      BY SMTT(60), <1>9, <2>1, <2>2, <2>3, <2>6, <3>1, <3>2
  <2> QED
    BY <2>4, <2>5, <2>6
<1>11. Q \subseteq Inner(t)
  BY SMTT(60), <1>1, <1>3, <1>7
<1>12. \A m \in Leaves(t) : k[m] = 0
  BY <1>1, <1>2, <1>3, <1>9, NodeKinds
<1>13. Heights(t, Q, k, Nil)
  BY <1>9, <1>10, <1>11, <1>12 DEF Heights
<1>14. Reds(t, Q, gp)
  <2> SUFFICES ASSUME NEW m \in Q \ {gp}, ~t.root[m] PROVE t.parent[m] \notin Q
    BY DEF Reds
  <2>1. m \in R /\ m \in Nodes(t) /\ t.parent[m] \in Inner(t) /\ t.side[m] \in Side
        /\ child(t, t.parent[m], t.side[m]) = m
    BY SMTT(60), <1>1, <1>2, <1>7, TreeFields DEF HasPlace
  <2>2. t.parent[m] # gp
    <3>1. t.side[m] = t.side[p] \/ t.side[m] = Other(t.side[p])
      BY <1>3, <2>1, Sides
    <3> QED
      BY <1>3, <1>7, <2>1, <3>1
  <2>3. m = n \/ t.parent[m] \notin R
    BY <2>1 DEF Reds
  <2> QED
    BY <1>7, <2>2, <2>3
<1> QED
  BY <1>3, <1>4, <1>5, <1>7, <1>13, <1>14

\* A rotation above two red nodes on the same side, with the colours swapped, leaves
\* no red node with a red parent.
LEMMA RotateReds ==
    ASSUME NEW t, NEW pos, NEW lim, Shaped(t, pos, lim),
           NEW y \in Inner(t), NEW l \in Side, NEW o \in Side, o = Other(l),
           NEW x \in Inner(t), x = child(t, y, l), NEW u \in Tree, Turned(t, u, y, l, o),
           NEW R, R \subseteq Inner(t), NEW b \in R, Reds(t, R, b),
           ~t.root[b], t.parent[b] = x, t.side[b] = l,
           x \in R, y \notin R, child(t, y, o) \notin R,
           NEW Q, Q = (R \ {x}) \union {y}
    PROVE  Reds(u, Q, Nil)
<1> DEFINE c == child(t, x, o)
<1>1. t \in Tree /\ Linked(t) /\ l # o /\ Inner(t) \subseteq Nodes(t)
      /\ Nodes(t) \subseteq Node \ {Nil}
  BY Sides, NodeKinds DEF Shaped
<1>2. IsChild(t, y, l) /\ IsChild(t, x, o) /\ ~t.root[x]
  BY <1>1 DEF Linked, IsChild
<1>3. c \notin R /\ c # b
  BY <1>1, <1>2 DEF Reds, IsChild
<1>4. SUFFICES ASSUME NEW m \in Q, ~u.root[m] PROVE u.parent[m] \notin Q
  BY DEF Reds
<1>5. m \in Node \ {Nil} /\ m # x /\ m # c /\ m \in Nodes(t)
  <2>1. x # y /\ c # y
    <3>1. PICK rank : Ranked(t, rank)
      BY WidthRanks
    <3>2. rank[x] < rank[y] /\ rank[c] < rank[x] /\ rank \in [Node -> Int]
      BY <3>1 DEF Ranked
    <3>3. x \in Node /\ y \in Node /\ c \in Node
      BY <1>1, <1>2 DEF IsChild
    <3> QED
      BY <3>2, <3>3
  <2> QED
    BY <1>1, <1>3, <2>1
<1>6. u.parent[m] = IF m = y THEN x ELSE t.parent[m]
  BY <1>5 DEF Turned
<1>7. CASE m = y
  BY <1>1, <1>5, <1>6, <1>7
<1>8. CASE m # y
  <2>1. m \in R /\ ~t.root[m]
    <3>1. u.root[m] = t.root[m]
      BY <1>5, <1>8 DEF Turned
    <3> QED
      BY <1>4, <1>8, <3>1
  <2>2. t.parent[m] \in Inner(t) /\ child(t, t.parent[m], t.side[m]) = m /\ t.side[m] \in Side
    BY <1>1, <1>5, <2>1, TreeFields DEF Linked, HasPlace
  <2>3. t.parent[m] # y
    <3>1. t.side[m] = l \/ t.side[m] = o
      BY <2>2, Sides
    <3> QED
      BY <1>5, <2>1, <2>2, <3>1
  <2>4. m = b \/ t.parent[m] \notin R
    BY <2>1 DEF Reds
  <2>5. x \notin Q
    BY <1>5, <1>7
  <2> QED
    BY <1>6, <1>8, <2>3, <2>4, <2>5
<1> QED
  BY <1>7, <1>8

\* A rotation between two red nodes turns the lower one up and to the outside.
LEMMA RotateInner ==
    ASSUME NEW t, NEW pos, NEW lim, Shaped(t, pos, lim),
           NEW y \in Inner(t), NEW l \in Side, NEW o \in Side, o = Other(l),
           NEW x \in Inner(t), x = child(t, y, l), NEW u \in Tree, Turned(t, u, y, l, o),
           NEW R, R \subseteq Inner(t), x \in R, y \in R, Reds(t, R, x), ~t.root[y]
    PROVE  Reds(u, R, y) /\ ~u.root[y] /\ ~u.root[x]
           /\ u.parent[y] = x /\ u.side[y] = o /\ u.parent[x] = t.parent[y]
           /\ u.side[x] = t.side[y]
<1> DEFINE c == child(t, x, o)
<1>1. t \in Tree /\ Linked(t) /\ l # o /\ Inner(t) \subseteq Nodes(t)
      /\ Nodes(t) \subseteq Node \ {Nil}
  BY Sides, NodeKinds DEF Shaped
<1>2. IsChild(t, y, l) /\ IsChild(t, x, o) /\ ~t.root[x] /\ t.parent[x] = y
  BY <1>1 DEF Linked, IsChild
<1>3. x # y /\ c # y /\ c # x
  <2>1. PICK rank : Ranked(t, rank)
    BY WidthRanks
  <2>2. rank[x] < rank[y] /\ rank[c] < rank[x] /\ rank \in [Node -> Int]
    BY <2>1 DEF Ranked
  <2>3. x \in Node /\ y \in Node /\ c \in Node
    BY <1>1, <1>2 DEF IsChild
  <2> QED
    BY <2>2, <2>3
<1>4. c \notin R
  BY <1>2, <1>3 DEF Reds, IsChild
<1>5. /\ u.parent[y] = x /\ u.side[y] = o /\ u.parent[x] = t.parent[y] /\ u.side[x] = t.side[y]
      /\ ~u.root[x] /\ ~u.root[y]
  BY <1>1, <1>3 DEF Turned
<1>6. t.parent[y] \notin R /\ t.parent[y] # y
  BY <1>3 DEF Reds
<1>7. ASSUME NEW m \in R \ {y}, ~u.root[m] PROVE u.parent[m] \notin R
  <2>1. CASE m = x
    BY <1>5, <1>6, <2>1
  <2>2. CASE m # x
    <3>1. u.parent[m] = t.parent[m] /\ u.root[m] = t.root[m]
      BY <1>1, <1>4, <1>7, <2>2 DEF Turned
    <3> QED
      BY <1>7, <2>2, <3>1 DEF Reds
  <2> QED
    BY <2>1, <2>2
<1> QED
  BY <1>5, <1>7 DEF Reds

\* Trees with the same nodes and the same list.
Arranged(t, u) ==
    /\ u.used = t.used /\ u.exited = t.exited /\ u.key = t.key
    /\ u.lext = t.lext /\ u.rext = t.rext /\ u.internal = t.internal
    /\ SameList(t, u)

\* u has the nodes and the list of t, and the stretches of its leaves.
Kept(t, u, pos, lim) ==
    /\ Arranged(t, u)
    /\ \E lims : Shaped(u, pos, lims) /\ \A n \in Leaves(t) : lims[n] = lim[n]

\* A tree that keeps what another one kept.
LEMMA KeptTwice ==
    ASSUME NEW t, NEW u, NEW v, NEW pos, NEW lim, NEW lims, Arranged(t, u),
           \A n \in Leaves(t) : lims[n] = lim[n], Kept(u, v, pos, lims)
    PROVE  Kept(t, v, pos, lim)
<1>1. Leaves(u) = Leaves(t) /\ Arranged(u, v)
  BY DEF Arranged, SameList, Kept
<1>2. Arranged(t, v)
  <2>1. SameList(t, v)
    BY <1>1 DEF Arranged, SameList
  <2> QED
    BY <1>1, <2>1 DEF Arranged
<1> QED
  BY <1>1, <1>2 DEF Kept

\* A rotation keeps the nodes, the list and the colours (jrb.c:351-394).
LEMMA RotateKept ==
    ASSUME NEW t, NEW pos, NEW lim, Shaped(t, pos, lim),
           NEW y \in Inner(t), NEW l \in Side, NEW o \in Side, o = Other(l),
           child(t, y, l) \in Inner(t)
    PROVE  LET u == single_rotate(t, y, l) IN
           u \in Tree /\ Turned(t, u, y, l, o) /\ Kept(t, u, pos, lim) /\ Red(u) = Red(t)
<1>1. PICK u : u = single_rotate(t, y, l)
  OBVIOUS
<1>2. PICK rank : Ranked(t, rank)
  BY WidthRanks
<1>3. u \in Tree /\ Turned(t, u, y, l, o)
  BY <1>1, <1>2, RotateTurns DEF Shaped
<1>4. SameBut(t, u) /\ SameList(t, u)
      /\ \E lims : Shaped(u, pos, lims) /\ \A n \in Leaves(t) : lims[n] = lim[n]
  BY <1>3, RotateShaped DEF Turned
<1>5. Kept(t, u, pos, lim) /\ Red(u) = Red(t)
  BY <1>4, SameNodes DEF Kept, Arranged, SameBut, Red
<1> QED
  BY <1>1, <1>3, <1>5

\* New colours keep the nodes and the list.
LEMMA RepaintedKept ==
    ASSUME NEW t, NEW pos, NEW lim, Shaped(t, pos, lim), NEW u, Repainted(t, u)
    PROVE  Kept(t, u, pos, lim)
  BY RepaintedShaped DEF Kept, Arranged, Repainted

\* The colours belong to trees with the same links.
LEMMA RepaintedColours ==
    ASSUME NEW t, NEW u, Repainted(t, u), NEW R, NEW h, NEW short, NEW n
    PROVE  /\ Heights(u, R, h, short) <=> Heights(t, R, h, short)
           /\ Reds(u, R, n) <=> Reds(t, R, n)
  BY RepaintedNodes DEF Heights, Reds, Repainted

\* What painting a node black or red does to the red nodes.
LEMMA RedFacts ==
    ASSUME NEW t \in Tree, NEW a \in Nodes(t)
    PROVE  /\ \A m \in Nodes(t) : m \in Red(t) <=> t.red[m]
           /\ Repainted(t, [t EXCEPT !.red[a] = FALSE])
           /\ Repainted(t, [t EXCEPT !.red[a] = TRUE])
           /\ Red([t EXCEPT !.red[a] = FALSE]) = Red(t) \ {a}
           /\ Red([t EXCEPT !.red[a] = TRUE]) = Red(t) \union {a}
<1>1. t.red \in [Node -> BOOLEAN] /\ a \in Node /\ Nodes(t) \subseteq Node
  BY TreeFields, NodeKinds
<1>2. ASSUME NEW b \in BOOLEAN, NEW u, u = [t EXCEPT !.red[a] = b]
      PROVE  Repainted(t, u) /\ Nodes(u) = Nodes(t) /\ u.red = [t.red EXCEPT ![a] = b]
  BY <1>1, <1>2 DEF Tree, Repainted, Nodes
<1>3. PICK u : u = [t EXCEPT !.red[a] = FALSE]
  OBVIOUS
<1>4. PICK v : v = [t EXCEPT !.red[a] = TRUE]
  OBVIOUS
<1>5. Repainted(t, u) /\ Repainted(t, v)
  BY <1>2, <1>3, <1>4
<1>6. Red(u) = Red(t) \ {a}
  <2>1. Nodes(u) = Nodes(t) /\ u.red = [t.red EXCEPT ![a] = FALSE]
    BY <1>2, <1>3
  <2> QED
    BY <1>1, <2>1 DEF Red
<1>7. Red(v) = Red(t) \union {a}
  <2>1. Nodes(v) = Nodes(t) /\ v.red = [t.red EXCEPT ![a] = TRUE]
    BY <1>2, <1>4
  <2> QED
    BY <1>1, <2>1 DEF Red
<1> QED
  BY <1>3, <1>4, <1>5, <1>6, <1>7 DEF Red

\* Painting one node.
LEMMA Blackened ==
    ASSUME NEW t \in Tree, NEW a \in Nodes(t), NEW u, u = [t EXCEPT !.red[a] = FALSE]
    PROVE  Repainted(t, u) /\ Red(u) = Red(t) \ {a} /\ u \in Tree /\ Nodes(u) = Nodes(t)
<1>1. Repainted(t, u) /\ Red(u) = Red(t) \ {a}
  BY RedFacts
<1> QED
  BY <1>1, RepaintedNodes DEF Repainted

\* What painting a node red does.
LEMMA Painted ==
    ASSUME NEW t \in Tree, NEW a \in Nodes(t), NEW u, u = [t EXCEPT !.red[a] = TRUE]
    PROVE  Repainted(t, u) /\ Red(u) = Red(t) \union {a} /\ u \in Tree /\ Nodes(u) = Nodes(t)
<1>1. Repainted(t, u) /\ Red(u) = Red(t) \union {a}
  BY RedFacts
<1> QED
  BY <1>1, RepaintedNodes DEF Repainted

\* The rotations that end an insertion leave no red node with a red parent.
LEMMA RotatedKeeps ==
    ASSUME NEW t, NEW pos, NEW lim, Shaped(t, pos, lim),
           NEW h, Heights(t, Red(t), h, Nil), NEW n \in Red(t), Reds(t, Red(t), n),
           NEW p, p = t.parent[n], p \in Red(t), ~t.root[n], ~t.root[p],
           sibling(t, p) \notin Red(t), t.parent[Nil] \notin Red(t)
    PROVE  LET u == Rotated(t, n) IN
           /\ Kept(t, u, pos, lim) /\ Heights(u, Red(u), h, Nil) /\ Reds(u, Red(u), Nil)
           /\ u.parent[Nil] \notin Red(u)
<1> DEFINE R == Red(t)
           gp == t.parent[p]
           l == t.side[p]
           o == Other(l)
<1>1. /\ t \in Tree /\ Linked(t) /\ R \subseteq Inner(t) /\ Inner(t) \subseteq Nodes(t)
      /\ Nodes(t) \subseteq Node \ {Nil}
  BY NodeKinds DEF Shaped, Heights
<1>2. /\ HasPlace(t, n) /\ HasPlace(t, p) /\ n \in Inner(t) /\ p \in Inner(t)
      /\ n \in Node /\ p \in Node
  BY <1>1 DEF Linked
<1>3. /\ gp \in Inner(t) /\ child(t, gp, l) = p /\ child(t, p, t.side[n]) = n
      /\ l \in Side /\ o \in Side /\ t.side[n] \in Side /\ Other(o) = l
      /\ child(t, gp, o) \notin R
  BY <1>1, <1>2, TreeFields, Sides DEF HasPlace, sibling
<1>4. PICK rank : Ranked(t, rank)
  BY WidthRanks
<1>5. /\ p # gp /\ n # p /\ n # gp
  <2>1. rank[p] < rank[gp] /\ rank[n] < rank[p] /\ rank \in [Node -> Int]
    BY <1>2, <1>3, <1>4 DEF Ranked
  <2> QED
    BY <1>1, <1>2, <1>3, <2>1
<1>6. gp \notin R
  BY <1>5 DEF Reds
<1> DEFINE inner == t.side[n] # t.side[p]
<1>t. PICK top : top = IF inner THEN n ELSE p
  OBVIOUS
<1>b. PICK b : b = IF inner THEN p ELSE n
  OBVIOUS
<1>f. PICK t1 : t1 = IF inner THEN single_rotate(t, p, t.side[n]) ELSE t
  OBVIOUS
<1>r. top \in R /\ b \in R
  BY <1>t, <1>b
<1> HIDE DEF gp, l, o, R
<1>7. /\ Kept(t, t1, pos, lim) /\ Heights(t1, R, h, Nil) /\ Reds(t1, R, b) /\ Red(t1) = R
      /\ t1.parent[b] = top /\ t1.parent[top] = gp /\ t1.side[b] = l /\ t1.side[top] = l
      /\ child(t1, gp, l) = top /\ child(t1, gp, o) = child(t, gp, o)
      /\ ~t1.root[b] /\ ~t1.root[top] /\ t1.parent[Nil] = t.parent[Nil]
      /\ t1.side[n] = l
  <2>1. CASE ~inner
    <3>1. Repainted(t, t)
      BY <1>1 DEF Repainted
    <3>2. Kept(t, t, pos, lim)
      BY <3>1, RepaintedKept
    <3>3. top = p /\ b = n /\ t1 = t /\ t.side[n] = l
      BY <1>t, <1>b, <1>f, <2>1 DEF l
    <3>4. Heights(t, R, h, Nil) /\ Reds(t, R, n) /\ Red(t) = R
      BY DEF R
    <3>5. t.parent[n] = p /\ t.parent[p] = gp /\ t.side[p] = l
      BY DEF gp, l
    <3> QED
      BY <1>3, <3>2, <3>3, <3>4, <3>5
  <2>2. CASE inner
    <3>1. t.side[n] = o /\ Other(o) = l
      BY <1>3, <2>2, Sides DEF l, o
    <3>2. PICK u : u = single_rotate(t, p, o)
      OBVIOUS
    <3>3. child(t, p, o) = n /\ child(t, p, o) \in Inner(t)
      BY <1>2, <1>3, <3>1
    <3>4. u \in Tree /\ Turned(t, u, p, o, l) /\ Kept(t, u, pos, lim) /\ Red(u) = R
      BY <1>2, <1>3, <3>2, <3>3, RotateKept DEF R, o, l
    <3>5. Heights(u, R, h, Nil)
      <4>1. n # Nil /\ p # Nil /\ l = Other(o) /\ Heights(t, R, h, Nil) /\ n \in R /\ p \in R
        BY <1>1, <1>2, <3>1 DEF R
      <4> QED
        BY <1>1, <1>2, <1>3, <3>3, <3>4, <4>1, RotateHeights
    <3>6. /\ Reds(u, R, p) /\ ~u.root[p] /\ ~u.root[n] /\ u.parent[p] = n /\ u.side[p] = l
          /\ u.parent[n] = gp /\ u.side[n] = l
      BY <1>1, <1>2, <1>3, <3>1, <3>3, <3>4, RotateInner DEF R, gp, l
    <3>7. /\ child(u, gp, l) = n /\ child(u, gp, o) = child(t, gp, o)
          /\ u.parent[Nil] = t.parent[Nil]
      <4>1. gp \in Node \ {n, p}
        BY <1>1, <1>3, <1>5
      <4>2. o # l
        BY <1>3, Sides
      <4>3. /\ \A s \in Side : child(u, gp, s) = IF ~t.root[p] /\ gp = t.parent[p] /\ s = t.side[p] THEN n
                                                 ELSE child(t, gp, s)
            /\ u.parent[Nil] = IF t.root[p] THEN n ELSE t.parent[Nil]
        BY <3>3, <3>4, <4>1 DEF Turned
      <4> QED
        BY <1>3, <4>2, <4>3 DEF gp, l
    <3>8. top = n /\ b = p /\ t1 = u
      BY <1>t, <1>b, <1>f, <2>2, <3>1, <3>2
    <3> QED
      BY <3>4, <3>5, <3>6, <3>7, <3>8
  <2> QED
    BY <2>1, <2>2
<1>8. PICK lim1 : Shaped(t1, pos, lim1) /\ \A m \in Leaves(t) : lim1[m] = lim[m]
  BY <1>7 DEF Kept
<1>9. /\ Arranged(t, t1) /\ Inner(t1) = Inner(t) /\ Leaves(t1) = Leaves(t)
      /\ Nodes(t1) = Nodes(t)
  <2>1. Arranged(t, t1)
    BY <1>7 DEF Kept
  <2> QED
    BY <2>1 DEF Arranged, SameList, Nodes
<1>10. PICK t2 : t2 = single_rotate(t1, gp, l)
  OBVIOUS
<1>11. top \in Inner(t1) /\ gp \in Inner(t1) /\ top # gp
  BY <1>1, <1>3, <1>6, <1>9, <1>r
<1>12. t2 \in Tree /\ Turned(t1, t2, gp, l, o) /\ Kept(t1, t2, pos, lim1) /\ Red(t2) = R
  <2>1. child(t1, gp, l) \in Inner(t1) /\ o = Other(l)
    BY <1>7, <1>11 DEF o
  <2> QED
    BY <1>3, <1>7, <1>8, <1>10, <1>11, <2>1, RotateKept
<1>13. PICK Q : Q = (R \ {top}) \union {gp}
  OBVIOUS
<1>14. Heights(t2, Q, h, Nil) /\ Reds(t2, Q, Nil)
  <2>1. /\ top = child(t1, gp, l) /\ o = Other(l) /\ l \in Side /\ o \in Side
        /\ gp \in Q /\ top \notin Q /\ gp \notin R /\ Q \subseteq Inner(t1)
        /\ top # Nil /\ gp # Nil
        /\ \A m \in Node \ {top, gp} : m \in Q <=> m \in R
    BY <1>1, <1>3, <1>6, <1>7, <1>9, <1>11, <1>13, <1>r DEF o
  <2>a. /\ Shaped(t1, pos, lim1) /\ gp \in Inner(t1) /\ top \in Inner(t1) /\ t2 \in Tree
        /\ Turned(t1, t2, gp, l, o) /\ Heights(t1, R, h, Nil) /\ top \in R
        /\ (top \in Q <=> gp \in R)
    BY <1>7, <1>8, <1>11, <1>12, <1>r, <2>1
  <2>2. Heights(t2, Q, h, Nil)
    BY <2>1, <2>a, RotateHeights
  <2>3. R \subseteq Inner(t1) /\ child(t1, gp, o) \notin R
    BY <1>1, <1>3, <1>7, <1>9
  <2>b. /\ b \in R /\ Reds(t1, R, b) /\ ~t1.root[b] /\ t1.parent[b] = top /\ t1.side[b] = l
    BY <1>7, <1>r
  <2>4. Reds(t2, Q, Nil)
    BY <1>13, <2>1, <2>3, <2>a, <2>b, RotateReds
  <2> QED
    BY <2>2, <2>4
<1>15. t2.parent[Nil] \notin Q
  <2>a. child(t1, gp, l) = top
    BY <1>7
  <2>1. t2.parent[Nil] = IF t1.root[gp] THEN top ELSE t1.parent[Nil]
    BY <1>12, <2>a DEF Turned
  <2>2. ~t1.root[gp] => t1.parent[Nil] # gp
    BY <1>8 DEF Shaped, Linked
  <2>3. t1.parent[Nil] \notin R
    BY <1>7 DEF R
  <2> QED
    BY <1>11, <1>13, <2>1, <2>2, <2>3
<1>16. PICK t3 : t3 = [t2 EXCEPT !.red[top] = FALSE]
  OBVIOUS
<1>17. PICK t4 : t4 = [t3 EXCEPT !.red[gp] = TRUE]
  OBVIOUS
<1>18. t4 = Rotated(t, n)
  <2>1. Rotated(t, n) = [t2 EXCEPT !.red[top] = FALSE, !.red[gp] = TRUE]
    <3>1. t.side[n] # t.side[p] <=> inner
      OBVIOUS
    <3>2. t1.side[n] = l
      BY <1>7
    <3> HIDE DEF inner
    <3> QED
      BY <1>t, <1>f, <1>10, <3>1, <3>2 DEF Rotated, gp
  <2> QED
    BY <1>16, <1>17, <2>1
<1>19. top \in Nodes(t2) /\ gp \in Nodes(t2)
  <2>1. Nodes(t2) = Nodes(t1)
    BY <1>12, SameNodes DEF Turned
  <2> QED
    BY <1>1, <1>3, <1>9, <1>r, <2>1
<1>20. Repainted(t2, t3) /\ Red(t3) = R \ {top}
  BY <1>12, <1>16, <1>19, RedFacts
<1>21. Repainted(t3, t4) /\ Red(t4) = Q
  <2>1. t3 \in Tree /\ gp \in Nodes(t3)
    BY <1>19, <1>20, RepaintedNodes DEF Repainted
  <2> QED
    BY <1>13, <1>17, <1>20, <2>1, RedFacts
<1>22. Repainted(t2, t4)
  BY <1>20, <1>21 DEF Repainted
<1>23. Heights(t4, Q, h, Nil) /\ Reds(t4, Q, Nil) /\ t4.parent[Nil] = t2.parent[Nil]
  BY <1>14, <1>22, RepaintedColours DEF Repainted
<1>24. Kept(t, t4, pos, lim)
  <2>1. PICK lim2 : Shaped(t2, pos, lim2) /\ \A m \in Leaves(t1) : lim2[m] = lim1[m]
    BY <1>12 DEF Kept
  <2>2. Kept(t2, t4, pos, lim2)
    BY <1>22, <2>1, RepaintedKept
  <2>3. Kept(t1, t4, pos, lim1)
    <3>1. Arranged(t1, t2)
      BY <1>12 DEF Kept
    <3> QED
      BY <2>1, <2>2, <3>1, KeptTwice
  <2> QED
    BY <1>8, <1>9, <2>3, KeptTwice
<1> QED
  BY <1>15, <1>18, <1>21, <1>23, <1>24

\* The root may be painted black: it is below no node.
LEMMA RootBlackened ==
    ASSUME NEW t \in Tree, Linked(t), NEW R, NEW h, NEW short, Heights(t, R, h, short)
    PROVE  Heights(t, R \ {t.parent[Nil]}, h, short)
<1>1. \A n \in Inner(t) : \A s \in Side : child(t, n, s) # t.parent[Nil]
  BY DEF Linked, IsChild
<1>2. \A n \in Inner(t) : \A s \in Side :
         child(t, n, s) \in R \ {t.parent[Nil]} <=> child(t, n, s) \in R
  BY <1>1
<1> QED
  BY <1>2 DEF Heights

\* Where the recolouring of t may be: some nodes have other colours, and only the node
\* it is at may be red below a red one.
Climbs(t) ==
    {at \in Place :
        /\ Repainted(t, at.tree) /\ at.node \in Red(at.tree)
        /\ \E k : Heights(t, Red(at.tree), k, Nil)
        /\ Reds(t, Red(at.tree), at.node)
        /\ t.parent[Nil] \in Red(at.tree) =>
              t.root[at.node] \/ t.parent[at.node] = t.parent[Nil]}

\* A turn of the loop of recolor goes up, and leaves it in order (jrb.c:329-333).
LEMMA ClimbsOn ==
    ASSUME NEW t, NEW pos, NEW lim, Shaped(t, pos, lim),
           NEW at \in Climbs(t), RedUncle(at.tree, at.node)
    PROVE  /\ Climbed(at) \in Climbs(t)
           /\ Width(lim)[Climbed(at).node] > Width(lim)[at.node]
<1> DEFINE u == at.tree
           n == at.node
           p == u.parent[n]
           gp == u.parent[p]
           q == sibling(u, p)
           R == Red(u)
<1>1. /\ t \in Tree /\ Linked(t) /\ Ranked(t, Width(lim)) /\ u \in Tree /\ n \in Node
      /\ Repainted(t, u) /\ n \in R
      /\ Reds(t, R, n)
  BY WidthRanks DEF Shaped, Climbs, Place
<1>2. PICK h : Heights(t, R, h, Nil)
  BY DEF Climbs
<1>3. /\ u.parent = t.parent /\ u.root = t.root /\ u.side = t.side /\ q = sibling(t, p)
      /\ Nodes(u) = Nodes(t) /\ Inner(u) = Inner(t)
  BY <1>1, RepaintedNodes DEF Repainted, sibling
<1>4. /\ Shaped(u, pos, lim) /\ Linked(u)
  BY <1>1, RepaintedShaped DEF Shaped
<1>5. ~u.root[n] /\ u.red[p] /\ ~u.root[p] /\ u.red[q]
  BY SMTT(60) DEF RedUncle
<1>6. p \in Nodes(u) /\ gp \in Nodes(u) /\ q \in Nodes(u)
  <2>1. n \in Nodes(u)
    BY <1>1 DEF Red
  <2>2. p \in Inner(u) /\ p \in Nodes(u)
    BY <1>1, <1>4, <1>5, <2>1, NodeKinds DEF Linked, HasPlace
  <2>3. gp \in Inner(u) /\ gp \in Nodes(u)
    BY <1>1, <1>4, <1>5, <2>2, NodeKinds DEF Linked, HasPlace
  <2>4. u.side[p] \in Side
    BY <1>1, <2>2, NodeKinds, TreeFields
  <2>5. IsChild(u, gp, Other(u.side[p]))
    BY <1>4, <2>3, <2>4, Sides DEF Linked
  <2> QED
    BY <2>2, <2>3, <2>5 DEF IsChild, sibling
<1>7. p \in R /\ q \in R
  BY <1>5, <1>6 DEF Red
<1>8. PICK Q : Q = (R \ {p, q}) \union {gp}
  OBVIOUS
<1>9. /\ gp \in Inner(t) /\ Width(lim)[gp] > Width(lim)[n]
      /\ (\E k : Heights(t, Q, k, Nil)) /\ Reds(t, Q, gp)
  BY <1>1, <1>2, <1>3, <1>5, <1>7, <1>8, ClimbColours
<1>10. gp # q
  <2>1. gp \notin R
    <3>1. p # n
      <4>1. n \in Nodes(t)
        BY <1>1, <1>3 DEF Red
      <4>2. child(t, p, t.side[n]) = n /\ t.side[n] \in Side /\ p \in Inner(t) /\ n \in Node
        BY <1>1, <1>3, <1>5, <4>1, TreeFields DEF Linked, HasPlace
      <4> QED
        BY <1>1, <4>2 DEF Ranked
    <3> QED
      BY <1>1, <1>3, <1>5, <1>7, <3>1 DEF Reds
  <2> QED
    BY <1>7, <2>1
<1>11. PICK a : a = [u EXCEPT !.red[p] = FALSE]
  OBVIOUS
<1>12. PICK b : b = [a EXCEPT !.red[gp] = TRUE]
  OBVIOUS
<1>13. PICK c : c = [b EXCEPT !.red[q] = FALSE]
  OBVIOUS
<1>14. Climbed(at) = [tree |-> c, node |-> gp]
  BY <1>11, <1>12, <1>13 DEF Climbed
<1> HIDE DEF u, n, p, gp, q, R
<1>15. Repainted(u, a) /\ Red(a) = R \ {p} /\ a \in Tree /\ Nodes(a) = Nodes(u)
  BY <1>1, <1>6, <1>11, Blackened DEF R
<1>16. Repainted(a, b) /\ Red(b) = (R \ {p}) \union {gp} /\ b \in Tree /\ Nodes(b) = Nodes(u)
  BY <1>6, <1>12, <1>15, Painted
<1>17. Repainted(b, c) /\ Red(c) = ((R \ {p}) \union {gp}) \ {q} /\ c \in Tree
  BY <1>6, <1>13, <1>16, Blackened
<1>18. Red(c) = Q
  BY <1>8, <1>10, <1>17
<1>19. Repainted(t, c)
  BY <1>1, <1>15, <1>16, <1>17 DEF Repainted
<1>20. t.parent[Nil] \in Q => t.root[gp]
  <2> SUFFICES ASSUME t.parent[Nil] \in Q PROVE t.root[gp]
    OBVIOUS
  <2>1. t.root[t.parent[Nil]]
    BY <1>1 DEF Linked
  <2>2. CASE t.parent[Nil] = gp
    BY <2>1, <2>2
  <2>3. CASE t.parent[Nil] \in R
    <3>1. t.root[n] \/ t.parent[n] = t.parent[Nil]
      BY <2>3 DEF Climbs, R, u, n
    <3> QED
      BY <1>3, <1>5, <2>1, <3>1 DEF p
  <2> QED
    BY <1>8, <2>2, <2>3
<1>21. PICK to : to = [tree |-> c, node |-> gp]
  OBVIOUS
<1>22. to.tree = c /\ to.node = gp /\ to \in Place
  <2>1. gp \in Node
    BY <1>1, <1>9, NodeKinds
  <2> QED
    BY <1>17, <1>21, <2>1 DEF Place
<1>23. to \in Climbs(t)
  <2>1. gp \in Q
    BY <1>8
  <2> QED
    BY <1>9, <1>18, <1>19, <1>20, <1>22, <2>1 DEF Climbs
<1> QED
  BY <1>9, <1>14, <1>21, <1>22, <1>23 DEF n

\* Recolouring and rotating above a new red node makes a red-black tree again.
THEOREM RecolorKeeps ==
    ASSUME NEW t, NEW pos, NEW lim, Shaped(t, pos, lim),
           NEW h, Heights(t, Red(t), h, Nil), NEW n \in Red(t), Reds(t, Red(t), n),
           t.parent[Nil] \in Red(t) => t.root[n] \/ t.parent[n] = t.parent[Nil]
    PROVE  LET u == recolor(t, n) IN
           /\ Kept(t, u, pos, lim) /\ Reds(u, Red(u), Nil) /\ u.parent[Nil] \notin Red(u)
           /\ \E k : Heights(u, Red(u), k, Nil)
<1>1. t \in Tree /\ Linked(t) /\ Ranked(t, Width(lim)) /\ n \in Node /\ Repainted(t, t)
  BY WidthRanks, NodeKinds DEF Shaped, Red, Repainted
<1> DEFINE f == [at \in Place |-> IF RedUncle(at.tree, at.node) THEN Climbed(at) ELSE at]
           start == [tree |-> t, node |-> n]
<1>2. start \in Climbs(t)
  <2>1. start \in Place /\ start.tree = t /\ start.node = n
    BY <1>1 DEF Place
  <2> HIDE DEF start
  <2> QED
    BY <1>1, <2>1 DEF Climbs
<1>3. \A at \in Climbs(t) :
         /\ at \in Place /\ at.node \in Node
         /\ f[at] = IF RedUncle(at.tree, at.node) THEN Climbed(at) ELSE at
  BY DEF Climbs, Place
<1> DEFINE v == [at \in Climbs(t) |-> at.node]
<1>4. /\ \A at \in Climbs(t) : f[at] \in Climbs(t) /\ v[at] = at.node
      /\ \A at \in Climbs(t) : f[at] # at => Width(lim)[v[f[at]]] > Width(lim)[v[at]]
      /\ v \in [Climbs(t) -> Node]
  <2> HIDE DEF f
  <2>1. ASSUME NEW at \in Climbs(t)
        PROVE  f[at] \in Climbs(t)
               /\ (f[at] # at => Width(lim)[f[at].node] > Width(lim)[at.node])
    <3>1. CASE RedUncle(at.tree, at.node)
      BY <1>3, <3>1, ClimbsOn
    <3>2. CASE ~RedUncle(at.tree, at.node)
      BY <1>3, <3>2
    <3> QED
      BY <3>1, <3>2
  <2> QED
    BY <1>3, <2>1
<1>5. PICK at \in Climbs(t) : at = Loop(f, start) /\ f[at] = at
  <2>1. IsFiniteSet(Node) /\ Cardinality(Node) <= Cardinality(Node) /\ Width(lim) \in [Node -> Int]
    <3>1. Cardinality(Node) \in Nat
      BY NodeAssumption, FS_CardinalityType
    <3> QED
      BY <1>1, <3>1, NodeAssumption DEF Ranked
  <2> HIDE DEF f, start, v
  <2> QED
    BY <1>2, <1>4, <2>1, LoopEnds
<1>6. ~RedUncle(at.tree, at.node)
  <2> SUFFICES ASSUME RedUncle(at.tree, at.node) PROVE FALSE
    OBVIOUS
  <2>1. Width(lim)[Climbed(at).node] > Width(lim)[at.node] /\ Climbed(at) = at
    BY <1>3, <1>5, ClimbsOn
  <2>2. Width(lim)[at.node] \in Int
    BY <1>1, <1>3 DEF Ranked
  <2> QED
    BY <2>1, <2>2
<1>7. PICK u, m : u = at.tree /\ m = at.node
  OBVIOUS
<1>8. recolor(t, n) =
         IF u.root[m] THEN [u EXCEPT !.red[m] = FALSE]
         ELSE IF ~u.red[u.parent[m]] THEN u
         ELSE IF u.root[u.parent[m]] THEN [u EXCEPT !.red[u.parent[m]] = FALSE]
         ELSE Rotated(u, m)
  BY <1>5, <1>7 DEF recolor
<1> HIDE DEF f, start, v
<1>9. PICK p, R : p = u.parent[m] /\ R = Red(u)
  OBVIOUS
<1>10. /\ Repainted(t, u) /\ m \in R /\ Reds(t, R, m)
       /\ t.parent[Nil] \in R => t.root[m] \/ t.parent[m] = t.parent[Nil]
  BY <1>7, <1>9 DEF Climbs
<1>11. PICK k : Heights(t, R, k, Nil)
  BY <1>5, <1>7, <1>9 DEF Climbs
<1>12. /\ Shaped(u, pos, lim) /\ u \in Tree /\ Linked(u) /\ Kept(t, u, pos, lim)
       /\ Nodes(u) = Nodes(t) /\ u.parent = t.parent /\ u.root = t.root
       /\ Leaves(u) = Leaves(t) /\ Arranged(t, u)
  BY <1>10, RepaintedKept, RepaintedShaped, RepaintedNodes DEF Repainted, Shaped, Kept
<1>13. m \in Nodes(u) /\ HasPlace(u, m) /\ u.parent[Nil] \in Nodes(u)
  BY <1>9, <1>10, <1>12 DEF Red, Linked
<1>14. ASSUME NEW a, a = u.parent[Nil], NEW w, w = [u EXCEPT !.red[a] = FALSE],
              Reds(t, R \ {a}, Nil)
       PROVE  /\ Kept(t, w, pos, lim) /\ Reds(w, Red(w), Nil) /\ w.parent[Nil] \notin Red(w)
              /\ \E i : Heights(w, Red(w), i, Nil)
  <2>1. Repainted(u, w) /\ Red(w) = R \ {a}
    BY <1>9, <1>12, <1>13, <1>14, RedFacts
  <2>2. Repainted(t, w) /\ w.parent[Nil] = a
    BY <1>10, <1>14, <2>1 DEF Repainted
  <2>3. Heights(t, R \ {a}, k, Nil)
    BY <1>1, <1>11, <1>12, <1>14, RootBlackened
  <2>4. Kept(t, w, pos, lim)
    BY <2>2, RepaintedKept
  <2>5. Heights(w, R \ {a}, k, Nil) /\ Reds(w, R \ {a}, Nil)
    BY <1>14, <2>2, <2>3, RepaintedColours
  <2> QED
    BY <2>1, <2>2, <2>4, <2>5
<1>15. CASE u.root[m]
  <2>1. m = u.parent[Nil]
    BY <1>13, <1>15 DEF HasPlace
  <2>2. Reds(t, R \ {m}, Nil)
    BY <1>10 DEF Reds
  <2> QED
    BY <1>8, <1>14, <1>15, <2>1, <2>2
<1>16. CASE ~u.root[m]
  <2>1. p \in Nodes(u) /\ HasPlace(u, p) /\ (p \in R <=> u.red[p])
    <3>1. p \in Nodes(u)
      BY <1>9, <1>12, <1>13, <1>16, NodeKinds DEF HasPlace
    <3> QED
      BY <1>9, <1>12, <3>1 DEF Linked, Red
  <2>2. CASE p \notin R
    <3>1. Reds(t, R, Nil) /\ t.parent[Nil] \notin R
      BY <1>9, <1>10, <1>12, <1>16, <2>2 DEF Reds
    <3>2. recolor(t, n) = u
      BY <1>8, <1>9, <1>16, <2>1, <2>2
    <3> QED
      BY <1>9, <1>10, <1>11, <1>12, <3>1, <3>2, RepaintedColours
  <2>3. CASE p \in R /\ u.root[p]
    <3>1. p = u.parent[Nil]
      BY <2>1, <2>3 DEF HasPlace
    <3>2. Reds(t, R \ {p}, Nil)
      BY <1>9, <1>10, <1>12 DEF Reds
    <3>3. recolor(t, n) = [u EXCEPT !.red[p] = FALSE]
      BY <1>8, <1>9, <1>16, <2>1, <2>3
    <3> QED
      BY <1>14, <3>1, <3>2, <3>3
  <2>4. CASE p \in R /\ ~u.root[p]
    <3>1. sibling(u, p) \notin R
      <4>1. ~u.red[sibling(u, p)]
        BY <1>6, <1>7, <1>9, <1>16, <2>1, <2>4 DEF RedUncle
      <4> QED
        BY <1>9, <4>1 DEF Red
    <3>2. u.parent[Nil] \notin R
      <4>1. u.root[u.parent[Nil]]
        BY <1>12 DEF Linked
      <4> QED
        BY <1>9, <1>10, <1>12, <1>16, <2>4, <4>1
    <3>3. Heights(u, Red(u), k, Nil) /\ Reds(u, Red(u), m) /\ m \in Red(u)
      BY <1>9, <1>10, <1>11, RepaintedColours
    <3>4. recolor(t, n) = Rotated(u, m)
      BY <1>8, <1>9, <1>16, <2>1, <2>4
    <3>5. PICK w : w = Rotated(u, m)
      OBVIOUS
    <3>6. /\ Kept(u, w, pos, lim) /\ Heights(w, Red(w), k, Nil) /\ Reds(w, Red(w), Nil)
          /\ w.parent[Nil] \notin Red(w)
      BY <1>9, <1>12, <1>16, <2>4, <3>1, <3>2, <3>3, <3>5, RotatedKeeps
    <3>7. Kept(t, w, pos, lim)
      BY <1>12, <3>6, KeptTwice
    <3> QED
      BY <3>4, <3>5, <3>6, <3>7
  <2> QED
    BY <2>2, <2>3, <2>4
<1> QED
  BY <1>15, <1>16

-----------------------------------------------------------------------------
(* Insertion: a new leaf beside an old one, below a new internal node *)

\* The leaf n remembers on a side.
ext(t, n, s) == IF s = Left THEN t.lext[n] ELSE t.rext[n]

\* i takes the place of the leaf old, with old and, on its side b, the leaf new.
Grown(t, g, new, i, old, b, k) ==
    LET o == Other(b)
        far == beside(t, old, b)
    IN  /\ g \in Tree /\ g.used = t.used \union {new, i} /\ g.exited = t.exited
        /\ Leaves(g) = Leaves(t) \union {new} /\ Inner(g) = Inner(t) \union {i}
        /\ Red(g) = Red(t) \union {i}
        /\ g.key[new] = k /\ \A m \in Leaves(t) : g.key[m] = t.key[m]
        /\ ext(g, i, b) = new /\ ext(g, i, o) = old
        /\ \A m \in Inner(t) : \A s \in Side : ext(g, m, s) = ext(t, m, s)
        /\ child(g, i, b) = new /\ child(g, i, o) = old
        /\ \A m \in Inner(t) : \A s \in Side :
              child(g, m, s) = IF ~t.root[old] /\ m = t.parent[old] /\ s = t.side[old] THEN i
                               ELSE child(t, m, s)
        /\ g.parent[new] = i /\ g.parent[old] = i /\ g.parent[i] = t.parent[old]
        /\ g.parent[Nil] = IF t.root[old] THEN i ELSE t.parent[Nil]
        /\ \A m \in Nodes(t) \ {old} : g.parent[m] = t.parent[m] /\ g.side[m] = t.side[m]
                                       /\ g.root[m] = t.root[m]
        /\ g.side[new] = b /\ g.side[old] = o /\ (~t.root[old] => g.side[i] = t.side[old])
        /\ ~g.root[new] /\ ~g.root[old] /\ g.root[i] = t.root[old]
        /\ beside(g, new, o) = old /\ beside(g, new, b) = far
        /\ beside(g, old, b) = new /\ beside(g, far, o) = new
        /\ \A m \in Leaves(t) \union {Nil} : \A s \in Side :
              ~(m = old /\ s = b) /\ ~(m = far /\ s = o) => beside(g, m, s) = beside(t, m, s)

\* What is left alone when only pointers change.
SameRest(t, u) ==
    /\ u.used = t.used /\ u.exited = t.exited /\ u.key = t.key /\ u.internal = t.internal
    /\ u.lext = t.lext /\ u.rext = t.rext /\ u.red = t.red

\* Updates of one or two fields.
Linking(t, a, b, c, d) == [t EXCEPT !.blink[a] = b, !.flink[c] = d]
\* The steps of an insertion: a leaf that is the root no more, and the leaves remembered.
Unrooted(t, a) == [t EXCEPT !.root[a] = FALSE]
Between(t, a, b, c) == [t EXCEPT !.lext[a] = b, !.rext[a] = c]

\* What two new links in the list change.
LEMMA LinkFacts ==
    ASSUME NEW t \in Tree, NEW a \in Node, NEW b \in Node, NEW c \in Node, NEW d \in Node,
           NEW u, u = Linking(t, a, b, c, d)
    PROVE  /\ u \in Tree /\ SameRest(t, u)
           /\ u.parent = t.parent /\ u.side = t.side /\ u.root = t.root
           /\ u.blink = [t.blink EXCEPT ![a] = b] /\ u.flink = [t.flink EXCEPT ![c] = d]
  BY DEF Tree, SameRest, Linking

\* What clearing the mark of the root changes.
LEMMA UnrootFacts ==
    ASSUME NEW t \in Tree, NEW a \in Node, NEW u, u = Unrooted(t, a)
    PROVE  /\ u \in Tree /\ SameRest(t, u)
           /\ u.parent = t.parent /\ u.side = t.side
           /\ u.blink = t.blink /\ u.flink = t.flink
           /\ u.root = [t.root EXCEPT ![a] = FALSE]
  BY DEF Tree, SameRest, Unrooted

\* What remembering two leaves changes.
LEMMA ExtFacts ==
    ASSUME NEW t \in Tree, NEW a \in Node, NEW b \in Node, NEW c \in Node,
           NEW u, u = Between(t, a, b, c)
    PROVE  /\ u \in Tree /\ u.used = t.used /\ u.exited = t.exited
           /\ u.flink = t.flink /\ u.blink = t.blink /\ u.parent = t.parent /\ u.side = t.side
           /\ u.key = t.key /\ u.internal = t.internal /\ u.red = t.red /\ u.root = t.root
           /\ u.lext = [t.lext EXCEPT ![a] = b] /\ u.rext = [t.rext EXCEPT ![a] = c]
  BY DEF Tree, Between

\* What inserting an item into the list changes (jrb.c:43-53).
LEMMA InsertFacts ==
    ASSUME NEW t \in Tree, NEW item \in Node, NEW n \in Node, NEW last, last = t.blink[n],
           item # n, item # last, NEW u, u = insert(t, item, n)
    PROVE  /\ u \in Tree /\ SameRest(t, u)
           /\ u.parent = t.parent /\ u.side = t.side /\ u.root = t.root
           /\ \A m \in Node :
                 /\ u.blink[m] = IF m = item THEN last ELSE IF m = n THEN item ELSE t.blink[m]
                 /\ u.flink[m] = IF m = item THEN n ELSE IF m = last THEN item ELSE t.flink[m]
<1>1. last \in Node
  BY TreeFields
<1>2. PICK v : v = Linking(t, n, item, last, item)
  OBVIOUS
<1>3. u = Linking(v, item, last, item, n)
  BY <1>2 DEF insert, Linking
<1>5. /\ v \in Tree /\ SameRest(t, v)
      /\ v.parent = t.parent /\ v.side = t.side /\ v.root = t.root
      /\ v.blink = [t.blink EXCEPT ![n] = item] /\ v.flink = [t.flink EXCEPT ![last] = item]
  BY <1>1, <1>2, LinkFacts
<1>8. v \in Tree
  BY <1>5
<1>6. /\ u \in Tree /\ SameRest(v, u)
      /\ u.parent = v.parent /\ u.side = v.side /\ u.root = v.root
      /\ u.blink = [v.blink EXCEPT ![item] = last] /\ u.flink = [v.flink EXCEPT ![item] = n]
  BY <1>1, <1>3, <1>8, LinkFacts
<1>4. t.blink \in [Node -> Node] /\ t.flink \in [Node -> Node]
  BY TreeFields
<1>7. SameRest(t, u)
  BY <1>5, <1>6 DEF SameRest
<1> QED
  BY <1>1, <1>4, <1>5, <1>6, <1>7

\* What a new external node changes (jrb.c:61-68).
LEMMA NewExtFacts ==
    ASSUME NEW t \in Tree, NEW new \in Node, NEW k \in Int, NEW u, u = mk_new_ext(t, new, k)
    PROVE  /\ u \in Tree /\ u.used = t.used \union {new} /\ u.exited = t.exited
           /\ u.flink = t.flink /\ u.blink = t.blink /\ u.parent = t.parent /\ u.side = t.side
           /\ u.lext = t.lext /\ u.rext = t.rext
           /\ u.key[new] = k /\ ~u.internal[new] /\ ~u.red[new] /\ ~u.root[new]
           /\ \A m \in Node \ {new} : /\ u.key[m] = t.key[m] /\ u.internal[m] = t.internal[m]
                                      /\ u.red[m] = t.red[m] /\ u.root[m] = t.root[m]
<1>1. PICK v : v = [t EXCEPT !.used = t.used \union {new}, !.key[new] = k]
  OBVIOUS
<1>4. PICK w : w = [v EXCEPT !.internal[new] = FALSE, !.red[new] = FALSE]
  OBVIOUS
<1>5. u = Unrooted(w, new)
  BY <1>1, <1>4 DEF mk_new_ext, Unrooted
<1>6. /\ v \in Tree /\ v.used = t.used \union {new} /\ v.exited = t.exited
      /\ v.flink = t.flink /\ v.blink = t.blink /\ v.parent = t.parent /\ v.side = t.side
      /\ v.lext = t.lext /\ v.rext = t.rext /\ v.root = t.root /\ v.internal = t.internal
      /\ v.red = t.red /\ v.key = [t.key EXCEPT ![new] = k]
  BY <1>1 DEF Tree
<1>7. /\ w \in Tree /\ w.used = v.used /\ w.exited = v.exited
      /\ w.flink = v.flink /\ w.blink = v.blink /\ w.parent = v.parent /\ w.side = v.side
      /\ w.lext = v.lext /\ w.rext = v.rext /\ w.root = v.root /\ w.key = v.key
      /\ w.internal = [v.internal EXCEPT ![new] = FALSE]
      /\ w.red = [v.red EXCEPT ![new] = FALSE]
  BY <1>4, <1>6 DEF Tree
<1>8. w \in Tree
  BY <1>7
<1>2. /\ u \in Tree /\ u.used = w.used /\ u.exited = w.exited
      /\ u.flink = w.flink /\ u.blink = w.blink /\ u.parent = w.parent /\ u.side = w.side
      /\ u.lext = w.lext /\ u.rext = w.rext /\ u.key = w.key
      /\ u.internal = w.internal /\ u.red = w.red
      /\ u.root = [w.root EXCEPT ![new] = FALSE]
  BY <1>5, <1>8, UnrootFacts DEF SameRest
<1>3. /\ t.key \in [Node -> Int] /\ t.internal \in [Node -> BOOLEAN]
      /\ t.red \in [Node -> BOOLEAN] /\ t.root \in [Node -> BOOLEAN]
  BY TreeFields
<1> QED
  BY <1>2, <1>3, <1>6, <1>7

\* The new internal node before it has children or a parent.
Made(t, i, l, r) ==
    [t EXCEPT !.used = @ \union {i}, !.internal[i] = TRUE, !.red[i] = TRUE,
              !.root[i] = FALSE, !.lext[i] = l, !.rext[i] = r]

\* u is t with the new internal node i.
IsMade(t, u, i, l, r) ==
    /\ u \in Tree /\ u.used = t.used \union {i} /\ u.exited = t.exited
    /\ u.flink = t.flink /\ u.blink = t.blink /\ u.parent = t.parent /\ u.side = t.side
    /\ u.key = t.key
    /\ u.internal[i] /\ u.red[i] /\ ~u.root[i] /\ u.lext[i] = l /\ u.rext[i] = r
    /\ \A m \in Node \ {i} : /\ u.lext[m] = t.lext[m] /\ u.rext[m] = t.rext[m]
                             /\ u.internal[m] = t.internal[m]
                             /\ u.red[m] = t.red[m] /\ u.root[m] = t.root[m]

\* What a new internal node changes (jrb.c:74-80).
LEMMA MadeFacts ==
    ASSUME NEW t \in Tree, NEW i \in Node, NEW l \in Node, NEW r \in Node,
           NEW u, u = Made(t, i, l, r)
    PROVE  IsMade(t, u, i, l, r)
<1>1. PICK v : v = [t EXCEPT !.used = t.used \union {i}, !.internal[i] = TRUE]
  OBVIOUS
<1>2. PICK w : w = [v EXCEPT !.red[i] = TRUE, !.root[i] = FALSE]
  OBVIOUS
<1>3. u = Between(w, i, l, r)
  BY <1>1, <1>2 DEF Made, Between
<1>4. /\ v \in Tree /\ v.used = t.used \union {i} /\ v.exited = t.exited
      /\ v.flink = t.flink /\ v.blink = t.blink /\ v.parent = t.parent /\ v.side = t.side
      /\ v.key = t.key /\ v.lext = t.lext /\ v.rext = t.rext /\ v.root = t.root
      /\ v.red = t.red /\ v.internal = [t.internal EXCEPT ![i] = TRUE]
  BY <1>1 DEF Tree
<1>5. /\ w \in Tree /\ w.used = v.used /\ w.exited = v.exited
      /\ w.flink = v.flink /\ w.blink = v.blink /\ w.parent = v.parent /\ w.side = v.side
      /\ w.key = v.key /\ w.lext = v.lext /\ w.rext = v.rext /\ w.internal = v.internal
      /\ w.red = [v.red EXCEPT ![i] = TRUE] /\ w.root = [v.root EXCEPT ![i] = FALSE]
  BY <1>2, <1>4 DEF Tree
<1>8. w \in Tree
  BY <1>5
<1>6. /\ u \in Tree /\ u.used = w.used /\ u.exited = w.exited
      /\ u.flink = w.flink /\ u.blink = w.blink /\ u.parent = w.parent /\ u.side = w.side
      /\ u.key = w.key /\ u.internal = w.internal /\ u.red = w.red /\ u.root = w.root
      /\ u.lext = [w.lext EXCEPT ![i] = l] /\ u.rext = [w.rext EXCEPT ![i] = r]
  BY <1>3, <1>8, ExtFacts
<1>7. /\ t.lext \in [Node -> Node] /\ t.rext \in [Node -> Node] /\ t.root \in [Node -> BOOLEAN]
      /\ t.red \in [Node -> BOOLEAN] /\ t.internal \in [Node -> BOOLEAN]
  BY TreeFields
<1> QED
  BY <1>4, <1>5, <1>6, <1>7 DEF IsMade

\* The new leaf goes before n in the list, which is beside old.
LEMMA GrownList ==
    ASSUME NEW t \in Tree, Linked(t), NEW pos, Listed(t, pos), NEW n \in Leaves(t) \union {Nil},
           NEW old, old = IF n = Nil THEN t.blink[n] ELSE n,
           NEW b, b = IF n = Nil THEN Right ELSE Left, old # Nil,
           NEW new \in Node, new \notin t.used, NEW k \in Int,
           NEW a, a = mk_new_ext(t, new, k), NEW c, c = insert(a, new, n)
    PROVE  LET o == Other(b)
               far == beside(t, old, b)
           IN  /\ c \in Tree /\ SameRest(a, c) /\ a \in Tree
               /\ c.parent = t.parent /\ c.side = t.side /\ c.root = a.root
               /\ old \in Leaves(t) /\ far \in Leaves(t) \union {Nil} /\ far # old
               /\ beside(t, far, o) = old
               /\ beside(c, new, o) = old /\ beside(c, new, b) = far
               /\ beside(c, old, b) = new /\ beside(c, far, o) = new
               /\ \A m \in Node \ {new} : \A s \in Side :
                     ~(m = old /\ s = b) /\ ~(m = far /\ s = o) => beside(c, m, s) = beside(t, m, s)
<1> DEFINE o == Other(b)
           far == beside(t, old, b)
           last == t.blink[n]
<1>1. /\ Nil \in Node /\ Leaves(t) \subseteq Node \ {Nil} /\ b \in Side
      /\ n \in Node /\ last \in Node /\ t.used \subseteq Node
  BY NodeAssumption, NodeKinds, TreeFields, Sides
<1>2. \A m : /\ beside(t, m, Left) = t.blink[m] /\ beside(t, m, Right) = t.flink[m]
             /\ beside(c, m, Left) = c.blink[m] /\ beside(c, m, Right) = c.flink[m]
  BY Sides DEF beside, child, Other
<1>3. /\ last \in Leaves(t) \union {Nil} /\ t.flink[last] = n
      /\ old \in Leaves(t)
      /\ far \in Leaves(t) \union {Nil} /\ beside(t, far, o) = old
  <2>1. /\ beside(t, n, Left) \in Leaves(t) \union {Nil}
        /\ beside(t, beside(t, n, Left), Other(Left)) = n
    BY Sides DEF Listed
  <2>2. last \in Leaves(t) \union {Nil} /\ t.flink[last] = n
    BY <1>2, <2>1 DEF Other
  <2>3. old \in Leaves(t)
    BY <2>2
  <2>4. far \in Leaves(t) \union {Nil} /\ beside(t, far, o) = old
    BY <1>1, <2>3 DEF Listed
  <2> QED
    BY <2>2, <2>3, <2>4
<1>4. far # old
  <2> SUFFICES ASSUME far = old PROVE FALSE
    OBVIOUS
  <2>1. Beyond(b, pos[old], pos[old])
    BY <1>1, <1>3 DEF Listed
  <2>2. pos[old] \in Int
    BY <1>1, <1>3 DEF Listed
  <2> QED
    BY <1>1, <2>1, <2>2, Sides DEF Beyond
<1>5. new # n /\ new # last /\ new # old /\ new # far
  <2>1. \A m \in Leaves(t) \union {Nil} : m \in t.used
    BY DEF Leaves, Linked
  <2> QED
    BY <1>3, <2>1
<1> HIDE DEF o, far, last
<1>6. /\ a \in Tree /\ a.flink = t.flink /\ a.blink = t.blink /\ a.parent = t.parent
      /\ a.side = t.side /\ last = a.blink[n]
  BY NewExtFacts DEF last
<1>7. /\ c \in Tree /\ SameRest(a, c)
      /\ c.parent = t.parent /\ c.side = t.side /\ c.root = a.root
      /\ \A m \in Node :
            /\ c.blink[m] = IF m = new THEN last ELSE IF m = n THEN new ELSE t.blink[m]
            /\ c.flink[m] = IF m = new THEN n ELSE IF m = last THEN new ELSE t.flink[m]
  BY <1>1, <1>5, <1>6, InsertFacts
<1>8. CASE n = Nil
  <2>1. b = Right /\ o = Left /\ old = last /\ far = n
    BY <1>2, <1>3, <1>8, Sides DEF o, far, last, Other
  <2>2. /\ beside(c, new, o) = old /\ beside(c, new, b) = far
        /\ beside(c, old, b) = new /\ beside(c, far, o) = new
    BY <1>1, <1>2, <1>5, <1>7, <2>1
  <2>3. ASSUME NEW m \in Node \ {new}, NEW s \in Side, ~(m = old /\ s = b), ~(m = far /\ s = o)
        PROVE  beside(c, m, s) = beside(t, m, s)
    BY <1>2, <1>7, <2>1, <2>3, Sides
  <2> QED
    BY <1>3, <1>4, <1>6, <1>7, <2>2, <2>3 DEF o, far
<1>9. CASE n # Nil
  <2>1. b = Left /\ o = Right /\ old = n /\ far = last
    BY <1>2, <1>9 DEF o, far, last, Other
  <2>2. /\ beside(c, new, o) = old /\ beside(c, new, b) = far
        /\ beside(c, old, b) = new /\ beside(c, far, o) = new
    BY <1>1, <1>2, <1>5, <1>7, <2>1
  <2>3. ASSUME NEW m \in Node \ {new}, NEW s \in Side, ~(m = old /\ s = b), ~(m = far /\ s = o)
        PROVE  beside(c, m, s) = beside(t, m, s)
    BY <1>2, <1>7, <2>1, <2>3, Sides
  <2> QED
    BY <1>3, <1>4, <1>6, <1>7, <2>2, <2>3 DEF o, far
<1> QED
  BY <1>8, <1>9

\* The trees between t and g when new is inserted before n, and i made for it.
Before(t, n, new, old, b, l, r) ==
    IF n = Nil THEN old = t.blink[n] /\ b = Right /\ l = old /\ r = new
    ELSE old = n /\ b = Left /\ l = new /\ r = old
\* The trees on the way from t to g.
Growth(t, n, new, k, i, old, l, r, a, c, d, e, f, g) ==
    /\ a = mk_new_ext(t, new, k)
    /\ c = insert(a, new, n)
    /\ d = Unrooted(c, old)
    /\ e = Made(d, i, l, r)
    /\ f = Hang(Hang(e, i, Left, l), i, Right, r)
    /\ g = IF t.parent[old] = Nil THEN Plant(f, i) ELSE Hang(f, t.parent[old], t.side[old], i)

\* What an insertion does to the links before it recolours (jrb.c:43-98, 283-292).
LEMMA GrownFacts ==
    ASSUME NEW t, NEW pos, NEW lim, Shaped(t, pos, lim), NEW n \in Leaves(t) \union {Nil},
           NEW old, NEW b, NEW l, NEW r, old # Nil, NEW k \in Int,
           NEW new \in Node, new \notin t.used, NEW i \in Node, i \notin t.used, i # new,
           Before(t, n, new, old, b, l, r),
           NEW a, NEW c, NEW d, NEW e, NEW f, NEW g,
           Growth(t, n, new, k, i, old, l, r, a, c, d, e, f, g)
    PROVE  Grown(t, g, new, i, old, b, k)
<1> DEFINE o == Other(b)
           far == beside(t, old, b)
           q == t.parent[old]
<1>1. t \in Tree /\ Linked(t) /\ Listed(t, pos)
  BY DEF Shaped
<1>a. a = mk_new_ext(t, new, k) /\ c = insert(a, new, n)
  BY DEF Growth
<1>d. d = Unrooted(c, old)
  BY DEF Growth
<1>e. e = Made(d, i, l, r)
  BY DEF Growth
<1>f. f = Hang(Hang(e, i, Left, l), i, Right, r)
  BY DEF Growth
<1>b. /\ old = (IF n = Nil THEN t.blink[n] ELSE n) /\ b = (IF n = Nil THEN Right ELSE Left)
      /\ l = (IF n = Nil THEN old ELSE new) /\ r = (IF n = Nil THEN new ELSE old)
  BY DEF Before
<1>2. /\ c \in Tree /\ SameRest(a, c) /\ a \in Tree
      /\ c.parent = t.parent /\ c.side = t.side /\ c.root = a.root
      /\ old \in Leaves(t) /\ far \in Leaves(t) \union {Nil} /\ far # old
      /\ beside(c, new, o) = old /\ beside(c, new, b) = far
      /\ beside(c, old, b) = new /\ beside(c, far, o) = new
      /\ \A m \in Node \ {new} : \A s \in Side :
            ~(m = old /\ s = b) /\ ~(m = far /\ s = o) => beside(c, m, s) = beside(t, m, s)
  BY <1>1, <1>a, <1>b, GrownList
<1>3. /\ Nil \in t.used /\ old \in Nodes(t) /\ t.used \subseteq Node /\ Nil \in Node
      /\ new # Nil /\ i # Nil /\ old # new /\ old # i /\ old # Nil /\ old \in Node
      /\ b \in Side /\ o \in Side /\ b # o /\ \A s \in Side : s = b \/ s = o
      /\ Nodes(t) = Inner(t) \union Leaves(t) /\ Nodes(t) \subseteq Node \ {Nil, new, i}
      /\ Leaves(t) \intersect Inner(t) = {} /\ far \in Node
  BY <1>1, <1>2, <1>b, TreeFields, NodeKinds, Sides DEF Linked, Nodes
<1>4. /\ t.root[old] => q = Nil /\ t.parent[Nil] = old
      /\ ~t.root[old] => q \in Inner(t) /\ q # Nil /\ t.side[old] \in Side
                         /\ child(t, q, t.side[old]) = old
  BY <1>1, <1>3, TreeFields DEF Linked, HasPlace, Inner
<1> HIDE DEF o, far, q
<1>g. g = IF q = Nil THEN Plant(f, i) ELSE Hang(f, q, t.side[old], i)
  BY DEF Growth, q
<1>5. l \in Node /\ r \in Node /\ l # r /\ {l, r} = {new, old}
      /\ (b = Left => l = new /\ r = old) /\ (b = Right => l = old /\ r = new)
  BY <1>3, <1>b, Sides
<1>6. /\ a.used = t.used \union {new} /\ a.exited = t.exited
      /\ a.lext = t.lext /\ a.rext = t.rext
      /\ a.key[new] = k /\ ~a.internal[new] /\ ~a.red[new] /\ ~a.root[new]
      /\ \A m \in Node \ {new} : /\ a.key[m] = t.key[m] /\ a.internal[m] = t.internal[m]
                                 /\ a.red[m] = t.red[m] /\ a.root[m] = t.root[m]
  BY <1>1, <1>a, NewExtFacts
<1>7. /\ d \in Tree /\ SameRest(c, d) /\ d.parent = c.parent /\ d.side = c.side
      /\ d.blink = c.blink /\ d.flink = c.flink /\ d.root = [c.root EXCEPT ![old] = FALSE]
  BY SMTT(60), <1>2, <1>3, <1>d, UnrootFacts
<1>8. /\ e \in Tree /\ e.used = d.used \union {i} /\ e.exited = d.exited
      /\ e.flink = d.flink /\ e.blink = d.blink /\ e.parent = d.parent /\ e.side = d.side
      /\ e.key = d.key
      /\ e.internal[i] /\ e.red[i] /\ ~e.root[i] /\ e.lext[i] = l /\ e.rext[i] = r
      /\ \A m \in Node \ {i} : /\ e.lext[m] = d.lext[m] /\ e.rext[m] = d.rext[m]
                               /\ e.internal[m] = d.internal[m]
                               /\ e.red[m] = d.red[m] /\ e.root[m] = d.root[m]
  <2>1. d \in Tree /\ l \in Node /\ r \in Node
    BY <1>5, <1>7
  <2>2. IsMade(d, e, i, l, r)
    BY <1>e, <2>1, MadeFacts
  <2> QED
    BY <2>2 DEF IsMade
<1>9. /\ e.used = t.used \union {new, i} /\ e.exited = t.exited
      /\ e.key[new] = k /\ \A m \in Node \ {new} : e.key[m] = t.key[m]
      /\ \A m \in Node \ {i} : e.lext[m] = t.lext[m] /\ e.rext[m] = t.rext[m]
      /\ ~e.internal[new] /\ ~e.red[new]
      /\ \A m \in Node \ {new, i} : e.internal[m] = t.internal[m] /\ e.red[m] = t.red[m]
  <2>1. /\ d.used = a.used /\ d.exited = a.exited /\ d.key = a.key /\ d.internal = a.internal
        /\ d.lext = a.lext /\ d.rext = a.rext /\ d.red = a.red
    BY <1>2, <1>7 DEF SameRest
  <2>2. e.used = t.used \union {new, i} /\ e.exited = t.exited /\ e.key = a.key
    BY <1>6, <1>8, <2>1
  <2>3. \A m \in Node \ {i} : e.lext[m] = t.lext[m] /\ e.rext[m] = t.rext[m]
    BY <1>6, <1>8, <2>1
  <2>4. \A m \in Node \ {i} : e.internal[m] = a.internal[m] /\ e.red[m] = a.red[m]
    BY <1>8, <2>1
  <2>5. ~e.internal[new] /\ ~e.red[new]
    BY <1>6, <2>4
  <2>6. \A m \in Node \ {new, i} : e.internal[m] = t.internal[m] /\ e.red[m] = t.red[m]
    BY <1>6, <2>4
  <2> QED
    BY <1>6, <2>2, <2>3, <2>5, <2>6
<1>10. /\ ~e.root[old] /\ ~e.root[new] /\ ~e.root[i]
       /\ \A m \in Node \ {new, i, old} : e.root[m] = t.root[m]
  <2>1. c.root \in [Node -> BOOLEAN]
    BY <1>2, TreeFields
  <2>2. \A m \in Node \ {i} : e.root[m] = d.root[m]
    BY <1>8
  <2>3. ~d.root[old] /\ \A m \in Node \ {old} : d.root[m] = a.root[m]
    BY <1>2, <1>3, <1>7, <2>1
  <2>4. ~e.root[i] /\ ~a.root[new] /\ \A m \in Node \ {new} : a.root[m] = t.root[m]
    BY <1>6, <1>8
  <2> QED
    BY <1>3, <2>2, <2>3, <2>4
<1>11. /\ e.parent = t.parent /\ e.side = t.side
       /\ \A m, s : child(e, m, s) = child(c, m, s)
  BY <1>2, <1>7, <1>8 DEF child
<1>12. PICK w : w = Hang(e, i, Left, l)
  OBVIOUS
<1>13. Hung(e, w, i, Left, l) /\ w \in Tree
  <2>1. Hung(e, w, i, Left, l)
    BY <1>5, <1>8, <1>12, HangFacts, Sides
  <2> QED
    BY <2>1 DEF Hung
<1>14. Hung(w, f, i, Right, r) /\ f \in Tree
  <2>1. Hung(w, f, i, Right, r)
    BY <1>5, <1>12, <1>13, <1>f, HangFacts, Sides
  <2> QED
    BY <2>1 DEF Hung
<1>15. /\ SameBut(e, f) /\ f.root = e.root
       /\ child(f, i, Left) = l /\ child(f, i, Right) = r
       /\ \A m \in Node \ {i} : \A s \in Side : child(f, m, s) = child(c, m, s)
       /\ f.parent[l] = i /\ f.parent[r] = i /\ f.side[l] = Left /\ f.side[r] = Right
       /\ \A m \in Node \ {l, r} : f.parent[m] = t.parent[m] /\ f.side[m] = t.side[m]
  BY <1>5, <1>11, <1>13, <1>14, Sides DEF Hung, SameBut
<1>16. /\ child(f, i, b) = new /\ child(f, i, o) = old
       /\ f.parent[new] = i /\ f.parent[old] = i /\ f.side[new] = b /\ f.side[old] = o
       /\ \A m \in Node \ {new, old} : f.parent[m] = t.parent[m] /\ f.side[m] = t.side[m]
  BY <1>3, <1>5, <1>15, Sides DEF Other, o
<1>17. /\ g \in Tree /\ SameBut(e, g)
       /\ \A m \in Node : \A s \in Side :
             child(g, m, s) = IF ~t.root[old] /\ m = q /\ s = t.side[old] THEN i ELSE child(f, m, s)
       /\ g.parent[i] = q /\ g.parent[Nil] = IF t.root[old] THEN i ELSE t.parent[Nil]
       /\ \A m \in Node \ {i, Nil} : g.parent[m] = f.parent[m]
       /\ \A m \in Node \ {i} : g.side[m] = f.side[m] /\ g.root[m] = e.root[m]
       /\ (g.root[i] <=> t.root[old]) /\ (~t.root[old] => g.side[i] = t.side[old])
  <2>1. CASE t.root[old]
    <3>1. Planted(f, g, i)
      BY <1>3, <1>4, <1>14, <1>g, <2>1, PlantFacts
    <3> QED
      BY <1>3, <1>4, <1>15, <2>1, <3>1 DEF Planted, SameBut, child
  <2>2. CASE ~t.root[old]
    <3>1. q \in Node
      BY <1>3, <1>4, <2>2
    <3>2. Hung(f, g, q, t.side[old], i)
      BY <1>4, <1>14, <1>g, <2>2, <3>1, HangFacts
    <3> QED
      BY <1>3, <1>4, <1>10, <1>15, <1>16, <2>2, <3>2 DEF Hung, SameBut
  <2> QED
    BY <2>1, <2>2
<1>18. g.root[i] = t.root[old] /\ g.root[old] = e.root[old] /\ g.root[new] = e.root[new]
  <2>1. t.root[old] \in BOOLEAN /\ g.root[i] \in BOOLEAN
    BY <1>1, <1>3, <1>17, TreeFields
  <2> QED
    BY <1>3, <1>17, <2>1
<1>19. /\ g.used = t.used \union {new, i} /\ g.exited = t.exited /\ g.key = e.key
       /\ g.lext = e.lext /\ g.rext = e.rext /\ g.internal = e.internal /\ g.red = e.red
  BY <1>9, <1>17 DEF SameBut
<1>20. /\ Leaves(g) = Leaves(t) \union {new} /\ Inner(g) = Inner(t) \union {i}
       /\ Red(g) = Red(t) \union {i}
  <2>1. /\ ~g.internal[new] /\ g.internal[i] /\ ~g.red[new] /\ g.red[i]
        /\ \A m \in Nodes(t) : g.internal[m] = t.internal[m] /\ g.red[m] = t.red[m]
    BY <1>3, <1>8, <1>9, <1>19
  <2>2. Leaves(g) = Leaves(t) \union {new}
    BY <1>3, <1>19, <2>1 DEF Leaves, Nodes
  <2>3. Inner(g) = Inner(t) \union {i}
    BY <1>3, <1>19, <2>1 DEF Inner, Nodes
  <2>4. Red(g) = Red(t) \union {i}
    BY <1>3, <1>19, <2>1 DEF Red, Nodes
  <2> QED
    BY <2>2, <2>3, <2>4
<1>21. /\ ext(g, i, b) = new /\ ext(g, i, o) = old
       /\ \A m \in Inner(t) : \A s \in Side : ext(g, m, s) = ext(t, m, s)
  <2>1. g.lext[i] = l /\ g.rext[i] = r /\ \A m \in Inner(t) : g.lext[m] = t.lext[m] /\ g.rext[m] = t.rext[m]
    BY <1>3, <1>8, <1>9, <1>19
  <2>2. ext(g, i, b) = new /\ ext(g, i, o) = old
    BY <1>3, <1>5, <2>1, Sides DEF ext, Other, o
  <2> QED
    BY <2>1, <2>2 DEF ext
<1>22. /\ child(g, i, b) = new /\ child(g, i, o) = old
  BY <1>3, <1>4, <1>16, <1>17
<1>23. ASSUME NEW m \in Inner(t), NEW s \in Side
       PROVE  child(g, m, s) = IF ~t.root[old] /\ m = q /\ s = t.side[old] THEN i
                               ELSE child(t, m, s)
  <2>1. m \in Node \ {i, new} /\ m # old /\ m # far
    BY <1>2, <1>3 DEF Inner
  <2>2. child(f, m, s) = child(c, m, s)
    BY <1>15, <2>1
  <2>3. beside(c, m, Other(s)) = beside(t, m, Other(s))
    BY <1>2, <2>1, Sides
  <2>4. child(c, m, s) = child(t, m, s)
    BY <2>3, Sides DEF beside
  <2> QED
    BY <1>17, <2>1, <2>2, <2>4
<1>24. ASSUME NEW m \in Leaves(t) \union {Nil, new}, NEW s \in Side
       PROVE  beside(g, m, s) = beside(c, m, s)
  <2>1. m # i /\ m \in Node /\ (m # q \/ t.root[old])
    BY <1>3, <1>4
  <2>2. m # i /\ m \in Node
    BY <1>3
  <2>3. child(g, m, Other(s)) = child(f, m, Other(s))
    BY <1>17, <2>1, <2>2, Sides
  <2>4. child(f, m, Other(s)) = child(c, m, Other(s))
    BY <1>15, <2>2, Sides
  <2> QED
    BY <2>3, <2>4 DEF beside
<1>25. /\ beside(g, new, o) = old /\ beside(g, new, b) = far
       /\ beside(g, old, b) = new /\ beside(g, far, o) = new
       /\ \A m \in Leaves(t) \union {Nil} : \A s \in Side :
              ~(m = old /\ s = b) /\ ~(m = far /\ s = o) => beside(g, m, s) = beside(t, m, s)
  <2>1. Leaves(t) \union {Nil} \subseteq Node \ {new}
    BY <1>3
  <2> QED
    BY <1>2, <1>3, <1>24, <2>1
<1>26. /\ g.key[new] = k /\ \A m \in Leaves(t) : g.key[m] = t.key[m]
  BY <1>3, <1>9, <1>19
<1>27. \A m \in Nodes(t) \ {old} : /\ g.parent[m] = t.parent[m] /\ g.side[m] = t.side[m]
                                   /\ g.root[m] = t.root[m]
  BY <1>3, <1>10, <1>16, <1>17
<1>28. /\ g.parent[new] = i /\ g.parent[old] = i /\ g.side[new] = b /\ g.side[old] = o
       /\ ~g.root[new] /\ ~g.root[old]
  BY <1>3, <1>10, <1>16, <1>17, <1>18
<1> QED
  BY <1>17, <1>18, <1>19, <1>20, <1>21, <1>22, <1>23, <1>25, <1>26, <1>27, <1>28
     DEF Grown, o, far, q

\* After it, parents and children still fit together.
LEMMA GrownLinked ==
    ASSUME NEW t \in Tree, Linked(t), NEW old \in Leaves(t), NEW new \in Node, new \notin t.used,
           NEW i \in Node, i \notin t.used, i # new, NEW b \in Side, NEW k,
           NEW g, Grown(t, g, new, i, old, b, k)
    PROVE  Linked(g)
<1> DEFINE o == Other(b)
           q == t.parent[old]
<1>1. /\ Nil \in t.used /\ old \in Nodes(t) /\ new # Nil /\ i # Nil /\ old # new /\ old # i
      /\ b # o /\ o \in Side /\ \A s \in Side : s = b \/ s = o
      /\ Nodes(t) = Inner(t) \union Leaves(t) /\ new \notin Nodes(t) /\ i \notin Nodes(t)
      /\ Nil \notin Nodes(t) /\ Nodes(t) \subseteq Node
      /\ old \notin Inner(t)
  BY NodeKinds, Sides DEF Linked, Nodes
<1>2. HasPlace(t, old)
  BY <1>1 DEF Linked
<1>3. /\ t.root[old] => q = Nil /\ t.parent[Nil] = old
      /\ ~t.root[old] => q \in Inner(t) /\ t.side[old] \in Side /\ child(t, q, t.side[old]) = old
  BY <1>1, <1>2, TreeFields DEF HasPlace
<1>4. /\ Inner(g) = Inner(t) \union {i} /\ g.used = t.used \union {new, i}
      /\ child(g, i, b) = new /\ child(g, i, o) = old
      /\ \A m \in Inner(t) : \A s \in Side :
            child(g, m, s) = IF ~t.root[old] /\ m = q /\ s = t.side[old] THEN i
                             ELSE child(t, m, s)
      /\ g.parent[new] = i /\ g.parent[old] = i /\ g.parent[i] = q
      /\ g.parent[Nil] = IF t.root[old] THEN i ELSE t.parent[Nil]
      /\ \A m \in Nodes(t) \ {old} : g.parent[m] = t.parent[m] /\ g.side[m] = t.side[m]
                                     /\ g.root[m] = t.root[m]
      /\ g.side[new] = b /\ g.side[old] = o /\ (~t.root[old] => g.side[i] = t.side[old])
      /\ ~g.root[new] /\ ~g.root[old] /\ g.root[i] = t.root[old]
  BY DEF Grown
<1> HIDE DEF o, q
<1>5. Nodes(g) = Nodes(t) \union {new, i}
  BY <1>1, <1>4 DEF Nodes
<1>6. g.parent[Nil] \in Nodes(g) /\ g.root[g.parent[Nil]]
  <2>1. CASE t.root[old]
    BY <1>4, <1>5, <2>1
  <2>2. CASE ~t.root[old]
    <3>1. t.parent[Nil] \in Nodes(t) /\ t.root[t.parent[Nil]]
      BY DEF Linked
    <3> QED
      BY <1>4, <1>5, <2>2, <3>1
  <2> QED
    BY <2>1, <2>2
<1>7. ASSUME NEW m \in Inner(g), NEW s \in Side PROVE IsChild(g, m, s)
  <2>1. CASE m = i
    BY <1>1, <1>4, <1>5, <2>1 DEF IsChild
  <2>2. CASE m \in Inner(t)
    <3>1. IsChild(t, m, s)
      BY <2>2 DEF Linked
    <3>2. CASE child(t, m, s) = old
      <4>1. q = m /\ t.side[old] = s /\ ~t.root[old]
        BY <3>1, <3>2 DEF IsChild, q
      <4>2. child(g, m, s) = i
        BY <1>4, <2>2, <4>1
      <4> QED
        BY <1>4, <1>5, <4>1, <4>2 DEF IsChild
    <3>3. CASE child(t, m, s) # old
      <4>1. child(g, m, s) = child(t, m, s)
        BY <1>3, <1>4, <2>2, <3>3
      <4> QED
        BY <1>4, <1>5, <3>1, <3>3, <4>1 DEF IsChild
    <3> QED
      BY <3>2, <3>3
  <2> QED
    BY <1>4, <2>1, <2>2
<1>8. ASSUME NEW m \in Nodes(g) PROVE HasPlace(g, m)
  <2>1. CASE m \in {new, old}
    BY <1>4, <2>1 DEF HasPlace
  <2>2. CASE m = i
    BY <1>3, <1>4, <2>2 DEF HasPlace
  <2>3. CASE m \in Nodes(t) \ {old}
    <3>1. HasPlace(t, m)
      BY <2>3 DEF Linked
    <3>2. CASE t.root[m]
      BY <1>3, <1>4, <2>3, <3>1, <3>2 DEF HasPlace
    <3>3. CASE ~t.root[m]
      <4>1. t.parent[m] \in Inner(t) /\ child(t, t.parent[m], t.side[m]) = m /\ t.side[m] \in Side
        BY <1>1, <2>3, <3>1, <3>3, TreeFields DEF HasPlace
      <4>2. child(g, t.parent[m], t.side[m]) = m
        BY <1>3, <1>4, <2>3, <4>1
      <4> QED
        BY <1>4, <2>3, <3>3, <4>1, <4>2 DEF HasPlace
    <3> QED
      BY <3>2, <3>3
  <2> QED
    BY <1>5, <2>1, <2>2, <2>3
<1> QED
  BY <1>1, <1>4, <1>6, <1>7, <1>8 DEF Linked

\* The lext and rext of an inner node are the leaves that meet where it is.
Known(t, pos, lim) ==
    \A n \in Inner(t) : \A s \in Side :
       ext(t, n, s) \in Leaves(t) /\ lim[ext(t, n, s)][Other(s)] = pos[n]

\* The leaves are in the order of their keys.
Sorted(t, pos) == \A m, n \in Leaves(t) : pos[m] < pos[n] => t.key[m] <= t.key[n]

\* Positions can be spread out to make room beside a leaf.
LEMMA Room ==
    ASSUME NEW t, NEW pos, NEW lim, Shaped(t, pos, lim), Known(t, pos, lim), Sorted(t, pos),
           NEW old \in Leaves(t), NEW b \in Side
    PROVE  \E ps, ls : \E x, y \in Int :
              /\ Shaped(t, ps, ls) /\ Known(t, ps, ls) /\ Sorted(t, ps)
              /\ \A m, n \in Node : \A s \in Side : Beyond(s, ps[m], ps[n]) <=> Beyond(s, pos[m], pos[n])
              /\ Beyond(b, ls[old][b], x) /\ Beyond(b, x, y) /\ Beyond(b, y, ps[old])
              /\ \A m \in Node : ps[m] # x /\ ps[m] # y
<1>1. /\ t \in Tree /\ Linked(t) /\ Listed(t, pos) /\ Spans(t, pos, lim)
      /\ pos \in [Node -> Int] /\ lim \in [Node -> [Side -> Int]]
  BY DEF Shaped, Listed, Spans
<1>2. PICK ps : ps = [n \in Node |-> 3 * pos[n]]
  OBVIOUS
<1>3. PICK ls : ls = [n \in Node |-> [s \in Side |-> 3 * lim[n][s]]]
  OBVIOUS
<1>4. /\ ps \in [Node -> Int] /\ \A n \in Node : ps[n] = 3 * pos[n] /\ pos[n] \in Int
      /\ ls \in [Node -> [Side -> Int]]
      /\ \A n \in Node : \A s \in Side : ls[n][s] = 3 * lim[n][s] /\ lim[n][s] \in Int
  BY <1>1, <1>2, <1>3
<1>5. \A p, q \in Int : \A s \in Side : Beyond(s, 3 * p, 3 * q) <=> Beyond(s, p, q)
  BY Sides DEF Beyond
<1>6. /\ Nodes(t) \subseteq Node /\ Leaves(t) \subseteq Nodes(t) /\ Inner(t) \subseteq Nodes(t)
      /\ t.parent[Nil] \in Nodes(t)
  BY <1>1, NodeKinds DEF Linked
<1>7. \A m, n \in Node : \A s \in Side : Beyond(s, ps[m], ps[n]) <=> Beyond(s, pos[m], pos[n])
  BY <1>4, <1>5
<1>15. \A p, q \in Int : /\ 3 * p = 3 * q => p = q
                         /\ 3 * p # 3 * q + 1 /\ 3 * p # 3 * q + 2
                         /\ 3 * p # 3 * q - 1 /\ 3 * p # 3 * q - 2
  OBVIOUS
<1>8. \A m, n \in Node : ps[m] = ps[n] => pos[m] = pos[n]
  <2> SUFFICES ASSUME NEW m \in Node, NEW n \in Node, ps[m] = ps[n] PROVE pos[m] = pos[n]
    OBVIOUS
  <2>1. PICK p, q \in Int : p = pos[m] /\ q = pos[n] /\ 3 * p = 3 * q
    BY <1>4
  <2> QED
    BY <1>15, <2>1
<1>9. Listed(t, ps)
  <2>1. \A n \in Leaves(t) : \A s \in Side :
           beside(t, n, s) # Nil => Beyond(s, ps[beside(t, n, s)], ps[n])
    BY <1>1, <1>6, <1>7 DEF Listed
  <2>2. \A m, n \in Leaves(t) : \A s \in Side :
           Beyond(s, ps[n], ps[m]) =>
              beside(t, m, s) # Nil /\ ~Beyond(s, ps[beside(t, m, s)], ps[n])
    BY <1>1, <1>6, <1>7 DEF Listed
  <2>3. \A m, n \in Leaves(t) : ps[m] = ps[n] => m = n
    BY <1>1, <1>6, <1>8 DEF Listed
  <2> QED
    BY <1>1, <1>4, <2>1, <2>2, <2>3 DEF Listed
<1>10. Spans(t, ps, ls)
  <2>1. ASSUME NEW n \in Nodes(t), NEW s \in Side
        PROVE  Beyond(s, ls[n][s], ps[n]) /\ ~Beyond(s, ls[n][s], ls[t.parent[Nil]][s])
    BY <1>1, <1>4, <1>5, <1>6 DEF Spans
  <2>2. ASSUME NEW n \in Inner(t), NEW s \in Side
        PROVE  ls[child(t, n, s)][s] = ls[n][s] /\ ls[child(t, n, s)][Other(s)] = ps[n]
    <3>1. child(t, n, s) \in Node /\ Other(s) \in Side
      BY <1>1, <1>6, Sides DEF Linked, IsChild
    <3> QED
      BY <1>1, <1>4, <1>6, <3>1 DEF Spans
  <2>3. \A m, n \in Inner(t) : ps[m] = ps[n] => m = n
    BY <1>1, <1>6, <1>8 DEF Spans
  <2>4. ASSUME NEW n \in Leaves(t), NEW s \in Side
        PROVE  /\ beside(t, n, s) = Nil => ls[n][s] = ls[t.parent[Nil]][s]
               /\ beside(t, n, s) # Nil => ls[beside(t, n, s)][Other(s)] = ls[n][s]
    <3>1. beside(t, n, s) = Nil \/ beside(t, n, s) \in Node
      BY <1>1, <1>6 DEF Listed
    <3>2. Other(s) \in Side /\ n \in Node
      BY <1>6, Sides
    <3> QED
      BY <1>1, <1>4, <1>6, <3>1, <3>2 DEF Spans
  <2> QED
    BY <1>4, <2>1, <2>2, <2>3, <2>4 DEF Spans
<1>11. Shaped(t, ps, ls)
  BY <1>1, <1>9, <1>10 DEF Shaped
<1>12. Known(t, ps, ls)
  BY <1>4, <1>6, Sides DEF Known
<1>13. Sorted(t, ps)
  BY <1>4, <1>6 DEF Sorted
<1>14. \E x, y \in Int : /\ Beyond(b, ls[old][b], x) /\ Beyond(b, x, y) /\ Beyond(b, y, ps[old])
                         /\ \A m \in Node : ps[m] # x /\ ps[m] # y
  <2>1. old \in Node /\ lim[old][b] \in Int /\ pos[old] \in Int /\ Beyond(b, lim[old][b], pos[old])
    BY <1>1, <1>4, <1>6 DEF Spans
  <2>2. PICK p, q \in Int : p = lim[old][b] /\ q = pos[old] /\ ls[old][b] = 3 * p /\ ps[old] = 3 * q
    BY <1>4, <2>1
  <2>3. CASE b = Left
    <3>1. p < q
      BY <2>1, <2>2, <2>3, Sides DEF Beyond
    <3>2. /\ Beyond(b, 3 * p, 3 * p + 1) /\ Beyond(b, 3 * p + 1, 3 * p + 2)
          /\ Beyond(b, 3 * p + 2, 3 * q)
      BY <2>3, <3>1, Sides DEF Beyond
    <3>3. \A m \in Node : ps[m] # 3 * p + 1 /\ ps[m] # 3 * p + 2
      <4> SUFFICES ASSUME NEW m \in Node PROVE ps[m] # 3 * p + 1 /\ ps[m] # 3 * p + 2
        OBVIOUS
      <4>1. PICK c \in Int : ps[m] = 3 * c
        BY <1>4
      <4> QED
        BY <1>15, <2>2, <4>1
    <3> QED
      BY <2>2, <3>2, <3>3
  <2>4. CASE b = Right
    <3>1. q < p
      BY <2>1, <2>2, <2>4, Sides DEF Beyond
    <3>2. /\ Beyond(b, 3 * p, 3 * p - 1) /\ Beyond(b, 3 * p - 1, 3 * p - 2)
          /\ Beyond(b, 3 * p - 2, 3 * q)
      BY <2>4, <3>1, Sides DEF Beyond
    <3>3. \A m \in Node : ps[m] # 3 * p - 1 /\ ps[m] # 3 * p - 2
      <4> SUFFICES ASSUME NEW m \in Node PROVE ps[m] # 3 * p - 1 /\ ps[m] # 3 * p - 2
        OBVIOUS
      <4>1. PICK c \in Int : ps[m] = 3 * c
        BY <1>4
      <4> QED
        BY <1>15, <2>2, <4>1
    <3> QED
      BY <2>2, <3>2, <3>3
  <2> QED
    BY <2>3, <2>4, Sides
<1> QED
  BY <1>7, <1>11, <1>12, <1>13, <1>14

\* The positions and stretches of the grown tree: the two new nodes lie beside old.
Spread(t, ps, ls, P, L, new, i, old, b, x, y) ==
    /\ P \in [Node -> Int] /\ P[new] = x /\ P[i] = y
    /\ \A m \in Node \ {new, i} : P[m] = ps[m]
    /\ L \in [Node -> [Side -> Int]] /\ L[i] = ls[old]
    /\ L[new][b] = ls[old][b] /\ L[new][Other(b)] = y
    /\ L[old][b] = y /\ L[old][Other(b)] = ls[old][Other(b)]
    /\ \A m \in Node \ {new, i, old} : L[m] = ls[m]
    /\ x \in Int /\ y \in Int
    /\ Beyond(b, ls[old][b], x) /\ Beyond(b, x, y) /\ Beyond(b, y, ps[old])
    /\ \A m \in Node : ps[m] # x /\ ps[m] # y

\* The nearest leaf on a side is beyond the end of the stretch.
LEMMA FarBeyond ==
    ASSUME NEW t, NEW pos, NEW lim, Shaped(t, pos, lim), NEW n \in Leaves(t), NEW s \in Side,
           beside(t, n, s) # Nil
    PROVE  Beyond(s, pos[beside(t, n, s)], lim[n][s])
<1>1. PICK m : m = beside(t, n, s)
  OBVIOUS
<1>2. m \in Leaves(t) /\ m \in Nodes(t) /\ m \in Node /\ lim[m][Other(s)] = lim[n][s]
      /\ Other(s) \in Side /\ n \in Node
  BY <1>1, NodeKinds, Sides DEF Shaped, Listed, Spans
<1>3. Beyond(Other(s), lim[m][Other(s)], pos[m])
  BY <1>2 DEF Shaped, Spans
<1>4. pos[m] \in Int /\ lim[n][s] \in Int
  BY <1>2 DEF Shaped, Spans, Listed
<1> QED
  BY <1>1, <1>2, <1>3, <1>4, BeyondOrder

\* After it, the list is still in order, and has the new leaf.
LEMMA GrownListed ==
    ASSUME NEW t, NEW ps, NEW ls, Shaped(t, ps, ls), NEW old \in Leaves(t),
           NEW new \in Node, new \notin t.used, NEW i \in Node, i \notin t.used, i # new,
           NEW b \in Side, NEW k, NEW g, Grown(t, g, new, i, old, b, k),
           NEW P, NEW L, NEW x, NEW y, Spread(t, ps, ls, P, L, new, i, old, b, x, y)
    PROVE  Listed(g, P)
<1> DEFINE o == Other(b)
           far == beside(t, old, b)
<1>1. /\ t \in Tree /\ Linked(t) /\ Listed(t, ps) /\ o \in Side /\ b # o /\ Other(o) = b
      /\ \A s \in Side : s = b \/ s = o
  BY Sides DEF Shaped
<1>2. /\ Leaves(t) \subseteq Node \ {Nil, new, i} /\ new # Nil /\ i # Nil
      /\ ps \in [Node -> Int]
  BY <1>1, NodeKinds DEF Leaves, Linked, Listed
<1>3. /\ far \in Leaves(t) \union {Nil} /\ beside(t, far, o) = old
      /\ \A n \in Leaves(t) \union {Nil} : \A s \in Side :
            /\ beside(t, n, s) \in Leaves(t) \union {Nil}
            /\ beside(t, beside(t, n, s), Other(s)) = n
  BY <1>1 DEF Listed
<1>4. /\ Leaves(g) = Leaves(t) \union {new}
      /\ beside(g, new, o) = old /\ beside(g, new, b) = far
      /\ beside(g, old, b) = new /\ beside(g, far, o) = new
      /\ \A m \in Leaves(t) \union {Nil} : \A s \in Side :
            ~(m = old /\ s = b) /\ ~(m = far /\ s = o) => beside(g, m, s) = beside(t, m, s)
  BY DEF Grown
<1>5. /\ P \in [Node -> Int] /\ P[new] = x /\ x \in Int
      /\ \A m \in Leaves(t) : P[m] = ps[m] /\ ps[m] \in Int /\ ps[m] # x
  BY <1>2 DEF Spread
<1>6. /\ Beyond(b, x, ps[old])
      /\ far # Nil => Beyond(b, ps[far], x)
  <2>1. /\ Beyond(b, ls[old][b], x) /\ Beyond(b, x, y) /\ Beyond(b, y, ps[old])
        /\ x \in Int /\ y \in Int /\ ps[old] \in Int
    BY <1>5 DEF Spread
  <2>2. ls[old][b] \in Int
    BY <1>2 DEF Shaped, Spans
  <2>3. far # Nil => Beyond(b, ps[far], ls[old][b]) /\ ps[far] \in Int
    BY <1>3, <1>5, FarBeyond
  <2> QED
    BY <2>1, <2>2, <2>3, BeyondOrder
<1>7. /\ \A m, n \in Leaves(t) : \A s \in Side :
            Beyond(s, ps[n], ps[m]) =>
               beside(t, m, s) # Nil /\ ~Beyond(s, ps[beside(t, m, s)], ps[n])
      /\ \A m, n \in Leaves(t) : ps[m] = ps[n] => m = n
      /\ \A n \in Leaves(t) : \A s \in Side :
            beside(t, n, s) # Nil => Beyond(s, ps[beside(t, n, s)], ps[n])
  BY <1>1 DEF Listed
<1> HIDE DEF o, far
<1>8. \A s \in Side : /\ \A p \in Int : ~Beyond(s, p, p)
                      /\ \A p, q \in Int : Beyond(s, p, q) \/ Beyond(s, q, p) \/ p = q
                      /\ \A p, q, r \in Int : Beyond(s, p, q) /\ Beyond(s, q, r) => Beyond(s, p, r)
  BY BeyondOrder
<1>9. \A p, q \in Int : (Beyond(o, p, q) <=> Beyond(b, q, p))
  BY BeyondOrder DEF o
\* A leaf beyond old is beyond the new one.
<1>10. \A n \in Leaves(t) : Beyond(b, ps[n], ps[old]) => Beyond(b, ps[n], x)
  <2> SUFFICES ASSUME NEW n \in Leaves(t), Beyond(b, ps[n], ps[old]) PROVE Beyond(b, ps[n], x)
    OBVIOUS
  <2>1. far # Nil /\ ~Beyond(b, ps[far], ps[n]) /\ far \in Leaves(t)
    BY <1>3, <1>7 DEF far
  <2>2. Beyond(b, ps[n], ps[far]) \/ ps[n] = ps[far]
    BY <1>5, <1>8, <2>1
  <2> QED
    BY <1>5, <1>6, <1>8, <2>1, <2>2
<1>11. \A n \in Leaves(t) : n = old \/ Beyond(b, ps[n], ps[old]) \/ Beyond(b, ps[old], ps[n])
  BY <1>5, <1>7, <1>8
<1>12. \A n \in Leaves(g) \union {Nil} : \A s \in Side :
          /\ beside(g, n, s) \in Leaves(g) \union {Nil}
          /\ beside(g, beside(g, n, s), Other(s)) = n
  <2> SUFFICES ASSUME NEW n \in Leaves(g) \union {Nil}, NEW s \in Side
               PROVE  /\ beside(g, n, s) \in Leaves(g) \union {Nil}
                      /\ beside(g, beside(g, n, s), Other(s)) = n
    OBVIOUS
  <2>0. Other(b) = o /\ Other(o) = b
    BY <1>1 DEF o
  <2>1. CASE n = new \/ (n = old /\ s = b) \/ (n = far /\ s = o)
    BY <1>1, <1>2, <1>3, <1>4, <2>0, <2>1
  <2>2. CASE n # new /\ ~(n = old /\ s = b) /\ ~(n = far /\ s = o)
    <3>1. PICK m : m = beside(t, n, s)
      OBVIOUS
    <3>2. /\ n \in Leaves(t) \union {Nil} /\ beside(g, n, s) = m
          /\ m \in Leaves(t) \union {Nil} /\ beside(t, m, Other(s)) = n /\ Other(s) \in Side
      BY <1>1, <1>3, <1>4, <2>0, <2>2, <3>1
    <3>3. ~(m = old /\ Other(s) = b) /\ ~(m = far /\ Other(s) = o)
      BY <1>1, <1>3, <2>0, <2>2, <3>2 DEF far
    <3>4. beside(g, m, Other(s)) = n
      BY <1>4, <3>2, <3>3
    <3> QED
      BY <1>4, <3>2, <3>4
  <2> QED
    BY <2>1, <2>2
<1>13. \A n \in Leaves(g) : \A s \in Side :
          beside(g, n, s) # Nil => Beyond(s, P[beside(g, n, s)], P[n])
  <2> SUFFICES ASSUME NEW n \in Leaves(g), NEW s \in Side, beside(g, n, s) # Nil
               PROVE  Beyond(s, P[beside(g, n, s)], P[n])
    OBVIOUS
  <2>1. CASE n = new /\ s = b
    <3>1. far \in Leaves(t) /\ beside(g, n, s) = far
      BY <1>3, <1>4, <2>1
    <3> QED
      BY <1>4, <1>5, <1>6, <2>1, <3>1
  <2>2. CASE n = new /\ s = o
    BY <1>4, <1>5, <1>6, <1>9, <2>2
  <2>3. CASE n = old /\ s = b
    BY <1>4, <1>5, <1>6, <2>3
  <2>4. CASE n = far /\ s = o /\ n # new
    <3>1. far \in Leaves(t) /\ far # Nil
      BY <1>2, <1>4, <2>4
    <3> QED
      BY <1>4, <1>5, <1>6, <1>9, <2>4, <3>1
  <2>5. CASE n # new /\ ~(n = old /\ s = b) /\ ~(n = far /\ s = o)
    <3>1. n \in Leaves(t) /\ beside(g, n, s) = beside(t, n, s) /\ beside(t, n, s) \in Leaves(t)
      BY <1>3, <1>4, <2>5
    <3> QED
      BY <1>5, <1>7, <3>1
  <2> QED
    BY <1>1, <2>1, <2>2, <2>3, <2>4, <2>5
<1>14. \A m, n \in Leaves(g) : \A s \in Side :
          Beyond(s, P[n], P[m]) =>
             beside(g, m, s) # Nil /\ ~Beyond(s, P[beside(g, m, s)], P[n])
  <2> SUFFICES ASSUME NEW m \in Leaves(g), NEW n \in Leaves(g), NEW s \in Side,
                      Beyond(s, P[n], P[m])
               PROVE  beside(g, m, s) # Nil /\ ~Beyond(s, P[beside(g, m, s)], P[n])
    OBVIOUS
  <2>1. CASE m = new
    <3>1. n \in Leaves(t) /\ Beyond(s, ps[n], x)
      BY <1>4, <1>5, <1>8, <2>1
    <3>2. CASE s = b
      <4>1. n # old /\ Beyond(b, ps[n], ps[old])
        BY <1>5, <1>6, <1>8, <3>1, <3>2
      <4>2. far # Nil /\ ~Beyond(b, ps[far], ps[n]) /\ far \in Leaves(t)
        BY <1>3, <1>7, <3>1, <4>1 DEF far
      <4> QED
        BY <1>4, <1>5, <2>1, <3>1, <3>2, <4>2
    <3>3. CASE s = o
      <4>1. ~Beyond(b, ps[n], ps[old])
        BY <1>5, <1>8, <1>9, <1>10, <3>1, <3>3
      <4>2. ~Beyond(o, ps[old], ps[n]) /\ old # Nil
        BY <1>2, <1>5, <1>9, <3>1, <4>1
      <4> QED
        BY <1>4, <1>5, <2>1, <3>1, <3>3, <4>2
    <3> QED
      BY <1>1, <3>2, <3>3
  <2>2. CASE m # new /\ n = new
    <3>1. m \in Leaves(t) /\ Beyond(s, x, ps[m])
      BY <1>4, <1>5, <2>2
    <3>2. CASE s = b /\ m = old
      BY <1>2, <1>4, <1>5, <1>8, <2>2, <3>2
    <3>3. CASE s = b /\ m # old
      <4>1. Beyond(b, ps[old], ps[m])
        BY <1>5, <1>8, <1>10, <1>11, <3>1, <3>3
      <4>2. PICK w : w = beside(t, m, b)
        OBVIOUS
      <4>3. w # Nil /\ w \in Leaves(t) /\ ~Beyond(b, ps[w], ps[old])
        BY <1>3, <1>7, <3>1, <4>1, <4>2
      <4>4. beside(g, m, b) = w
        BY <1>1, <1>4, <3>1, <3>3, <4>2
      <4>5. ~Beyond(b, ps[w], x)
        BY <1>5, <1>6, <1>8, <4>3
      <4> QED
        BY <1>5, <2>2, <3>3, <4>3, <4>4, <4>5
    <3>4. CASE s = o
      <4>1. Beyond(b, ps[m], ps[old]) /\ Beyond(o, ps[old], ps[m])
        BY <1>5, <1>6, <1>8, <1>9, <3>1, <3>4
      <4>2. CASE m = far
        BY <1>1, <1>2, <1>4, <1>5, <1>8, <2>2, <3>4, <4>2
      <4>3. CASE m # far
        <5>1. PICK w : w = beside(t, m, o)
          OBVIOUS
        <5>2. w # Nil /\ w \in Leaves(t) /\ ~Beyond(o, ps[w], ps[old])
          BY <1>1, <1>3, <1>7, <3>1, <4>1, <5>1
        <5>3. beside(g, m, o) = w
          BY <1>1, <1>4, <3>1, <4>3, <5>1
        <5>4. w # old
          <6>1. beside(t, w, b) = m
            BY <1>1, <1>3, <3>1, <5>1
          <6> QED
            BY <4>3, <6>1 DEF far
        <5>5. Beyond(b, ps[w], ps[old])
          BY <1>5, <1>9, <1>11, <5>2, <5>4
        <5>6. ~Beyond(o, ps[w], x)
          BY <1>5, <1>8, <1>9, <1>10, <5>2, <5>5
        <5> QED
          BY <1>5, <2>2, <3>4, <5>2, <5>3, <5>6
      <4> QED
        BY <4>2, <4>3
    <3> QED
      BY <1>1, <3>2, <3>3, <3>4
  <2>3. CASE m # new /\ n # new
    <3>1. m \in Leaves(t) /\ n \in Leaves(t) /\ Beyond(s, ps[n], ps[m])
      BY <1>4, <1>5, <2>3
    <3>2. PICK w : w = beside(t, m, s)
      OBVIOUS
    <3>3. w # Nil /\ w \in Leaves(t) /\ ~Beyond(s, ps[w], ps[n])
      BY <1>3, <1>7, <3>1, <3>2
    <3>4. CASE m = old /\ s = b
      BY <1>2, <1>4, <1>5, <1>8, <1>10, <3>1, <3>4
    <3>5. CASE m = far /\ s = o
      <4>1. w = old
        BY <1>3, <3>2, <3>5
      <4>2. ~Beyond(o, x, ps[n])
        BY <1>1, <1>5, <1>6, <1>8, <1>9, <3>1, <3>3, <3>5, <4>1
      <4> QED
        BY <1>2, <1>4, <1>5, <3>1, <3>5, <4>2
    <3>6. CASE ~(m = old /\ s = b) /\ ~(m = far /\ s = o)
      <4>1. beside(g, m, s) = w
        BY <1>4, <3>1, <3>2, <3>6
      <4> QED
        BY <1>5, <3>1, <3>3, <4>1
    <3> QED
      BY <3>4, <3>5, <3>6
  <2> QED
    BY <2>1, <2>2, <2>3
<1>15. \A m, n \in Leaves(g) : P[m] = P[n] => m = n
  BY <1>4, <1>5, <1>7
<1> QED
  BY <1>5, <1>12, <1>13, <1>14, <1>15 DEF Listed

\* The new nodes share out the stretch the old leaf had.
LEMMA GrownSpans ==
    ASSUME NEW t, NEW ps, NEW ls, Shaped(t, ps, ls), NEW old \in Leaves(t),
           NEW new \in Node, new \notin t.used, NEW i \in Node, i \notin t.used, i # new,
           NEW b \in Side, NEW k, NEW g, Grown(t, g, new, i, old, b, k),
           NEW P, NEW L, NEW x, NEW y, Spread(t, ps, ls, P, L, new, i, old, b, x, y)
    PROVE  Spans(g, P, L)
<1> DEFINE o == Other(b)
           far == beside(t, old, b)
           root == t.parent[Nil]
           top == g.parent[Nil]
<1>1. /\ t \in Tree /\ Linked(t) /\ Listed(t, ps) /\ Spans(t, ps, ls)
      /\ o \in Side /\ b # o /\ Other(o) = b
      /\ \A s \in Side : s = b \/ s = o
  BY Sides DEF Shaped
<1>2. /\ Nodes(t) \subseteq Node \ {Nil, new, i} /\ Leaves(t) \subseteq Nodes(t)
      /\ Inner(t) \subseteq Nodes(t) /\ old \notin Inner(t) /\ new # Nil
      /\ Nodes(t) = Inner(t) \union Leaves(t) /\ root \in Nodes(t) /\ t.root[root]
      /\ ps \in [Node -> Int] /\ ls \in [Node -> [Side -> Int]]
  BY <1>1, NodeKinds DEF Leaves, Inner, Nodes, Linked, Listed, Spans
<1>3. /\ far \in Leaves(t) \union {Nil} /\ beside(t, far, o) = old
      /\ \A n \in Leaves(t) \union {Nil} : \A s \in Side :
            /\ beside(t, n, s) \in Leaves(t) \union {Nil}
            /\ beside(t, beside(t, n, s), Other(s)) = n
      /\ far # old
  <2>1. far # old
    <3>1. far = old => Beyond(b, ps[old], ps[old]) /\ ps[old] \in Int
      BY <1>1, <1>2 DEF Listed
    <3> QED
      BY <3>1, BeyondOrder
  <2> QED
    BY <1>1, <2>1 DEF Listed
<1>4. /\ Leaves(g) = Leaves(t) \union {new} /\ Inner(g) = Inner(t) \union {i}
      /\ beside(g, new, o) = old /\ beside(g, new, b) = far
      /\ beside(g, old, b) = new /\ beside(g, far, o) = new
      /\ \A m \in Leaves(t) \union {Nil} : \A s \in Side :
            ~(m = old /\ s = b) /\ ~(m = far /\ s = o) => beside(g, m, s) = beside(t, m, s)
      /\ child(g, i, b) = new /\ child(g, i, o) = old
      /\ \A m \in Inner(t) : \A s \in Side :
            child(g, m, s) = IF ~t.root[old] /\ m = t.parent[old] /\ s = t.side[old] THEN i
                             ELSE child(t, m, s)
      /\ top = IF t.root[old] THEN i ELSE root
      /\ g \in Tree
  BY DEF Grown
<1>5. /\ P[new] = x /\ P[i] = y /\ x \in Int /\ y \in Int
      /\ \A m \in Nodes(t) : P[m] = ps[m] /\ ps[m] \in Int /\ ps[m] # y
      /\ L \in [Node -> [Side -> Int]] /\ L[i] = ls[old]
      /\ L[new][b] = ls[old][b] /\ L[new][o] = y
      /\ L[old][b] = y /\ L[old][o] = ls[old][o]
      /\ \A m \in Nodes(t) \ {old} : L[m] = ls[m]
      /\ Beyond(b, ls[old][b], x) /\ Beyond(b, x, y) /\ Beyond(b, y, ps[old])
  BY <1>2 DEF Spread
<1>6. /\ \A n \in Nodes(t) : \A s \in Side :
            /\ Beyond(s, ls[n][s], ps[n]) /\ ~Beyond(s, ls[n][s], ls[root][s])
            /\ ls[n][s] \in Int
      /\ \A n \in Inner(t) : \A s \in Side :
            ls[child(t, n, s)][s] = ls[n][s] /\ ls[child(t, n, s)][Other(s)] = ps[n]
      /\ \A m, n \in Inner(t) : ps[m] = ps[n] => m = n
      /\ \A n \in Leaves(t) : \A s \in Side :
            /\ beside(t, n, s) = Nil => ls[n][s] = ls[root][s]
            /\ beside(t, n, s) # Nil => ls[beside(t, n, s)][Other(s)] = ls[n][s]
  BY <1>1, <1>2 DEF Spans
<1>7. L[top] = ls[root]
  <2>1. HasPlace(t, old)
    BY <1>1, <1>2 DEF Linked
  <2>2. CASE t.root[old]
    BY <1>4, <1>5, <2>1, <2>2 DEF HasPlace
  <2>3. CASE ~t.root[old]
    BY <1>2, <1>4, <1>5, <2>3
  <2> QED
    BY <2>2, <2>3
<1>8. \A n \in Inner(t) : \A s \in Side :
         IF child(t, n, s) = old THEN child(g, n, s) = i
         ELSE child(g, n, s) = child(t, n, s) /\ child(t, n, s) \in Nodes(t)
  <2> SUFFICES ASSUME NEW n \in Inner(t), NEW s \in Side
               PROVE  IF child(t, n, s) = old THEN child(g, n, s) = i
                      ELSE child(g, n, s) = child(t, n, s) /\ child(t, n, s) \in Nodes(t)
    OBVIOUS
  <2>1. IsChild(t, n, s) /\ HasPlace(t, old)
    BY <1>1, <1>2 DEF Linked
  <2> QED
    BY <1>4, <2>1 DEF IsChild, HasPlace
<1> HIDE DEF o, far, root, top
<1>9. \A s \in Side : /\ \A p, q \in Int : Beyond(Other(s), p, q) <=> Beyond(s, q, p)
                      /\ \A p, q, r \in Int : Beyond(s, p, q) /\ Beyond(s, q, r) => Beyond(s, p, r)
  BY BeyondOrder
<1>a. PICK lb, lo, rb, ro, z \in Int :
         /\ lb = ls[old][b] /\ lo = ls[old][o] /\ rb = ls[root][b] /\ ro = ls[root][o]
         /\ z = ps[old]
  BY ZenonT(60), <1>1, <1>2, <1>5, <1>6
<1>b. /\ Beyond(b, lb, z) /\ ~Beyond(b, lb, rb) /\ Beyond(o, lo, z) /\ ~Beyond(o, lo, ro)
      /\ Beyond(b, lb, x) /\ Beyond(b, x, y) /\ Beyond(b, y, z)
  BY <1>1, <1>2, <1>5, <1>6, <1>a
<1>c. /\ Beyond(o, y, x) /\ ~Beyond(o, y, ro) /\ Beyond(b, lb, y) /\ Beyond(o, lo, y)
      /\ ~Beyond(b, y, rb)
  <2>1. Beyond(o, y, x) /\ Beyond(o, z, y)
    BY <1>5, <1>a, <1>b, <1>9 DEF o
  <2>2. Beyond(o, lo, y) /\ Beyond(b, lb, y)
    BY <1>1, <1>5, <1>9, <1>a, <1>b, <2>1
  <2> QED
    BY <1>1, <1>5, <1>9, <1>a, <1>b, <2>1, <2>2
<1>d. /\ L[new][b] = lb /\ L[new][o] = y /\ L[i][b] = lb /\ L[i][o] = lo
      /\ L[old][b] = y /\ L[old][o] = lo /\ L[top][b] = rb /\ L[top][o] = ro /\ P[old] = z
  BY <1>2, <1>5, <1>7, <1>a
<1>10. ASSUME NEW n \in Nodes(g), NEW s \in Side
       PROVE  Beyond(s, L[n][s], P[n]) /\ ~Beyond(s, L[n][s], L[top][s])
  <2>1. n \in Nodes(t) \/ n = new \/ n = i
    BY <1>2, <1>4, NodeKinds
  <2>2. CASE n = new
    BY <1>1, <1>5, <1>b, <1>c, <1>d, <2>2
  <2>3. CASE n = i
    BY <1>1, <1>5, <1>b, <1>c, <1>d, <2>3
  <2>4. CASE n = old
    BY <1>1, <1>b, <1>c, <1>d, <2>4
  <2>5. CASE n \in Nodes(t) \ {old}
    BY <1>5, <1>6, <1>7, <2>5
  <2> QED
    BY <2>1, <2>2, <2>3, <2>4, <2>5
<1>11. ASSUME NEW n \in Inner(g), NEW s \in Side
       PROVE  L[child(g, n, s)][s] = L[n][s] /\ L[child(g, n, s)][Other(s)] = P[n]
  <2>0. Other(b) = o /\ Other(o) = b
    BY <1>1 DEF o
  <2>1. CASE n = i
    BY <1>1, <1>4, <1>5, <1>d, <2>0, <2>1
  <2>2. CASE n \in Inner(t) /\ child(t, n, s) = old
    <3>1. child(g, n, s) = i /\ L[i] = ls[old] /\ P[n] = ps[n] /\ L[n] = ls[n]
      BY <1>2, <1>5, <1>8, <2>2
    <3> QED
      BY <1>6, <2>2, <3>1
  <2>3. CASE n \in Inner(t) /\ child(t, n, s) # old
    <3>1. PICK c \in Nodes(t) \ {old} : c = child(t, n, s) /\ c = child(g, n, s)
      BY <1>8, <2>3
    <3>2. L[c] = ls[c] /\ P[n] = ps[n] /\ L[n] = ls[n]
      BY <1>2, <1>5, <2>3
    <3>3. ls[c][s] = ls[n][s] /\ ls[c][Other(s)] = ps[n]
      <4>1. ls[child(t, n, s)][s] = ls[n][s] /\ ls[child(t, n, s)][Other(s)] = ps[n]
        BY <1>6, <2>3
      <4> QED
        BY <3>1, <4>1
    <3> QED
      BY <3>1, <3>2, <3>3
  <2> QED
    BY <1>4, <2>1, <2>2, <2>3
<1>12. \A m, n \in Inner(g) : P[m] = P[n] => m = n
  BY <1>2, <1>4, <1>5, <1>6
<1>13. ASSUME NEW n \in Leaves(g), NEW s \in Side
       PROVE  /\ beside(g, n, s) = Nil => L[n][s] = L[top][s]
              /\ beside(g, n, s) # Nil => L[beside(g, n, s)][Other(s)] = L[n][s]
  <2>0. Other(b) = o /\ Other(o) = b
    BY <1>1 DEF o
  <2>a. /\ far = Nil => lb = rb
        /\ far # Nil => L[far] = ls[far] /\ ls[far][o] = lb
    <3>1. far # Nil => far \in Nodes(t) \ {old}
      BY <1>2, <1>3
    <3> QED
      BY <1>1, <1>5, <1>6, <1>a, <2>0, <3>1 DEF far
  <2>1. CASE n = new /\ s = b
    BY <1>4, <1>d, <2>0, <2>1, <2>a
  <2>2. CASE n = new /\ s = o
    BY <1>2, <1>4, <1>d, <2>0, <2>2
  <2>3. CASE n = old /\ s = b
    BY <1>2, <1>4, <1>d, <2>0, <2>3
  <2>4. CASE n = far /\ s = o /\ n # new
    <3>1. far # Nil
      BY <1>2, <1>4, <2>4
    <3> QED
      BY <1>2, <1>4, <1>d, <2>0, <2>4, <2>a, <3>1
  <2>5. CASE n # new /\ ~(n = old /\ s = b) /\ ~(n = far /\ s = o)
    <3>1. PICK m : m = beside(t, n, s)
      OBVIOUS
    <3>2. n \in Leaves(t) /\ beside(g, n, s) = m /\ m \in Leaves(t) \union {Nil}
      BY <1>3, <1>4, <2>5, <3>1
    <3>3. L[n][s] = ls[n][s]
      <4>1. CASE n = old
        BY <1>1, <1>5, <2>5, <4>1
      <4>2. CASE n # old
        BY <1>2, <1>5, <3>2, <4>2
      <4> QED
        BY <4>1, <4>2
    <3>4. CASE m = Nil
      <4>1. n # new /\ n \in Leaves(t) /\ beside(t, n, s) = Nil /\ beside(g, n, s) = Nil
        BY <2>5, <3>1, <3>2, <3>4
      <4>2. ls[n][s] = ls[root][s]
        BY <1>6, <4>1
      <4> QED
        BY <1>7, <3>3, <4>1, <4>2
    <3>5. CASE m # Nil
      <4>1. ~(m = old /\ Other(s) = b)
        BY <1>1, <1>3, <2>0, <2>5, <3>1, <3>2 DEF far
      <4>2. L[m][Other(s)] = ls[m][Other(s)]
        <5>1. CASE m = old
          <6>1. Other(s) = o
            BY <1>1, <2>0, <4>1, <5>1
          <6> QED
            BY <1>5, <5>1, <6>1
        <5>2. CASE m # old
          BY <1>2, <1>5, <3>2, <3>5, <5>2
        <5> QED
          BY <5>1, <5>2
      <4> QED
        BY <1>6, <3>1, <3>2, <3>3, <3>5, <4>2
    <3> QED
      BY <3>4, <3>5
  <2> QED
    BY <1>1, <1>4, <2>1, <2>2, <2>3, <2>4, <2>5
<1> QED
  BY <1>5, <1>10, <1>11, <1>12, <1>13 DEF Spans, top

\* A new red node with two leaves keeps the heights, and may only be red below red.
LEMMA GrownColours ==
    ASSUME NEW t \in Tree, Linked(t), NEW h, Heights(t, Red(t), h, Nil), Reds(t, Red(t), Nil),
           t.parent[Nil] \in Red(t) => Inner(t) \subseteq {t.parent[Nil]},
           NEW old \in Leaves(t),
           NEW new \in Node, new \notin t.used, NEW i \in Node, i \notin t.used, i # new,
           NEW b \in Side, NEW k, NEW g, Grown(t, g, new, i, old, b, k)
    PROVE  /\ \E hs : Heights(g, Red(g), hs, Nil)
           /\ i \in Red(g) /\ Reds(g, Red(g), i)
           /\ g.parent[Nil] \in Red(g) => g.root[i] \/ g.parent[i] = g.parent[Nil]
<1>1. /\ Nodes(t) \subseteq Node \ {Nil, new, i} /\ Leaves(t) \subseteq Nodes(t)
      /\ Inner(t) \subseteq Nodes(t) /\ old \notin Inner(t) /\ new # Nil /\ i # Nil
      /\ t.parent[Nil] \in Nodes(t) /\ HasPlace(t, old)
      /\ \A m \in Nodes(t) : HasPlace(t, m)
      /\ Other(b) \in Side /\ b # Other(b) /\ \A s \in Side : s = b \/ s = Other(b)
  BY NodeKinds, Sides DEF Leaves, Inner, Nodes, Linked
<1>2. /\ Leaves(g) = Leaves(t) \union {new} /\ Inner(g) = Inner(t) \union {i}
      /\ Red(g) = Red(t) \union {i}
      /\ child(g, i, b) = new /\ child(g, i, Other(b)) = old
      /\ \A m \in Inner(t) : \A s \in Side :
            child(g, m, s) = IF ~t.root[old] /\ m = t.parent[old] /\ s = t.side[old] THEN i
                             ELSE child(t, m, s)
      /\ g.parent[i] = t.parent[old] /\ g.root[i] = t.root[old]
      /\ g.parent[Nil] = IF t.root[old] THEN i ELSE t.parent[Nil]
      /\ \A m \in Nodes(t) \ {old} : g.parent[m] = t.parent[m] /\ g.root[m] = t.root[m]
  BY DEF Grown
<1>3. /\ Red(t) \subseteq Inner(t) /\ h \in [Node -> Nat]
      /\ \A n \in Leaves(t) : h[n] = 0
      /\ \A n \in Inner(t) : \A s \in Side :
            h[n] = h[child(t, n, s)] + (IF child(t, n, s) \in Red(t) THEN 0 ELSE 1)
                                     + (IF child(t, n, s) = Nil THEN 1 ELSE 0)
  BY DEF Heights
<1>4. \A n \in Inner(t) : \A s \in Side :
         /\ child(t, n, s) \in Nodes(t)
         /\ IF child(t, n, s) = old THEN child(g, n, s) = i ELSE child(g, n, s) = child(t, n, s)
  <2> SUFFICES ASSUME NEW n \in Inner(t), NEW s \in Side
               PROVE  /\ child(t, n, s) \in Nodes(t)
                      /\ IF child(t, n, s) = old THEN child(g, n, s) = i
                         ELSE child(g, n, s) = child(t, n, s)
    OBVIOUS
  <2>1. IsChild(t, n, s)
    BY DEF Linked
  <2> QED
    BY <1>1, <1>2, <2>1 DEF IsChild, HasPlace
<1>5. \E hs : Heights(g, Red(g), hs, Nil)
  <2>1. PICK hs : hs = [m \in Node |-> IF m = i THEN 1 ELSE IF m = new THEN 0 ELSE h[m]]
    OBVIOUS
  <2>2. hs \in [Node -> Nat] /\ hs[i] = 1 /\ hs[new] = 0 /\ \A m \in Nodes(t) : hs[m] = h[m]
    BY <1>1, <1>3, <2>1
  <2>3. ASSUME NEW n \in Inner(g), NEW s \in Side
        PROVE  hs[n] = hs[child(g, n, s)] + (IF child(g, n, s) \in Red(g) THEN 0 ELSE 1)
                                          + (IF child(g, n, s) = Nil THEN 1 ELSE 0)
    <3>1. CASE n = i
      <4>1. child(g, n, s) = new \/ child(g, n, s) = old
        BY <1>1, <1>2, <3>1
      <4>2. /\ hs[new] = 0 /\ hs[old] = 0 /\ new \notin Red(g) /\ old \notin Red(g)
            /\ new # Nil /\ old # Nil
        BY <1>1, <1>2, <1>3, <2>2
      <4> QED
        BY <2>2, <3>1, <4>1, <4>2
    <3>2. CASE n \in Inner(t) /\ child(t, n, s) = old
      <4>1. h[n] = 1
        BY <1>1, <1>3, <3>2
      <4>2. child(g, n, s) = i /\ i \in Red(g) /\ i # Nil /\ hs[n] = h[n]
        BY <1>1, <1>2, <1>4, <2>2, <3>2
      <4> QED
        BY <2>2, <4>1, <4>2
    <3>3. CASE n \in Inner(t) /\ child(t, n, s) # old
      <4>1. PICK c \in Nodes(t) : c = child(t, n, s) /\ c = child(g, n, s)
        BY <1>4, <3>3
      <4>2. hs[c] = h[c] /\ hs[n] = h[n] /\ (c \in Red(g) <=> c \in Red(t))
        BY <1>1, <1>2, <2>2, <3>3
      <4>3. h[n] = h[c] + (IF c \in Red(t) THEN 0 ELSE 1) + (IF c = Nil THEN 1 ELSE 0)
        <5>1. h[n] = h[child(t, n, s)] + (IF child(t, n, s) \in Red(t) THEN 0 ELSE 1)
                                       + (IF child(t, n, s) = Nil THEN 1 ELSE 0)
          BY <1>3, <3>3
        <5> QED
          BY <4>1, <5>1
      <4> QED
        BY <4>1, <4>2, <4>3
    <3> QED
      BY <1>2, <3>1, <3>2, <3>3
  <2>4. \A n \in Leaves(g) : hs[n] = 0
    BY <1>1, <1>2, <1>3, <2>2
  <2>5. Red(g) \subseteq Inner(g)
    BY <1>2, <1>3
  <2>6. Heights(g, Red(g), hs, Nil)
    BY <2>2, <2>3, <2>4, <2>5 DEF Heights
  <2> QED
    BY <2>6
<1>6. Reds(g, Red(g), i)
  <2> SUFFICES ASSUME NEW m \in Red(g) \ {i}, ~g.root[m] PROVE g.parent[m] \notin Red(g)
    BY DEF Reds
  <2>1. m \in Red(t) /\ m \in Nodes(t) \ {old} /\ ~t.root[m] /\ g.parent[m] = t.parent[m]
    BY <1>1, <1>2, <1>3
  <2>2. t.parent[m] \notin Red(t) /\ t.parent[m] # i
    BY <1>1, <2>1 DEF Reds, HasPlace
  <2> QED
    BY <1>2, <2>1, <2>2
<1>7. g.parent[Nil] \in Red(g) => g.root[i] \/ g.parent[i] = g.parent[Nil]
  BY <1>1, <1>2 DEF HasPlace
<1> QED
  BY <1>2, <1>5, <1>6, <1>7

-----------------------------------------------------------------------------
(* The inner node next to a stretch *)

\* The internal node at which the stretch of n begins or ends.
prev(t, n, s) == IF s = Left THEN lprev(t, n) ELSE rprev(t, n)

\* The climb of lprev and rprev ends below the inner node where the stretch of n ends,
\* or at the root when the tree ends there.
LEMMA PrevFacts ==
    ASSUME NEW t, NEW pos, NEW lim, Shaped(t, pos, lim), NEW n \in Nodes(t), NEW s \in Side,
           NEW a, a = prev(t, n, s)
    PROVE  \/ a = Nil /\ lim[n][s] = lim[t.parent[Nil]][s]
           \/ a \in Inner(t) /\ pos[a] = lim[n][s] /\ lim[n][s] # lim[t.parent[Nil]][s]
<1> DEFINE o == Other(s)
           f == [m \in Node |-> IF t.root[m] \/ t.side[m] = o THEN m ELSE t.parent[m]]
           S == {m \in Nodes(t) : lim[m][s] = lim[n][s]}
           v == [m \in S |-> m]
<1>1. /\ t \in Tree /\ Linked(t) /\ Ranked(t, Width(lim)) /\ Width(lim) \in [Node -> Int]
      /\ o \in Side /\ s # o /\ Other(o) = s /\ \A d \in Side : d = s \/ d = o
      /\ Nodes(t) \subseteq Node \ {Nil} /\ Inner(t) \subseteq Nodes(t)
  BY WidthRanks, NodeKinds, Sides DEF Shaped, Ranked
<1>2. \A m \in Nodes(t) : /\ HasPlace(t, m) /\ t.side[m] \in Side
                          /\ f[m] = IF t.root[m] \/ t.side[m] = o THEN m ELSE t.parent[m]
  BY <1>1, TreeFields DEF Linked
<1>3. \A m \in Inner(t) : \A d \in Side :
         lim[child(t, m, d)][d] = lim[m][d] /\ lim[child(t, m, d)][Other(d)] = pos[m]
  BY DEF Shaped, Spans
<1>4. \A m \in Inner(t) : \A d \in Side : Width(lim)[child(t, m, d)] < Width(lim)[m]
  BY <1>1 DEF Ranked
<1>5. prev(t, n, s) = t.parent[Loop(f, n)]
  <2>1. CASE s = Left
    BY <2>1, Sides DEF prev, lprev, Other
  <2>2. CASE s = Right
    BY <2>2, Sides DEF prev, rprev, Other
  <2> QED
    BY <2>1, <2>2, Sides
<1> HIDE DEF f, o
<1>6. ASSUME NEW m \in S
      PROVE  f[m] \in S /\ (f[m] # m => Width(lim)[f[m]] > Width(lim)[m])
  <2>1. CASE t.root[m] \/ t.side[m] = o
    BY <1>2, <2>1
  <2>2. CASE ~t.root[m] /\ t.side[m] # o
    <3>1. PICK p : p = t.parent[m]
      OBVIOUS
    <3>2. t.side[m] = s /\ f[m] = p /\ p \in Inner(t) /\ child(t, p, s) = m
      BY <1>1, <1>2, <2>2, <3>1 DEF HasPlace
    <3>3. Width(lim)[m] < Width(lim)[p] /\ lim[m][s] = lim[p][s]
      BY <1>3, <1>4, <3>2
    <3>4. Width(lim)[m] \in Int /\ Width(lim)[p] \in Int /\ p \in Nodes(t)
      BY <1>1, <3>2
    <3> QED
      BY <3>2, <3>3, <3>4
  <2> QED
    BY <2>1, <2>2
<1>7. Loop(f, n) \in S /\ f[Loop(f, n)] = Loop(f, n)
  <2>1. /\ IsFiniteSet(Node) /\ Cardinality(Node) <= Cardinality(Node)
    <3>1. Cardinality(Node) \in Nat
      BY NodeAssumption, FS_CardinalityType
    <3> QED
      BY <3>1, NodeAssumption
  <2>2. n \in S /\ v \in [S -> Node] /\ \A m \in S : f[m] \in S /\ v[m] = m /\ v[f[m]] = f[m]
    BY <1>1, <1>6
  <2>3. \A m \in S : f[m] # m => Width(lim)[v[f[m]]] > Width(lim)[v[m]]
    BY <1>6, <2>2
  <2> HIDE DEF S, v
  <2> QED
    BY <1>1, <2>1, <2>2, <2>3, LoopEnds
<1>8. PICK m : m = Loop(f, n)
  OBVIOUS
<1>9. m \in Nodes(t) /\ lim[m][s] = lim[n][s] /\ a = t.parent[m] /\ f[m] = m /\ HasPlace(t, m)
  BY <1>2, <1>5, <1>7, <1>8
<1>10. CASE t.root[m]
  BY <1>9, <1>10 DEF HasPlace
<1>11. CASE ~t.root[m]
  <2>1. a \in Inner(t) /\ child(t, a, t.side[m]) = m /\ a # m
    <3>1. a \in Inner(t) /\ child(t, a, t.side[m]) = m
      BY <1>9, <1>11 DEF HasPlace
    <3>2. Width(lim)[m] < Width(lim)[a] /\ Width(lim)[m] \in Int
      BY <1>1, <1>2, <1>4, <1>9, <3>1
    <3> QED
      BY <3>1, <3>2
  <2>2. t.side[m] = o
    BY <1>2, <1>9, <1>11, <2>1
  <2>3. lim[m][s] = pos[a]
    BY <1>1, <1>3, <2>1, <2>2
  <2>4. /\ Beyond(s, lim[a][s], pos[a]) /\ ~Beyond(s, lim[a][s], lim[t.parent[Nil]][s])
        /\ lim[a][s] \in Int /\ pos[a] \in Int /\ lim[t.parent[Nil]][s] \in Int
    BY <1>1, <2>1 DEF Shaped, Spans, Listed, Linked
  <2> QED
    BY <1>9, <2>1, <2>3, <2>4
<1> QED
  BY <1>10, <1>11

\* Whether n remembers the leaf on its side s.
Knows(t, pos, lim, n, s) ==
    ext(t, n, s) \in Leaves(t) /\ lim[ext(t, n, s)][Other(s)] = pos[n]

\* Trees that differ only in the leaves remembered.
Reminded(t, u) ==
    /\ u \in Tree /\ u.used = t.used /\ u.exited = t.exited
    /\ u.flink = t.flink /\ u.blink = t.blink /\ u.parent = t.parent
    /\ u.key = t.key /\ u.root = t.root /\ u.internal = t.internal /\ u.side = t.side
    /\ u.red = t.red

\* The internal node a remembers the leaf e on the other side.
Remember(t, a, s, e) == IF s = Left THEN setrext(t, a, e) ELSE setlext(t, a, e)

\* The two ways to remember.
RightExt(t, a, e) == [t EXCEPT !.rext[a] = e]
LeftExt(t, a, e) == [t EXCEPT !.lext[a] = e]

\* Remembering the leaf on the right changes nothing else (jrb.c:30-31).
LEMMA RightExtFacts ==
    ASSUME NEW t \in Tree, NEW a \in Node, NEW e \in Node, NEW u, u = RightExt(t, a, e)
    PROVE  Reminded(t, u) /\ u.lext = t.lext /\ u.rext = [t.rext EXCEPT ![a] = e]
  BY DEF Tree, Reminded, RightExt

\* Remembering the leaf on the left changes nothing else (jrb.c:28-29).
LEMMA LeftExtFacts ==
    ASSUME NEW t \in Tree, NEW a \in Node, NEW e \in Node, NEW u, u = LeftExt(t, a, e)
    PROVE  Reminded(t, u) /\ u.rext = t.rext /\ u.lext = [t.lext EXCEPT ![a] = e]
  BY DEF Tree, Reminded, LeftExt

\* What Remember changes, and what it leaves when there is no such node.
LEMMA RememberFacts ==
    ASSUME NEW t \in Tree, NEW a \in Node, NEW e \in Node, NEW s \in Side,
           NEW u, u = Remember(t, a, s, e)
    PROVE  /\ Reminded(t, u)
           /\ a # Nil => ext(u, a, Other(s)) = e
           /\ \A m \in Node : \A d \in Side :
                 ~(m = a /\ d = Other(s)) => ext(u, m, d) = ext(t, m, d)
           /\ a = Nil => u = t
<1>0. CASE a = Nil
  <2>1. u = t
    BY <1>0 DEF Remember, setrext, setlext
  <2> QED
    BY <1>0, <2>1 DEF Reminded
<1>1. CASE a # Nil /\ s = Left
  <2>1. u = RightExt(t, a, e)
    BY <1>1 DEF Remember, setrext, RightExt
  <2>2. Reminded(t, u) /\ u.lext = t.lext /\ u.rext = [t.rext EXCEPT ![a] = e]
    BY <2>1, RightExtFacts
  <2>3. t.rext \in [Node -> Node]
    BY TreeFields
  <2> QED
    BY <1>1, <2>2, <2>3, Sides DEF ext, Other
<1>2. CASE a # Nil /\ s = Right
  <2>1. u = LeftExt(t, a, e)
    BY <1>2, Sides DEF Remember, setlext, LeftExt
  <2>2. Reminded(t, u) /\ u.rext = t.rext /\ u.lext = [t.lext EXCEPT ![a] = e]
    BY <2>1, LeftExtFacts
  <2>3. t.lext \in [Node -> Node]
    BY TreeFields
  <2> QED
    BY <1>2, <2>2, <2>3, Sides DEF ext, Other
<1> QED
  BY <1>0, <1>1, <1>2, Sides

\* The leaves remembered matter neither for the shape nor for the colours.
LEMMA RemindedSame ==
    ASSUME NEW t, NEW u, Reminded(t, u)
    PROVE  /\ Inner(u) = Inner(t) /\ Leaves(u) = Leaves(t) /\ Nodes(u) = Nodes(t)
           /\ Red(u) = Red(t)
           /\ \A n, s : child(u, n, s) = child(t, n, s)
           /\ \A n, s : beside(u, n, s) = beside(t, n, s)
           /\ \A pos, lim : Shaped(t, pos, lim) => Shaped(u, pos, lim)
           /\ \A R, h, short : Heights(t, R, h, short) => Heights(u, R, h, short)
           /\ \A R, n : Reds(t, R, n) => Reds(u, R, n)
           /\ \A pos : Sorted(t, pos) => Sorted(u, pos)
<1>1. /\ Inner(u) = Inner(t) /\ Leaves(u) = Leaves(t) /\ Nodes(u) = Nodes(t)
      /\ Red(u) = Red(t)
      /\ \A n, s : child(u, n, s) = child(t, n, s)
      /\ \A n, s : beside(u, n, s) = beside(t, n, s)
      /\ u.root = t.root /\ u.parent = t.parent /\ u.side = t.side /\ u.used = t.used
      /\ u.key = t.key /\ u \in Tree
  BY DEF Reminded, Inner, Leaves, Nodes, Red, child, beside
<1>2. ASSUME NEW pos, NEW lim, Shaped(t, pos, lim) PROVE Shaped(u, pos, lim)
  <2>1. Linked(u)
    <3>1. \A n \in Inner(t) : \A s \in Side : IsChild(u, n, s)
      BY <1>1, <1>2 DEF Shaped, Linked, IsChild
    <3>2. \A n \in Nodes(t) : HasPlace(u, n)
      BY <1>1, <1>2 DEF Shaped, Linked, HasPlace
    <3> QED
      BY <1>1, <1>2, <3>1, <3>2 DEF Shaped, Linked
  <2>2. Listed(u, pos)
    BY <1>1, <1>2 DEF Shaped, Listed
  <2>3. Spans(u, pos, lim)
    BY <1>1, <1>2 DEF Shaped, Spans
  <2> QED
    BY <1>1, <2>1, <2>2, <2>3 DEF Shaped
<1>3. \A R, h, short : Heights(t, R, h, short) => Heights(u, R, h, short)
  BY <1>1 DEF Heights
<1>4. \A R, n : Reds(t, R, n) => Reds(u, R, n)
  BY <1>1 DEF Reds
<1>5. \A pos : Sorted(t, pos) => Sorted(u, pos)
  BY <1>1 DEF Sorted
<1> QED
  BY <1>1, <1>2, <1>3, <1>4, <1>5

\* After setrext or setlext, the inner node next to the stretch of n remembers e, which
\* has a stretch that ends there.
LEMMA Reminds ==
    ASSUME NEW t, NEW pos, NEW lim, Shaped(t, pos, lim), NEW n \in Nodes(t), NEW s \in Side,
           NEW e \in Leaves(t), lim[e][s] = lim[n][s],
           NEW u, u = Remember(t, prev(t, n, s), s, e)
    PROVE  /\ Reminded(t, u)
           /\ \A m \in Inner(t) : pos[m] = lim[n][s] => Knows(u, pos, lim, m, Other(s))
           /\ \A m \in Inner(t) : \A d \in Side :
                 Knows(t, pos, lim, m, d) => Knows(u, pos, lim, m, d)
<1>1. PICK a : a = prev(t, n, s)
  OBVIOUS
<1>2. \/ a = Nil /\ lim[n][s] = lim[t.parent[Nil]][s]
      \/ a \in Inner(t) /\ pos[a] = lim[n][s] /\ lim[n][s] # lim[t.parent[Nil]][s]
  BY <1>1, PrevFacts
<1>3. /\ t \in Tree /\ Inner(t) \subseteq Node \ {Nil} /\ Leaves(t) \subseteq Node
      /\ Other(s) \in Side /\ Other(Other(s)) = s /\ a \in Node
      /\ \A m, q \in Inner(t) : pos[m] = pos[q] => m = q
  BY <1>2, NodeAssumption, NodeKinds, Sides DEF Shaped, Spans
<1>4. /\ Reminded(t, u)
      /\ a # Nil => ext(u, a, Other(s)) = e
      /\ \A m \in Node : \A d \in Side :
            ~(m = a /\ d = Other(s)) => ext(u, m, d) = ext(t, m, d)
  BY <1>1, <1>3, RememberFacts
<1>5. Leaves(u) = Leaves(t)
  BY <1>4, RemindedSame
<1>6. ASSUME NEW m \in Inner(t), pos[m] = lim[n][s] PROVE m = a
  <2>1. CASE a = Nil
    <3>1. /\ Beyond(s, lim[m][s], pos[m]) /\ ~Beyond(s, lim[m][s], lim[t.parent[Nil]][s])
      BY NodeKinds DEF Shaped, Spans
    <3> QED
      BY <1>2, <1>3, <1>6, <2>1, <3>1
  <2>2. CASE a # Nil
    BY <1>2, <1>3, <1>6, <2>2
  <2> QED
    BY <2>1, <2>2
<1>7. a \in Inner(t) => Knows(u, pos, lim, a, Other(s))
  BY <1>2, <1>3, <1>4, <1>5 DEF Knows
<1>8. ASSUME NEW m \in Inner(t), NEW d \in Side, Knows(t, pos, lim, m, d)
      PROVE  Knows(u, pos, lim, m, d)
  <2>1. CASE m = a /\ d = Other(s)
    BY <1>7, <2>1
  <2>2. CASE ~(m = a /\ d = Other(s))
    BY <1>3, <1>4, <1>5, <1>8, <2>2 DEF Knows
  <2> QED
    BY <2>1, <2>2
<1> QED
  BY <1>4, <1>6, <1>7, <1>8

-----------------------------------------------------------------------------
(* The tree as a whole *)

\* A tree with leaves in which all is as it should be.
RedBlack(t, pos, lim) ==
    /\ Shaped(t, pos, lim) /\ Known(t, pos, lim) /\ Sorted(t, pos)
    /\ \E h : Heights(t, Red(t), h, Nil)
    /\ Reds(t, Red(t), Nil)
    /\ t.parent[Nil] \in Red(t) => Inner(t) \subseteq {t.parent[Nil]}

\* Whether a leaf with the key k may come before n.
Fits(t, pos, n, k) ==
    /\ \A m \in Leaves(t) : (n = Nil \/ pos[m] < pos[n]) => t.key[m] <= k
    /\ n # Nil => k <= t.key[n]

\* u has the nodes of t, the new leaf with the key k, and a new inner node.
Larger(t, u, new, i, k) ==
    /\ new \in Node /\ new \notin t.used /\ i \in Node /\ i \notin t.used /\ i # new
    /\ u.used = t.used \union {new, i} /\ u.exited = t.exited
    /\ Leaves(u) = Leaves(t) \union {new} /\ Inner(u) = Inner(t) \union {i}
    /\ u.key[new] = k /\ \A m \in Leaves(t) : u.key[m] = t.key[m]

\* The new leaf is in the order of the keys.
LEMMA GrownSorted ==
    ASSUME NEW t, NEW ps, NEW ls, Shaped(t, ps, ls), Sorted(t, ps),
           NEW n \in Leaves(t) \union {Nil}, NEW old \in Leaves(t), NEW b,
           IF n = Nil THEN old = t.blink[n] /\ b = Right ELSE old = n /\ b = Left,
           NEW new \in Node, new \notin t.used, NEW i \in Node, i \notin t.used, i # new,
           NEW k \in Int, Fits(t, ps, n, k), NEW g, Grown(t, g, new, i, old, b, k),
           NEW P, NEW L, NEW x, NEW y, Spread(t, ps, ls, P, L, new, i, old, b, x, y)
    PROVE  Sorted(g, P)
<1> DEFINE far == beside(t, old, b)
<1>1. /\ t \in Tree /\ Linked(t) /\ Listed(t, ps) /\ b \in Side
      /\ Leaves(t) \subseteq Node \ {Nil, new, i}
      /\ ps \in [Node -> Int]
  BY NodeKinds, Sides DEF Leaves, Linked, Listed, Shaped
<1>2. /\ Leaves(g) = Leaves(t) \union {new} /\ g.key[new] = k
      /\ \A m \in Leaves(t) : g.key[m] = t.key[m] /\ t.key[m] \in Int
  BY <1>1, TreeFields DEF Grown
<1>3. /\ P[new] = x /\ x \in Int /\ \A m \in Leaves(t) : P[m] = ps[m] /\ ps[m] \in Int
      /\ y \in Int /\ ls[old][b] \in Int
      /\ Beyond(b, ls[old][b], x) /\ Beyond(b, x, y) /\ Beyond(b, y, ps[old])
  BY <1>1 DEF Spread, Shaped, Spans
<1>4. /\ far \in Leaves(t) \union {Nil}
      /\ far # Nil => Beyond(b, ps[far], ls[old][b])
      /\ \A m \in Leaves(t) : Beyond(b, ps[m], ps[old]) => far # Nil /\ ~Beyond(b, ps[far], ps[m])
  BY <1>1, FarBeyond DEF Listed
<1>5. n = Nil => far = Nil
  <2> SUFFICES ASSUME n = Nil PROVE far = Nil
    OBVIOUS
  <2>1. beside(t, Nil, Left) = old /\ Other(Left) = b
    BY Sides DEF beside, child, Other
  <2> QED
    BY <1>1, <2>1, Sides DEF Listed
<1> HIDE DEF far
<1>8. \A s \in Side : /\ \A p, q \in Int : Beyond(s, p, q) \/ Beyond(s, q, p) \/ p = q
                      /\ \A p, q, r \in Int : Beyond(s, p, q) /\ Beyond(s, q, r) => Beyond(s, p, r)
  BY BeyondOrder
<1>6. \A m \in Leaves(t) : Beyond(b, ps[m], ps[old]) => far # Nil /\ Beyond(b, ps[m], x)
  <2> SUFFICES ASSUME NEW m \in Leaves(t), Beyond(b, ps[m], ps[old])
               PROVE  far # Nil /\ Beyond(b, ps[m], x)
    OBVIOUS
  <2>1. far # Nil /\ far \in Leaves(t) /\ ~Beyond(b, ps[far], ps[m]) /\ Beyond(b, ps[far], x)
    BY <1>1, <1>3, <1>4, <1>8
  <2> QED
    BY <1>1, <1>3, <1>8, <2>1
<1>7. ASSUME NEW m \in Leaves(t) PROVE P[m] < P[new] => g.key[m] <= k
  <2>1. CASE n = Nil
    BY <1>2, <2>1 DEF Fits
  <2>2. CASE n # Nil
    <3>1. \A p, q \in Int : Beyond(b, p, q) <=> p < q
      BY <2>2, Sides DEF Beyond
    <3>2. x < ps[n]
      BY <1>3, <2>2, <3>1
    <3> QED
      BY <1>2, <1>3, <2>2, <3>2 DEF Fits
  <2> QED
    BY <2>1, <2>2
<1>9. ASSUME NEW m \in Leaves(t) PROVE P[new] < P[m] => k <= g.key[m]
  <2>1. CASE n = Nil
    <3>1. \A p, q \in Int : Beyond(b, p, q) <=> q < p
      BY <2>1, Sides DEF Beyond
    <3>2. ~(ps[old] < ps[m])
      BY <1>3, <1>5, <1>6, <2>1, <3>1
    <3>3. ps[old] < x
      BY <1>3, <3>1
    <3> QED
      BY <1>3, <3>2, <3>3
  <2>2. CASE n # Nil
    <3>1. \A p, q \in Int : Beyond(b, p, q) <=> p < q
      BY <2>2, Sides DEF Beyond
    <3>2. x < ps[m] => ~(ps[m] < ps[n])
      BY <1>3, <1>6, <2>2, <3>1
    <3>3. x < ps[m] => m = n \/ ps[n] < ps[m]
      <4>1. ps[m] = ps[n] => m = n
        BY <1>1, <2>2 DEF Listed
      <4> QED
        BY <1>3, <2>2, <3>2, <4>1
    <3>4. ps[n] < ps[m] => t.key[n] <= t.key[m]
      BY <2>2 DEF Sorted
    <3>5. k <= t.key[n] /\ t.key[n] \in Int /\ t.key[m] \in Int
      BY <1>2, <2>2 DEF Fits
    <3> QED
      BY <1>2, <1>3, <3>3, <3>4, <3>5
  <2> QED
    BY <2>1, <2>2
<1> QED
  BY <1>2, <1>3, <1>7, <1>9 DEF Sorted

\* All inner nodes still know their leaves, but the one beyond the new leaf.
LEMMA GrownKnown ==
    ASSUME NEW t, NEW ps, NEW ls, Shaped(t, ps, ls), Known(t, ps, ls),
           NEW old \in Leaves(t), NEW b \in Side,
           NEW new \in Node, new \notin t.used, NEW i \in Node, i \notin t.used, i # new,
           NEW k \in Int, NEW g, Grown(t, g, new, i, old, b, k),
           NEW P, NEW L, NEW x, NEW y, Spread(t, ps, ls, P, L, new, i, old, b, x, y)
    PROVE  \A m \in Inner(g) : \A s \in Side :
              Knows(g, P, L, m, s) \/ (s = Other(b) /\ P[m] = L[new][b])
<1> DEFINE o == Other(b)
<1>1. /\ Leaves(t) \subseteq Node \ {Nil, new, i} /\ Inner(t) \subseteq Node \ {Nil, new, i}
      /\ b # o /\ Other(o) = b /\ o \in Side /\ \A s \in Side : s = b \/ s = o
  BY NodeKinds, Sides DEF Leaves, Inner, Shaped, Linked
<1>2. /\ Leaves(g) = Leaves(t) \union {new} /\ Inner(g) = Inner(t) \union {i}
      /\ ext(g, i, b) = new /\ ext(g, i, o) = old
      /\ \A m \in Inner(t) : \A s \in Side : ext(g, m, s) = ext(t, m, s)
  BY DEF Grown
<1>3. /\ P[i] = y /\ \A m \in Inner(t) : P[m] = ps[m]
      /\ L[new][b] = ls[old][b] /\ L[new][o] = y
      /\ L[old][b] = y /\ L[old][o] = ls[old][o]
      /\ \A m \in Leaves(t) \ {old} : L[m] = ls[m]
  BY <1>1 DEF Spread
<1> HIDE DEF o
<1>4. ASSUME NEW m \in Inner(t), NEW s \in Side
      PROVE  Knows(g, P, L, m, s) \/ (s = o /\ P[m] = L[new][b])
  <2>1. PICK e : e = ext(t, m, s)
    OBVIOUS
  <2>2. e \in Leaves(t) /\ ls[e][Other(s)] = ps[m] /\ ext(g, m, s) = e /\ Other(s) \in Side
    BY <1>2, <2>1, Sides DEF Known
  <2>3. CASE e = old /\ s = o
    BY <1>1, <1>3, <2>2, <2>3
  <2>4. CASE e = old /\ s = b
    BY <1>1, <1>2, <1>3, <2>2, <2>4 DEF Knows, o
  <2>5. CASE e # old
    BY <1>2, <1>3, <2>2, <2>5 DEF Knows
  <2> QED
    BY <1>1, <2>3, <2>4, <2>5
<1>5. Knows(g, P, L, i, b) /\ Knows(g, P, L, i, o)
  BY <1>1, <1>2, <1>3 DEF Knows, o
<1> QED
  BY <1>1, <1>2, <1>4, <1>5 DEF o

\* malloc finds a node that is free.
LEMMA MallocFacts ==
    ASSUME NEW t, t.used \subseteq Node, NEW c \in Nat,
           Cardinality(t.used) + c < Cardinality(Node)
    PROVE  malloc(t) \in Node /\ malloc(t) \notin t.used
<1>1. IsFiniteSet(Node) /\ IsFiniteSet(t.used)
  BY NodeAssumption, FS_Subset
<1>2. Cardinality(t.used) \in Nat /\ Cardinality(Node) \in Nat
  BY <1>1, FS_CardinalityType
<1>3. t.used # Node
  BY <1>2
<1>4. \E n \in Node : n \notin t.used
  BY <1>3
<1> QED
  BY <1>4 DEF malloc

\* The leaf at one end below a node.
below(t, n, s) == Loop([m \in Node |-> IF t.internal[m] THEN child(t, m, s) ELSE m], n)

\* Going down on one side ends at a leaf with the stretch of the node on that side.
LEMMA BelowFacts ==
    ASSUME NEW t, NEW pos, NEW lim, Shaped(t, pos, lim), NEW n \in Nodes(t), NEW s \in Side
    PROVE  below(t, n, s) \in Leaves(t) /\ lim[below(t, n, s)][s] = lim[n][s]
<1> DEFINE f == [m \in Node |-> IF t.internal[m] THEN child(t, m, s) ELSE m]
           S == {m \in Nodes(t) : lim[m][s] = lim[n][s]}
           v == [m \in S |-> m]
           rank == [m \in Node |-> -Width(lim)[m]]
<1>1. /\ t \in Tree /\ Linked(t) /\ Ranked(t, Width(lim)) /\ Width(lim) \in [Node -> Int]
      /\ Nodes(t) \subseteq Node \ {Nil}
      /\ \A m \in Nodes(t) : f[m] = (IF m \in Inner(t) THEN child(t, m, s) ELSE m)
  BY WidthRanks, NodeKinds DEF Shaped, Ranked, Nodes, Inner
<1>2. \A m \in Inner(t) : /\ child(t, m, s) \in Nodes(t) /\ lim[child(t, m, s)][s] = lim[m][s]
                          /\ Width(lim)[child(t, m, s)] < Width(lim)[m]
  BY <1>1 DEF Shaped, Linked, IsChild, Spans, Ranked
<1>3. \A w, z \in Int : w < z => -w > -z
  OBVIOUS
<1> HIDE DEF f
<1>4. rank \in [Node -> Int] /\ \A m \in Node : rank[m] = -Width(lim)[m] /\ Width(lim)[m] \in Int
  BY <1>1
<1> HIDE DEF rank
<1>5. ASSUME NEW m \in S PROVE f[m] \in S /\ (f[m] # m => rank[f[m]] > rank[m])
  <2>1. CASE m \in Inner(t)
    <3>1. PICK c : c = child(t, m, s)
      OBVIOUS
    <3>2. f[m] = c /\ c \in S /\ c \in Node /\ m \in Node /\ Width(lim)[c] < Width(lim)[m]
      BY <1>1, <1>2, <2>1, <3>1
    <3> QED
      BY <1>3, <1>4, <3>2
  <2>2. CASE m \notin Inner(t)
    BY <1>1, <2>2
  <2> QED
    BY <2>1, <2>2
<1>6. Loop(f, n) \in S /\ f[Loop(f, n)] = Loop(f, n)
  <2>1. /\ IsFiniteSet(Node) /\ Cardinality(Node) <= Cardinality(Node)
    <3>1. Cardinality(Node) \in Nat
      BY NodeAssumption, FS_CardinalityType
    <3> QED
      BY <3>1, NodeAssumption
  <2>2. n \in S /\ v \in [S -> Node] /\ \A m \in S : f[m] \in S /\ v[m] = m /\ v[f[m]] = f[m]
    BY <1>1, <1>5
  <2>3. \A m \in S : f[m] # m => rank[v[f[m]]] > rank[v[m]]
    BY <1>5, <2>2
  <2> HIDE DEF S, v
  <2> QED
    BY <1>4, <2>1, <2>2, <2>3, LoopEnds
<1>7. PICK m : m = Loop(f, n)
  OBVIOUS
<1>8. m \notin Inner(t)
  <2> SUFFICES ASSUME m \in Inner(t) PROVE FALSE
    OBVIOUS
  <2>1. m \in Nodes(t) /\ child(t, m, s) = m
    BY <1>1, <1>6, <1>7
  <2>2. Width(lim)[m] < Width(lim)[m] /\ Width(lim)[m] \in Int
    BY <1>1, <1>2, <2>1
  <2> QED
    BY <2>2
<1>9. m = below(t, n, s)
  BY <1>7 DEF below, f
<1> QED
  BY <1>1, <1>6, <1>7, <1>8, <1>9, NodeKinds

\* The leaves at the ends of the tree are the ends of the list.
LEMMA EndFacts ==
    ASSUME NEW t, NEW pos, NEW lim, Shaped(t, pos, lim), NEW s \in Side,
           NEW e, e = below(t, t.parent[Nil], s)
    PROVE  /\ e \in Leaves(t) /\ beside(t, e, s) = Nil /\ beside(t, Nil, Other(s)) = e
           /\ lim[e][s] = lim[t.parent[Nil]][s]
<1>1. e \in Leaves(t) /\ lim[e][s] = lim[t.parent[Nil]][s]
  BY BelowFacts DEF Shaped, Linked
<1>2. beside(t, e, s) = Nil
  <2> SUFFICES ASSUME beside(t, e, s) # Nil PROVE FALSE
    OBVIOUS
  <2>1. PICK m : m = beside(t, e, s)
    OBVIOUS
  <2>2. m \in Leaves(t) /\ m \in Nodes(t) /\ m \in Node /\ e \in Node /\ t.parent[Nil] \in Node
    BY <1>1, <2>1, NodeKinds DEF Shaped, Listed, Linked
  <2>3. Beyond(s, pos[m], lim[e][s])
    BY <1>1, <2>1, FarBeyond
  <2>4. Beyond(s, lim[m][s], pos[m]) /\ ~Beyond(s, lim[m][s], lim[t.parent[Nil]][s])
    BY <2>2 DEF Shaped, Spans
  <2>5. lim[m][s] \in Int /\ pos[m] \in Int /\ lim[e][s] \in Int
    BY <2>2 DEF Shaped, Spans, Listed
  <2> QED
    BY <1>1, <2>3, <2>4, <2>5, BeyondOrder
<1>3. beside(t, Nil, Other(s)) = e
  BY <1>1, <1>2 DEF Shaped, Listed
<1> QED
  BY <1>1, <1>2, <1>3

\* There are positions and stretches for the new leaf and the new node.
LEMMA SpreadExists ==
    ASSUME NEW t, NEW ps \in [Node -> Int], NEW ls \in [Node -> [Side -> Int]], NEW old \in Node,
           NEW new \in Node, NEW i \in Node, i # new, old # i, old # new,
           NEW b \in Side, NEW x \in Int, NEW y \in Int,
           Beyond(b, ls[old][b], x) /\ Beyond(b, x, y) /\ Beyond(b, y, ps[old]),
           \A m \in Node : ps[m] # x /\ ps[m] # y
    PROVE  \E P, L : Spread(t, ps, ls, P, L, new, i, old, b, x, y)
<1>1. PICK P : P = [m \in Node |-> IF m = new THEN x ELSE IF m = i THEN y ELSE ps[m]]
  OBVIOUS
<1>2. /\ P \in [Node -> Int] /\ P[new] = x /\ P[i] = y
      /\ \A m \in Node \ {new, i} : P[m] = ps[m]
  BY <1>1
<1>3. PICK c : c = [s \in Side |-> IF s = b THEN ls[old][b] ELSE y]
  OBVIOUS
<1>4. PICK d : d = [s \in Side |-> IF s = b THEN y ELSE ls[old][s]]
  OBVIOUS
<1>5. PICK L : L = [m \in Node |-> IF m = new THEN c ELSE IF m = i THEN ls[old]
                                   ELSE IF m = old THEN d ELSE ls[m]]
  OBVIOUS
<1>6. /\ c \in [Side -> Int] /\ c[b] = ls[old][b] /\ c[Other(b)] = y
      /\ d \in [Side -> Int] /\ d[b] = y /\ d[Other(b)] = ls[old][Other(b)]
      /\ ls[old] \in [Side -> Int]
  BY <1>3, <1>4, Sides
<1>7. /\ L \in [Node -> [Side -> Int]] /\ L[i] = ls[old] /\ L[new] = c /\ L[old] = d
      /\ \A m \in Node \ {new, i, old} : L[m] = ls[m]
  BY <1>5, <1>6
<1> QED
  BY <1>2, <1>6, <1>7 DEF Spread

\* An insertion beside a leaf keeps a red-black tree with its leaves in order.
THEOREM InsertGrows ==
    ASSUME NEW t, NEW pos, NEW lim, RedBlack(t, pos, lim), NEW n \in Leaves(t) \union {Nil},
           NEW k \in Int, Fits(t, pos, n, k), Cardinality(t.used) + 1 < Cardinality(Node),
           NEW v, v = jrb_insert_b(t, n, k)
    PROVE  \E new, i, P, L : Larger(t, v, new, i, k) /\ RedBlack(v, P, L)
<1>1. /\ Shaped(t, pos, lim) /\ Known(t, pos, lim) /\ Sorted(t, pos) /\ t \in Tree
      /\ Linked(t) /\ Listed(t, pos) /\ t.parent[Nil] # Nil /\ t.used \subseteq Node
      /\ Leaves(t) \subseteq Nodes(t) /\ Nodes(t) \subseteq Node \ {Nil}
  BY TreeFields, NodeKinds DEF RedBlack, Shaped, Linked, Nodes
<1>2. PICK new : new = malloc(t)
  OBVIOUS
<1>3. new \in Node /\ new \notin t.used
  BY <1>1, <1>2, MallocFacts
<1>4. PICK old, b, l, r : Before(t, n, new, old, b, l, r) /\ b \in Side /\ old \in Leaves(t)
                          /\ (IF n = Nil THEN old = t.blink[n] /\ b = Right ELSE old = n /\ b = Left)
  <2>1. CASE n = Nil
    <3>1. beside(t, Nil, Left) = t.blink[Nil] /\ beside(t, Nil, Other(Right)) \in Leaves(t)
      BY <1>1, EndFacts, Sides DEF beside, child, Other
    <3>2. t.blink[Nil] \in Leaves(t)
      BY <3>1, Sides DEF Other
    <3> QED
      BY <2>1, <3>2, Sides DEF Before
  <2>2. CASE n # Nil
    BY <2>2, Sides DEF Before
  <2> QED
    BY <2>1, <2>2
<1>5. old # Nil /\ old \in Node
  BY <1>1, <1>4
<1>6. PICK a, c, d : a = mk_new_ext(t, new, k) /\ c = insert(a, new, n) /\ d = Unrooted(c, old)
  OBVIOUS
<1>7. PICK i : i = malloc(d)
  OBVIOUS
<1>8. PICK e, f, g : Growth(t, n, new, k, i, old, l, r, a, c, d, e, f, g)
  <2>1. PICK e : e = Made(d, i, l, r)
    OBVIOUS
  <2>2. PICK f : f = Hang(Hang(e, i, Left, l), i, Right, r)
    OBVIOUS
  <2>3. PICK g : g = IF t.parent[old] = Nil THEN Plant(f, i) ELSE Hang(f, t.parent[old], t.side[old], i)
    OBVIOUS
  <2> QED
    BY <1>6, <2>1, <2>2, <2>3 DEF Growth
<1>9. PICK u : u = recolor(g, i)
  OBVIOUS
<1>10. v = Remember(u, prev(u, new, b), b, new)
  <2>1. /\ a = mk_new_ext(t, new, k) /\ c = insert(a, new, n) /\ d = Unrooted(c, old)
        /\ e = Made(d, i, l, r)
        /\ f = Hang(Hang(e, i, Left, l), i, Right, r)
        /\ g = IF t.parent[old] = Nil THEN Plant(f, i) ELSE Hang(f, t.parent[old], t.side[old], i)
    BY SMTT(60), <1>8 DEF Growth
  <2>2. mk_new_int(d, l, r, t.parent[old], t.side[old]) = u
    BY <1>7, <1>9, <2>1 DEF mk_new_int, Made
  <2>3. CASE n = Nil
    <3>1. old = t.blink[n] /\ b = Right /\ l = old /\ r = new
      BY SMTT(60), <1>4, <2>3 DEF Before
    <3>2. v = setlext(u, rprev(u, new), new)
      BY <1>1, <1>2, <2>1, <2>2, <2>3, <3>1 DEF jrb_insert_b, Unrooted
    <3> QED
      BY <3>1, <3>2, Sides DEF Remember, prev
  <2>4. CASE n # Nil
    <3>1. old = n /\ b = Left /\ l = new /\ r = old
      BY <1>4, <2>4 DEF Before
    <3>2. v = setrext(u, lprev(u, new), new)
      BY <1>1, <1>2, <2>1, <2>2, <2>4, <3>1 DEF jrb_insert_b, Unrooted
    <3> QED
      BY <3>1, <3>2, Sides DEF Remember, prev
  <2> QED
    BY <2>3, <2>4
<1>11. i \in Node /\ i \notin t.used /\ i # new
  <2>1. a \in Tree /\ a.used = t.used \union {new}
    BY <1>1, <1>3, <1>6, NewExtFacts
  <2>2. n \in Node /\ new # n /\ new # a.blink[n]
    <3>1. a.blink = t.blink /\ n \in Node /\ n \in t.used
      BY SMTT(60), <1>1, <1>3, <1>6, NewExtFacts, NodeAssumption DEF Leaves, Linked
    <3>2. beside(t, n, Left) \in Leaves(t) \union {Nil} /\ beside(t, n, Left) = t.blink[n]
      BY <1>1, Sides DEF Listed, beside, child, Other
    <3>3. t.blink[n] \in t.used
      BY <1>1, <3>2 DEF Leaves, Linked
    <3> QED
      BY <1>3, <3>1, <3>3
  <2>3. c \in Tree /\ c.used = a.used
    BY <1>3, <1>6, <2>1, <2>2, InsertFacts DEF SameRest
  <2>4. d.used = t.used \union {new}
    <3>1. SameRest(c, d)
      BY <1>5, <1>6, <2>3, UnrootFacts
    <3> QED
      BY <2>1, <2>3, <3>1 DEF SameRest
  <2>5. IsFiniteSet(t.used) /\ Cardinality(t.used) \in Nat
    BY <1>1, NodeAssumption, FS_Subset, FS_CardinalityType
  <2>6. Cardinality(d.used) = Cardinality(t.used) + 1
    BY <1>3, <2>4, <2>5, FS_AddElement
  <2>7. d.used \subseteq Node /\ Cardinality(d.used) + 0 < Cardinality(Node)
    BY <1>1, <1>3, <2>4, <2>5, <2>6
  <2> QED
    BY <1>7, <2>4, <2>7, MallocFacts
<1>12. PICK ps, ls, x, y :
          /\ x \in Int /\ y \in Int
          /\ Shaped(t, ps, ls) /\ Known(t, ps, ls) /\ Sorted(t, ps)
          /\ \A m, q \in Node : \A s \in Side : Beyond(s, ps[m], ps[q]) <=> Beyond(s, pos[m], pos[q])
          /\ Beyond(b, ls[old][b], x) /\ Beyond(b, x, y) /\ Beyond(b, y, ps[old])
          /\ \A m \in Node : ps[m] # x /\ ps[m] # y
  BY <1>1, <1>4, Room
<1>13. Fits(t, ps, n, k)
  <2>1. \A m, q \in Node : ps[m] < ps[q] => pos[m] < pos[q]
    BY <1>12, Sides DEF Beyond
  <2> QED
    BY <1>1, <2>1 DEF Fits
<1>14. PICK P, L : Spread(t, ps, ls, P, L, new, i, old, b, x, y)
  <2>1. ps \in [Node -> Int] /\ ls \in [Node -> [Side -> Int]] /\ old # i /\ old # new
    BY <1>1, <1>3, <1>4, <1>11, <1>12 DEF Shaped, Listed, Spans, Leaves
  <2> QED
    BY <1>3, <1>4, <1>5, <1>11, <1>12, <2>1, SpreadExists
<1>15. Grown(t, g, new, i, old, b, k)
  BY <1>1, <1>3, <1>4, <1>5, <1>8, <1>11, GrownFacts
<1>16. Shaped(g, P, L) /\ g \in Tree
  <2>1. Linked(g)
    BY <1>1, <1>3, <1>4, <1>11, <1>15, GrownLinked
  <2>2. Listed(g, P)
    BY <1>3, <1>4, <1>11, <1>12, <1>14, <1>15, GrownListed
  <2>3. Spans(g, P, L)
    BY <1>3, <1>4, <1>11, <1>12, <1>14, <1>15, GrownSpans
  <2> QED
    BY <1>15, <2>1, <2>2, <2>3 DEF Shaped, Grown
<1>17. Sorted(g, P)
  BY <1>3, <1>4, <1>11, <1>12, <1>13, <1>14, <1>15, GrownSorted
<1>18. \A m \in Inner(g) : \A s \in Side :
          Knows(g, P, L, m, s) \/ (s = Other(b) /\ P[m] = L[new][b])
  BY <1>3, <1>4, <1>11, <1>12, <1>14, <1>15, GrownKnown
<1>19. /\ i \in Red(g) /\ Reds(g, Red(g), i)
       /\ g.parent[Nil] \in Red(g) => g.root[i] \/ g.parent[i] = g.parent[Nil]
       /\ \E hs : Heights(g, Red(g), hs, Nil)
  <2>1. PICK h : Heights(t, Red(t), h, Nil)
    BY DEF RedBlack
  <2>2. /\ Reds(t, Red(t), Nil)
        /\ t.parent[Nil] \in Red(t) => Inner(t) \subseteq {t.parent[Nil]}
    BY DEF RedBlack
  <2> QED
    BY <1>1, <1>3, <1>4, <1>11, <1>15, <2>1, <2>2, GrownColours
<1>20. /\ Kept(g, u, P, L) /\ Reds(u, Red(u), Nil) /\ u.parent[Nil] \notin Red(u)
       /\ \E h : Heights(u, Red(u), h, Nil)
  <2>1. PICK hs : Heights(g, Red(g), hs, Nil)
    BY <1>19
  <2> QED
    BY <1>9, <1>16, <1>19, <2>1, RecolorKeeps
<1>21. PICK lims : Shaped(u, P, lims) /\ \A m \in Leaves(g) : lims[m] = L[m]
  BY <1>20 DEF Kept
<1>22. /\ u.used = g.used /\ u.exited = g.exited /\ u.key = g.key
       /\ u.lext = g.lext /\ u.rext = g.rext
       /\ Leaves(u) = Leaves(g) /\ Inner(u) = Inner(g)
  BY <1>20 DEF Kept, Arranged, SameList
<1>23. new \in Leaves(u) /\ new \in Nodes(u)
  BY <1>15, <1>16, <1>21, <1>22, NodeKinds DEF Grown, Shaped
<1>24. Sorted(u, P)
  BY <1>17, <1>22 DEF Sorted
<1>25. \A m \in Inner(u) : \A s \in Side :
          Knows(u, P, lims, m, s) \/ (s = Other(b) /\ P[m] = lims[new][b])
  <2>1. \A m \in Inner(g) : \A s \in Side : ext(u, m, s) = ext(g, m, s)
    BY <1>22 DEF ext
  <2>2. \A m \in Inner(g) : \A s \in Side : Knows(g, P, L, m, s) => Knows(u, P, lims, m, s)
    BY <1>21, <1>22, <2>1 DEF Knows
  <2>3. lims[new] = L[new]
    BY <1>21, <1>22, <1>23
  <2> QED
    BY <1>18, <1>22, <2>2, <2>3
<1>26. /\ Reminded(u, v)
       /\ \A m \in Inner(u) : P[m] = lims[new][b] => Knows(v, P, lims, m, Other(b))
       /\ \A m \in Inner(u) : \A s \in Side :
             Knows(u, P, lims, m, s) => Knows(v, P, lims, m, s)
  BY <1>4, <1>10, <1>21, <1>23, Reminds
<1>27. /\ Inner(v) = Inner(u) /\ Leaves(v) = Leaves(u) /\ Red(v) = Red(u)
       /\ Shaped(v, P, lims) /\ Reds(v, Red(v), Nil) /\ Sorted(v, P)
       /\ \E h : Heights(v, Red(v), h, Nil)
  <2>1. /\ Inner(v) = Inner(u) /\ Leaves(v) = Leaves(u) /\ Red(v) = Red(u)
    BY <1>26, RemindedSame
  <2>2. Shaped(v, P, lims) /\ Reds(v, Red(u), Nil) /\ Sorted(v, P)
    BY <1>20, <1>21, <1>24, <1>26, RemindedSame
  <2>3. \E h : Heights(v, Red(u), h, Nil)
    BY <1>20, <1>26, RemindedSame
  <2> QED
    BY <2>1, <2>2, <2>3
<1>28. Known(v, P, lims)
  BY <1>25, <1>26, <1>27 DEF Known, Knows
<1>29. v.parent[Nil] \notin Red(v)
  BY <1>20, <1>26, <1>27 DEF Reminded
<1>30. RedBlack(v, P, lims)
  BY <1>27, <1>28, <1>29 DEF RedBlack
<1>31. Larger(t, v, new, i, k)
  <2>1. v.used = u.used /\ v.exited = u.exited /\ v.key = u.key
    BY <1>26 DEF Reminded
  <2> QED
    BY <1>3, <1>11, <1>15, <1>22, <1>27, <2>1 DEF Larger, Grown
<1> QED
  BY <1>30, <1>31

-----------------------------------------------------------------------------
(* Lookup *)

\* A leaf farther on a side is beyond the stretch.
LEMMA PastStretch ==
    ASSUME NEW t, NEW pos, NEW lim, Shaped(t, pos, lim), NEW s \in Side,
           NEW e \in Leaves(t), NEW m \in Leaves(t), Beyond(s, pos[m], pos[e])
    PROVE  Beyond(s, pos[m], lim[e][s])
<1>1. PICK w : w = beside(t, e, s)
  OBVIOUS
<1>2. w # Nil /\ ~Beyond(s, pos[w], pos[m]) /\ w \in Leaves(t)
  BY <1>1 DEF Shaped, Listed
<1>3. Beyond(s, pos[w], lim[e][s])
  BY <1>1, <1>2, FarBeyond
<1>4. pos[w] \in Int /\ pos[m] \in Int /\ lim[e][s] \in Int
  BY <1>2, NodeKinds DEF Shaped, Listed, Spans
<1> QED
  BY <1>2, <1>3, <1>4, BeyondOrder

\* No two leaves have stretches that end at the same place.
LEMMA LeafByEnd ==
    ASSUME NEW t, NEW pos, NEW lim, Shaped(t, pos, lim), NEW s \in Side,
           NEW e \in Leaves(t), NEW m \in Leaves(t), lim[e][s] = lim[m][s]
    PROVE  e = m
<1>1. /\ pos[e] \in Int /\ pos[m] \in Int /\ lim[e][s] \in Int
      /\ Beyond(s, lim[e][s], pos[e]) /\ Beyond(s, lim[m][s], pos[m])
      /\ (pos[e] = pos[m] => e = m)
  BY NodeKinds DEF Shaped, Listed, Spans
<1>2. ~Beyond(s, pos[m], pos[e])
  <2> SUFFICES ASSUME Beyond(s, pos[m], pos[e]) PROVE FALSE
    OBVIOUS
  <2>1. Beyond(s, pos[m], lim[e][s])
    BY PastStretch
  <2> QED
    BY <1>1, <2>1, BeyondOrder
<1>3. ~Beyond(s, pos[e], pos[m])
  <2> SUFFICES ASSUME Beyond(s, pos[e], pos[m]) PROVE FALSE
    OBVIOUS
  <2>1. Beyond(s, pos[e], lim[m][s])
    BY PastStretch
  <2> QED
    BY <1>1, <2>1, BeyondOrder
<1> QED
  BY <1>1, <1>2, <1>3, BeyondOrder

\* Where the search for k may be: all leaves to the left have smaller keys, and all
\* leaves to the right and the last one below larger keys.
Narrowed(t, pos, lim, k) ==
    {n \in Nodes(t) :
        \A m \in Leaves(t) :
           /\ pos[m] < lim[n][Left] => t.key[m] < k
           /\ lim[n][Right] < pos[m] => k < t.key[m]
           /\ lim[m][Right] = lim[n][Right] => k < t.key[m]}

\* The loop of the lookup keeps to where k may be, and stops at a leaf or at a node
\* that remembers a leaf of k (jrb.c:217-224).
LEMMA DescendFacts ==
    ASSUME NEW t, NEW pos, NEW lim, Shaped(t, pos, lim), Known(t, pos, lim), Sorted(t, pos),
           NEW k \in Int, k < t.key[t.blink[Nil]], NEW n, n = Descend(t, k)
    PROVE  /\ n \in Narrowed(t, pos, lim, k)
           /\ t.internal[n] => k = t.key[t.lext[n]]
<1> DEFINE f == [m \in Node |->
                    IF ~t.internal[m] \/ k = t.key[t.lext[m]] THEN m
                    ELSE child(t, m, IF k < t.key[t.lext[m]] THEN Left ELSE Right)]
           S == Narrowed(t, pos, lim, k)
           v == [m \in S |-> m]
           rank == [m \in Node |-> -Width(lim)[m]]
           root == t.parent[Nil]
<1>1. /\ t \in Tree /\ Linked(t) /\ Ranked(t, Width(lim)) /\ Width(lim) \in [Node -> Int]
      /\ Nodes(t) \subseteq Node \ {Nil} /\ root \in Nodes(t)
      /\ Inner(t) \subseteq Nodes(t) /\ Leaves(t) \subseteq Nodes(t)
      /\ pos \in [Node -> Int] /\ lim \in [Node -> [Side -> Int]]
      /\ \A m \in Nodes(t) : t.internal[m] <=> m \in Inner(t)
      /\ \A m \in Node : t.key[m] \in Int
  <2>1. /\ t \in Tree /\ Linked(t) /\ Ranked(t, Width(lim)) /\ Width(lim) \in [Node -> Int]
        /\ root \in Nodes(t)
        /\ pos \in [Node -> Int] /\ lim \in [Node -> [Side -> Int]]
    <3>1. Ranked(t, Width(lim)) /\ t \in Tree /\ Linked(t) /\ Listed(t, pos) /\ Spans(t, pos, lim)
      BY WidthRanks DEF Shaped
    <3>2. Width(lim) \in [Node -> Int]
      BY <3>1 DEF Ranked
    <3> QED
      BY <3>1, <3>2 DEF Linked, Listed, Spans
  <2>2. \A m \in Nodes(t) : t.internal[m] <=> m \in Inner(t)
    BY DEF Nodes, Inner
  <2>3. t.key \in [Node -> Int]
    BY <2>1, TreeFields
  <2> QED
    BY <2>1, <2>2, <2>3, NodeKinds
<1>2. \A m \in Nodes(t) :
         f[m] = IF ~t.internal[m] \/ k = t.key[t.lext[m]] THEN m
                ELSE child(t, m, IF k < t.key[t.lext[m]] THEN Left ELSE Right)
  BY <1>1
<1>3. Descend(t, k) = Loop(f, root)
  BY DEF Descend
<1> HIDE DEF f
<1>4. \A m \in Inner(t) : \A s \in Side :
         /\ child(t, m, s) \in Nodes(t) /\ lim[child(t, m, s)][s] = lim[m][s]
         /\ lim[child(t, m, s)][Other(s)] = pos[m]
         /\ Width(lim)[child(t, m, s)] < Width(lim)[m]
  BY <1>1 DEF Shaped, Linked, IsChild, Spans, Ranked
<1>5. \A m \in Inner(t) : t.lext[m] \in Leaves(t) /\ lim[t.lext[m]][Right] = pos[m]
  <2>1. ASSUME NEW m \in Inner(t)
        PROVE  ext(t, m, Left) \in Leaves(t) /\ lim[ext(t, m, Left)][Other(Left)] = pos[m]
    BY Sides DEF Known
  <2> QED
    BY <2>1 DEF ext, Other
<1>6. \A m \in Nodes(t) : /\ lim[m][Left] \in Int /\ lim[m][Right] \in Int /\ pos[m] \in Int
                          /\ lim[m][Left] < pos[m] /\ pos[m] < lim[m][Right]
  <2>1. \A m \in Nodes(t) : \A s \in Side : Beyond(s, lim[m][s], pos[m]) /\ lim[m][s] \in Int
    BY <1>1 DEF Shaped, Spans
  <2>2. \A m \in Nodes(t) : pos[m] \in Int
    BY <1>1
  <2> QED
    BY <2>1, <2>2, Sides DEF Beyond
\* Leaves on either side of an inner node are on that side of the leaf it knows there.
<1>7. ASSUME NEW m \in Inner(t), NEW w \in Leaves(t), pos[w] < pos[m]
      PROVE  t.key[w] <= t.key[t.lext[m]]
  <2>1. PICK e \in Leaves(t) : e = t.lext[m] /\ lim[e][Right] = pos[m]
    BY <1>5
  <2>2. ~(pos[e] < pos[w])
    <3>1. pos[e] < pos[w] => lim[e][Right] < pos[w]
      BY PastStretch, Sides DEF Beyond
    <3> QED
      BY <1>1, <1>6, <1>7, <2>1, <3>1
  <2>3. pos[w] = pos[e] => w = e
    BY <2>1 DEF Shaped, Listed
  <2>4. t.key[w] \in Int /\ t.key[e] \in Int /\ pos[w] \in Int /\ pos[e] \in Int
    BY <1>1
  <2>5. pos[w] < pos[e] => t.key[w] <= t.key[e]
    BY DEF Sorted
  <2> QED
    BY <2>1, <2>2, <2>3, <2>4, <2>5
<1>8. ASSUME NEW m \in Inner(t), NEW w \in Leaves(t), pos[m] < pos[w]
      PROVE  t.key[t.lext[m]] <= t.key[w]
  <2>1. PICK e \in Leaves(t) : e = t.lext[m] /\ lim[e][Right] = pos[m]
    BY <1>5
  <2>2. pos[e] < pos[w]
    BY <1>1, <1>6, <1>8, <2>1
  <2> QED
    BY <2>1, <2>2 DEF Sorted
<1>9. ASSUME NEW m \in S, f[m] # m
      PROVE  f[m] \in S /\ Width(lim)[f[m]] < Width(lim)[m]
  <2>1. m \in Nodes(t) /\ m \in Inner(t) /\ k # t.key[t.lext[m]]
    BY <1>1, <1>2, <1>9 DEF Narrowed
  <2>2. PICK e \in Leaves(t) : e = t.lext[m] /\ lim[e][Right] = pos[m]
    BY <1>5, <2>1
  <2>3. t.key[e] \in Int
    BY <1>1
  <2>4. \A w \in Leaves(t) : /\ pos[w] < lim[m][Left] => t.key[w] < k
                             /\ lim[m][Right] < pos[w] => k < t.key[w]
                             /\ lim[w][Right] = lim[m][Right] => k < t.key[w]
    BY DEF Narrowed
  <2>5. CASE k < t.key[e]
    <3>1. PICK c : c = child(t, m, Left)
      OBVIOUS
    <3>2. /\ c = f[m] /\ c \in Nodes(t) /\ lim[c][Left] = lim[m][Left] /\ lim[c][Right] = pos[m]
          /\ Width(lim)[c] < Width(lim)[m]
      BY SMTT(60), <1>1, <1>2, <1>4, <2>1, <2>2, <2>5, <3>1, Sides DEF Other
    <3>3. \A w \in Leaves(t) : pos[m] < pos[w] => k < t.key[w]
      <4> SUFFICES ASSUME NEW w \in Leaves(t), pos[m] < pos[w] PROVE k < t.key[w]
        OBVIOUS
      <4>1. t.key[e] <= t.key[w] /\ t.key[w] \in Int
        BY <1>1, <1>8, <2>1, <2>2
      <4> QED
        BY <2>3, <2>5, <4>1
    <3>4. \A w \in Leaves(t) : lim[w][Right] = pos[m] => k < t.key[w]
      <4> SUFFICES ASSUME NEW w \in Leaves(t), lim[w][Right] = pos[m] PROVE k < t.key[w]
        OBVIOUS
      <4>1. w = e
        BY <2>2, LeafByEnd, Sides
      <4> QED
        BY <2>5, <4>1
    <3> QED
      BY <2>4, <3>2, <3>3, <3>4 DEF Narrowed
  <2>6. CASE ~(k < t.key[e])
    <3>1. PICK c : c = child(t, m, Right)
      OBVIOUS
    <3>2. /\ c = f[m] /\ c \in Nodes(t) /\ lim[c][Right] = lim[m][Right] /\ lim[c][Left] = pos[m]
          /\ Width(lim)[c] < Width(lim)[m]
      BY SMTT(60), <1>1, <1>2, <1>4, <2>1, <2>2, <2>6, <3>1, Sides DEF Other
    <3>3. \A w \in Leaves(t) : pos[w] < pos[m] => t.key[w] < k
      <4> SUFFICES ASSUME NEW w \in Leaves(t), pos[w] < pos[m] PROVE t.key[w] < k
        OBVIOUS
      <4>1. t.key[w] <= t.key[e] /\ t.key[w] \in Int
        BY <1>1, <1>7, <2>1, <2>2
      <4> QED
        BY <2>1, <2>2, <2>3, <2>6, <4>1
    <3> QED
      BY <2>4, <3>2, <3>3 DEF Narrowed
  <2> QED
    BY <2>5, <2>6
<1>10. root \in S
  <2>1. ASSUME NEW w \in Leaves(t)
        PROVE  /\ ~(pos[w] < lim[root][Left]) /\ ~(lim[root][Right] < pos[w])
               /\ lim[w][Right] = lim[root][Right] => w = t.blink[Nil]
    <3>1. ~(lim[w][Left] < lim[root][Left]) /\ ~(lim[root][Right] < lim[w][Right])
      <4>1. \A s \in Side : ~Beyond(s, lim[w][s], lim[root][s])
        BY <1>1 DEF Shaped, Spans
      <4> QED
        BY <4>1, Sides DEF Beyond
    <3>2. PICK e : e = below(t, root, Right)
      OBVIOUS
    <3>3. e \in Leaves(t) /\ beside(t, Nil, Other(Right)) = e /\ lim[e][Right] = lim[root][Right]
      BY <3>2, EndFacts, Sides
    <3>4. e = t.blink[Nil]
      BY <3>3, Sides DEF beside, child, Other
    <3>5. lim[w][Right] = lim[root][Right] => w = e
      BY <3>3, LeafByEnd, Sides
    <3> QED
      BY <1>1, <1>6, <3>1, <3>4, <3>5
  <2> QED
    BY <1>1, <2>1 DEF Narrowed
<1>11. rank \in [Node -> Int] /\ \A m \in Node : rank[m] = -Width(lim)[m] /\ Width(lim)[m] \in Int
  BY <1>1
<1> HIDE DEF rank
<1>12. Loop(f, root) \in S /\ f[Loop(f, root)] = Loop(f, root)
  <2>1. /\ IsFiniteSet(Node) /\ Cardinality(Node) <= Cardinality(Node)
    <3>1. Cardinality(Node) \in Nat
      BY NodeAssumption, FS_CardinalityType
    <3> QED
      BY <3>1, NodeAssumption
  <2>2. /\ root \in S /\ v \in [S -> Node]
        /\ \A m \in S : m \in Node /\ f[m] \in S /\ v[m] = m /\ v[f[m]] = f[m]
    BY <1>1, <1>9, <1>10 DEF Narrowed
  <2>3. \A p, q \in Int : p < q => -p > -q
    OBVIOUS
  <2>4. \A m \in S : f[m] # m => rank[v[f[m]]] > rank[v[m]]
    BY <1>9, <1>11, <2>2, <2>3
  <2> HIDE DEF S, v
  <2> QED
    BY <1>11, <2>1, <2>2, <2>4, LoopEnds
<1>13. n \in S /\ f[n] = n /\ n \in Nodes(t)
  BY <1>3, <1>12 DEF Narrowed
<1>14. t.internal[n] => k = t.key[t.lext[n]]
  <2> SUFFICES ASSUME t.internal[n], k # t.key[t.lext[n]] PROVE FALSE
    OBVIOUS
  <2>1. PICK s \in Side : child(t, n, s) = n
    BY <1>2, <1>13, Sides
  <2>2. n \in Inner(t) /\ Width(lim)[n] \in Int
    BY <1>1, <1>13
  <2>3. Width(lim)[n] < Width(lim)[n]
    BY <1>4, <2>1, <2>2
  <2> QED
    BY <2>2, <2>3
<1> QED
  BY <1>13, <1>14

\* A lookup finds a leaf with the key if there is one, and else where it belongs.
THEOREM FindFacts ==
    ASSUME NEW t, NEW pos, NEW lim, RedBlack(t, pos, lim), NEW k \in Int,
           NEW r, r = jrb_find_gte_dbl(t, k)
    PROVE  /\ r.node \in Leaves(t) \union {Nil} /\ Fits(t, pos, r.node, k)
           /\ r.fnd <=> \E m \in Leaves(t) : t.key[m] = k
           /\ r.fnd => r.node \in Leaves(t) /\ t.key[r.node] = k
<1> DEFINE last == t.blink[Nil]
           n == Descend(t, k)
<1>1. /\ Shaped(t, pos, lim) /\ Known(t, pos, lim) /\ Sorted(t, pos) /\ t \in Tree
      /\ t.parent[Nil] # Nil /\ Nodes(t) \subseteq Node \ {Nil}
      /\ Leaves(t) \subseteq Node \ {Nil} /\ pos \in [Node -> Int] /\ t.key \in [Node -> Int]
  BY NodeKinds, TreeFields DEF RedBlack, Shaped, Listed, Linked, Nodes
<1>2. /\ r = IF k = t.key[last] THEN [node |-> last, fnd |-> TRUE]
             ELSE IF k > t.key[last] THEN [node |-> Nil, fnd |-> FALSE]
             ELSE IF t.internal[n] THEN [node |-> t.lext[n], fnd |-> TRUE]
             ELSE [node |-> n, fnd |-> FALSE]
  BY <1>1 DEF jrb_find_gte_dbl
<1>3. last \in Leaves(t) /\ \A m \in Leaves(t) : t.key[m] <= t.key[last]
  <2>1. last \in Leaves(t) /\ beside(t, last, Right) = Nil
    <3>1. PICK e : e = below(t, t.parent[Nil], Right)
      OBVIOUS
    <3>2. e \in Leaves(t) /\ beside(t, Nil, Other(Right)) = e /\ beside(t, e, Right) = Nil
      BY <1>1, <3>1, EndFacts, Sides
    <3>3. e = last
      BY <3>2, Sides DEF beside, child, Other
    <3> QED
      BY <3>2, <3>3
  <2>2. ASSUME NEW m \in Leaves(t) PROVE t.key[m] <= t.key[last]
    <3>1. ~Beyond(Right, pos[m], pos[last])
      BY <1>1, <2>1, Sides DEF Shaped, Listed
    <3>2. ~(pos[last] < pos[m])
      BY <3>1, Sides DEF Beyond
    <3>3. pos[m] = pos[last] => m = last
      BY <1>1, <2>1 DEF Shaped, Listed
    <3>4. pos[m] < pos[last] => t.key[m] <= t.key[last]
      BY <1>1, <2>1 DEF Sorted
    <3>5. pos[m] \in Int /\ pos[last] \in Int /\ t.key[m] \in Int
      BY <1>1, <2>1
    <3> QED
      BY <3>2, <3>3, <3>4, <3>5
  <2> QED
    BY <2>1, <2>2
<1> HIDE DEF last, n
<1>4. t.key[last] \in Int /\ \A m \in Leaves(t) : t.key[m] \in Int /\ pos[m] \in Int
  BY <1>1, <1>3
<1>5. CASE k = t.key[last]
  <2>1. r.node = last /\ r.fnd = TRUE
    BY <1>2, <1>5
  <2>2. Fits(t, pos, last, k)
    BY <1>1, <1>3, <1>4, <1>5 DEF Fits
  <2> QED
    BY <1>3, <1>5, <2>1, <2>2
<1>6. CASE k > t.key[last]
  <2>1. r.node = Nil /\ r.fnd = FALSE
    BY <1>2, <1>4, <1>6
  <2>2. \A m \in Leaves(t) : t.key[m] <= k /\ t.key[m] # k
    BY <1>3, <1>4, <1>6
  <2>3. Fits(t, pos, Nil, k)
    BY <2>2 DEF Fits
  <2> QED
    BY <2>1, <2>2, <2>3
<1>7. CASE k < t.key[last]
  <2>1. n \in Narrowed(t, pos, lim, k) /\ (t.internal[n] => k = t.key[t.lext[n]])
    BY <1>1, <1>7, DescendFacts DEF n, last
  <2>2. n \in Nodes(t) /\ n \in Node
    BY <1>1, <2>1 DEF Narrowed
  <2>3. CASE t.internal[n]
    <3>1. PICK e : e = t.lext[n]
      OBVIOUS
    <3>2. r.node = e /\ r.fnd = TRUE /\ t.key[e] = k
      BY <1>2, <1>4, <1>7, <2>1, <2>3, <3>1
    <3>3. e \in Leaves(t)
      <4>1. n \in Inner(t)
        BY <2>2, <2>3 DEF Inner, Nodes
      <4>2. ext(t, n, Left) \in Leaves(t)
        BY <1>1, <4>1, Sides DEF Known
      <4> QED
        BY <3>1, <4>2 DEF ext
    <3>4. Fits(t, pos, e, k)
      BY <1>1, <1>4, <3>2, <3>3 DEF Fits, Sorted
    <3> QED
      BY <3>2, <3>3, <3>4
  <2>4. CASE ~t.internal[n]
    <3>1. r.node = n /\ r.fnd = FALSE /\ n \in Leaves(t)
      BY <1>2, <1>4, <1>7, <2>2, <2>4 DEF Leaves, Nodes
    <3>2. /\ k < t.key[n]
          /\ \A m \in Leaves(t) : /\ pos[m] < lim[n][Left] => t.key[m] < k
                                  /\ lim[n][Right] < pos[m] => k < t.key[m]
      BY <2>1, <3>1 DEF Narrowed
    <3>3. \A m \in Leaves(t) : /\ pos[m] < pos[n] => t.key[m] < k
                               /\ pos[n] < pos[m] => k < t.key[m]
      <4>1. \A m \in Leaves(t) : /\ pos[m] < pos[n] => pos[m] < lim[n][Left]
                                 /\ pos[n] < pos[m] => lim[n][Right] < pos[m]
        BY <1>1, <3>1, PastStretch, Sides DEF Beyond
      <4> QED
        BY <3>2, <4>1
    <3>4. \A m \in Leaves(t) : pos[m] = pos[n] => m = n
      BY <1>1, <3>1 DEF Shaped, Listed
    <3>5. \A m \in Leaves(t) : t.key[m] # k
      BY <1>4, <3>1, <3>2, <3>3, <3>4
    <3>6. Fits(t, pos, n, k)
      BY <1>1, <1>4, <3>1, <3>2, <3>3 DEF Fits
    <3> QED
      BY <3>1, <3>5, <3>6
  <2> QED
    BY <2>3, <2>4
<1> QED
  BY <1>4, <1>5, <1>6, <1>7

\* A tree without leaves.
Bare(t) ==
    /\ t \in Tree /\ t.used = {Nil}
    /\ t.parent[Nil] = Nil /\ t.flink[Nil] = Nil /\ t.blink[Nil] = Nil

\* The first leaf is a red-black tree.
THEOREM InsertFirst ==
    ASSUME NEW t, Bare(t), NEW k \in Int, Cardinality(Node) > 1,
           NEW v, v = jrb_insert_b(t, Nil, k)
    PROVE  \E new, P, L : /\ RedBlack(v, P, L) /\ new \in Node \ {Nil}
                          /\ v.used = {Nil, new} /\ v.exited = t.exited
                          /\ Leaves(v) = {new} /\ Inner(v) = {} /\ v.key[new] = k
<1>1. t \in Tree /\ t.used = {Nil} /\ Nil \in Node /\ t.parent[Nil] = Nil
  BY NodeAssumption DEF Bare
<1>2. PICK new : new = malloc(t)
  OBVIOUS
<1>3. new \in Node /\ new # Nil
  <2>1. Cardinality(t.used) = 1
    BY <1>1, FS_Singleton
  <2>2. Cardinality(Node) \in Nat
    BY NodeAssumption, FS_CardinalityType
  <2>3. Cardinality(t.used) + 0 < Cardinality(Node) /\ t.used \subseteq Node
    BY <1>1, <2>1, <2>2
  <2> QED
    BY <1>1, <1>2, <2>3, MallocFacts
<1>4. PICK a : a = mk_new_ext(t, new, k)
  OBVIOUS
<1>5. PICK c : c = insert(a, new, Nil)
  OBVIOUS
<1>6. v = Plant(c, new)
  BY <1>1, <1>2, <1>4, <1>5 DEF jrb_insert_b
<1>7. /\ a \in Tree /\ a.used = {Nil, new} /\ a.exited = t.exited
      /\ a.blink[Nil] = Nil /\ a.flink[Nil] = Nil
      /\ a.key[new] = k /\ ~a.internal[new] /\ ~a.red[new]
  BY <1>1, <1>3, <1>4, NewExtFacts DEF Bare
<1>8. /\ c \in Tree /\ SameRest(a, c)
      /\ c.blink[new] = Nil /\ c.blink[Nil] = new /\ c.flink[new] = Nil /\ c.flink[Nil] = new
  BY <1>1, <1>3, <1>5, <1>7, InsertFacts
<1>9. Planted(c, v, new)
  BY <1>3, <1>6, <1>8, PlantFacts
<1>10. /\ v \in Tree /\ v.used = {Nil, new} /\ v.exited = t.exited /\ v.key[new] = k
       /\ ~v.internal[new] /\ ~v.red[new] /\ v.root[new]
       /\ v.blink[new] = Nil /\ v.blink[Nil] = new /\ v.flink[new] = Nil /\ v.flink[Nil] = new
       /\ v.parent[new] = Nil /\ v.parent[Nil] = new
  BY <1>1, <1>3, <1>7, <1>8, <1>9 DEF Planted, SameBut, SameRest
<1>11. Leaves(v) = {new} /\ Inner(v) = {} /\ Nodes(v) = {new} /\ Red(v) = {}
  BY <1>3, <1>10 DEF Leaves, Inner, Nodes, Red
<1>12. PICK P, L, h : /\ P = [n \in Node |-> 0] /\ h = [n \in Node |-> 0]
                      /\ L = [n \in Node |-> [s \in Side |-> IF s = Left THEN -1 ELSE 1]]
  OBVIOUS
<1>13. /\ P \in [Node -> Int] /\ L \in [Node -> [Side -> Int]] /\ P[new] = 0
       /\ L[new][Left] = -1 /\ L[new][Right] = 1
       /\ h \in [Node -> Nat] /\ h[new] = 0
  BY <1>3, <1>12, Sides
<1>14. \A n \in {Nil, new} : \A s \in Side : beside(v, n, s) = IF n = Nil THEN new ELSE Nil
  BY <1>3, <1>10, Sides DEF beside, child, Other
<1>15. Linked(v)
  BY <1>10, <1>11 DEF Linked, HasPlace
<1>16. Listed(v, P)
  <2>1. \A n \in {Nil, new} : \A s \in Side :
           /\ beside(v, n, s) \in {Nil, new} /\ beside(v, beside(v, n, s), Other(s)) = n
    BY <1>3, <1>14, Sides
  <2>2. \A s \in Side : ~Beyond(s, P[new], P[new]) /\ beside(v, new, s) = Nil
    BY <1>3, <1>13, <1>14, Sides DEF Beyond
  <2> QED
    BY <1>3, <1>11, <1>13, <2>1, <2>2 DEF Listed
<1>17. Spans(v, P, L)
  <2>1. \A s \in Side : Beyond(s, L[new][s], P[new]) /\ ~Beyond(s, L[new][s], L[new][s])
    BY <1>13, Sides DEF Beyond
  <2>2. \A s \in Side : beside(v, new, s) = Nil
    BY <1>3, <1>14
  <2> QED
    BY <1>10, <1>11, <1>13, <2>1, <2>2 DEF Spans
<1>18. Shaped(v, P, L)
  BY <1>10, <1>15, <1>16, <1>17 DEF Shaped
<1>19. Sorted(v, P) /\ Known(v, P, L)
  BY <1>11, <1>13 DEF Sorted, Known
<1>20. Heights(v, Red(v), h, Nil) /\ Reds(v, Red(v), Nil) /\ v.parent[Nil] \notin Red(v)
  BY <1>11, <1>13 DEF Heights, Reds
<1>21. RedBlack(v, P, L)
  BY <1>18, <1>19, <1>20 DEF RedBlack
<1> QED
  BY <1>3, <1>10, <1>11, <1>21

-----------------------------------------------------------------------------
(* Deletion: the sibling of a leaf takes the place of their parent *)

\* The leaf n, its parent p and its sibling s; n is the child on the side e.
Cut(t, n, p, s, e) ==
    /\ n \in Leaves(t) /\ ~t.root[n] /\ p = t.parent[n] /\ e = t.side[n]
    /\ s = child(t, p, Other(e))

\* The leaf, its parent and its sibling.
LEMMA CutFacts ==
    ASSUME NEW t, NEW pos, NEW lim, Shaped(t, pos, lim),
           NEW n, NEW p, NEW s, NEW e, Cut(t, n, p, s, e)
    PROVE  /\ p \in Inner(t) /\ e \in Side /\ child(t, p, e) = n /\ s \in Nodes(t)
           /\ t.parent[s] = p /\ t.side[s] = Other(e) /\ ~t.root[s]
           /\ n # p /\ s # n /\ s # p
           /\ lim[n][e] = lim[p][e] /\ lim[n][Other(e)] = pos[p]
           /\ lim[s][Other(e)] = lim[p][Other(e)] /\ lim[s][e] = pos[p]
<1>1. /\ t \in Tree /\ Linked(t) /\ n \in Nodes(t) /\ HasPlace(t, n) /\ e \in Side
      /\ Inner(t) \intersect Leaves(t) = {} /\ Other(e) \in Side /\ Other(Other(e)) = e
      /\ e # Other(e)
  BY NodeKinds, TreeFields, Sides DEF Shaped, Linked, Cut
<1>2. p \in Inner(t) /\ child(t, p, e) = n
  BY <1>1 DEF HasPlace, Cut
<1>3. IsChild(t, p, Other(e)) /\ s = child(t, p, Other(e)) /\ n \in Leaves(t) /\ t.side[n] = e
  BY <1>1, <1>2 DEF Cut, Linked
<1>4. Width(lim)[s] < Width(lim)[p] /\ Width(lim)[p] \in Int
  BY <1>1, <1>2, <1>3, WidthRanks, NodeKinds DEF Ranked
<1>5. /\ lim[n][e] = lim[p][e] /\ lim[n][Other(e)] = pos[p]
      /\ lim[s][Other(e)] = lim[p][Other(e)] /\ lim[s][e] = pos[p]
  BY <1>1, <1>2, <1>3 DEF Shaped, Spans
<1> QED
  BY <1>1, <1>2, <1>3, <1>4, <1>5 DEF IsChild

\* What is left of the list without n.
Removed(t, v, n) ==
    /\ v \in Tree /\ SameRest(t, v)
    /\ v.parent = t.parent /\ v.side = t.side /\ v.root = t.root
    /\ \A m \in Node : \A s \in Side :
          beside(v, m, s) = IF m = beside(t, n, Other(s)) THEN beside(t, n, s)
                            ELSE beside(t, m, s)

\* What taking a leaf out of the list changes (jrb.c:55-59).
LEMMA RemovedFacts ==
    ASSUME NEW t \in Tree, NEW n \in Node
    PROVE  Removed(t, delete_item(t, n), n)
<1>1. t.flink \in [Node -> Node] /\ t.blink \in [Node -> Node]
  BY TreeFields
<1>2. PICK a, b \in Node : a = t.flink[n] /\ b = t.blink[n]
  BY <1>1
<1>3. PICK v : v = Linking(t, a, b, b, a)
  OBVIOUS
<1>4. delete_item(t, n) = v
  BY <1>2, <1>3 DEF delete_item, Linking
<1>5. /\ v \in Tree /\ SameRest(t, v)
      /\ v.parent = t.parent /\ v.side = t.side /\ v.root = t.root
      /\ v.blink = [t.blink EXCEPT ![a] = b] /\ v.flink = [t.flink EXCEPT ![b] = a]
  BY <1>2, <1>3, LinkFacts
<1>6. ASSUME NEW m \in Node, NEW s \in Side
      PROVE  beside(v, m, s) = IF m = beside(t, n, Other(s)) THEN beside(t, n, s)
                               ELSE beside(t, m, s)
  <2>1. CASE s = Left
    BY <1>1, <1>2, <1>5, <2>1, Sides DEF beside, child, Other
  <2>2. CASE s = Right
    BY <1>1, <1>2, <1>5, <2>2, Sides DEF beside, child, Other
  <2> QED
    BY <2>1, <2>2, Sides
<1> QED
  BY <1>4, <1>5, <1>6 DEF Removed

\* free changes nothing else.
Freed(t, u, nodes) ==
    /\ u \in Tree /\ u.used = t.used \ nodes /\ u.exited = t.exited
    /\ u.flink = t.flink /\ u.blink = t.blink /\ u.parent = t.parent
    /\ u.lext = t.lext /\ u.rext = t.rext /\ u.key = t.key
    /\ u.root = t.root /\ u.internal = t.internal /\ u.side = t.side /\ u.red = t.red

\* What freeing nodes changes (jrb.c:434-436).
LEMMA FreedFacts ==
    ASSUME NEW t \in Tree, NEW nodes
    PROVE  Freed(t, free(t, nodes), nodes)
  BY SMTT(60) DEF Tree, free, Freed

\* u is t without n and p, and with s in the place of p.
Spliced(t, u, n, p, s) ==
    /\ u \in Tree /\ u.used = t.used \ {n, p} /\ u.exited = t.exited
    /\ u.lext = t.lext /\ u.rext = t.rext /\ u.key = t.key
    /\ u.internal = t.internal /\ u.red = t.red
    /\ \A m \in Inner(t) \ {p} : \A d \in Side :
          child(u, m, d) = IF ~t.root[p] /\ m = t.parent[p] /\ d = t.side[p] THEN s
                           ELSE child(t, m, d)
    /\ u.parent[s] = t.parent[p] /\ u.root[s] = t.root[p]
    /\ ~t.root[p] => u.side[s] = t.side[p]
    /\ u.parent[Nil] = IF t.root[p] THEN s ELSE t.parent[Nil]
    /\ \A m \in Nodes(t) \ {n, p, s} : /\ u.parent[m] = t.parent[m] /\ u.side[m] = t.side[m]
                                       /\ u.root[m] = t.root[m]
    /\ \A m \in Leaves(t) \union {Nil} : \A d \in Side :
          beside(u, m, d) = IF m = beside(t, n, Other(d)) THEN beside(t, n, d)
                            ELSE beside(t, m, d)

\* What a deletion does to the links before it recolours (jrb.c:404-436).
LEMMA SplicedFacts ==
    ASSUME NEW t, NEW pos, NEW lim, Shaped(t, pos, lim),
           NEW n, NEW p, NEW s, NEW e, Cut(t, n, p, s, e),
           NEW v, v = delete_item(t, n),
           NEW u, u = free(IF t.root[p] THEN Plant(v, s) ELSE Hang(v, t.parent[p], t.side[p], s),
                           {n, p})
    PROVE  Spliced(t, u, n, p, s)
<1>1. /\ t \in Tree /\ Linked(t) /\ Listed(t, pos)
      /\ Inner(t) \subseteq Node \ {Nil} /\ Leaves(t) \subseteq Node \ {Nil}
      /\ Nodes(t) \subseteq Node \ {Nil} /\ Inner(t) \subseteq Nodes(t)
      /\ Inner(t) \intersect Leaves(t) = {} /\ Nil \in Node
  BY NodeKinds, NodeAssumption DEF Shaped
<1>2. /\ p \in Inner(t) /\ e \in Side /\ child(t, p, e) = n /\ s \in Nodes(t)
      /\ n # p /\ s # n /\ s # p /\ n \in Leaves(t)
      /\ ~t.root[s] /\ t.parent[s] = p
  BY CutFacts DEF Cut
<1>3. Removed(t, v, n)
  BY <1>1, <1>2, RemovedFacts
<1>4. /\ v \in Tree /\ SameRest(t, v)
      /\ v.parent = t.parent /\ v.side = t.side /\ v.root = t.root
      /\ \A m \in Node : \A d \in Side :
            beside(v, m, d) = IF m = beside(t, n, Other(d)) THEN beside(t, n, d)
                              ELSE beside(t, m, d)
  BY <1>3 DEF Removed
<1>5. ASSUME NEW m \in Inner(t), NEW d \in Side PROVE child(v, m, d) = child(t, m, d)
  <2>1. beside(t, n, d) \in Leaves(t) \union {Nil}
    BY <1>1, <1>2 DEF Listed
  <2>2. m # beside(t, n, d) /\ m \in Node /\ Other(d) \in Side /\ Other(Other(d)) = d
    BY <1>1, <2>1, Sides
  <2>3. beside(v, m, Other(d)) = beside(t, m, Other(d))
    BY <1>4, <2>2
  <2> QED
    BY <2>2, <2>3 DEF beside
<1>6. HasPlace(t, p)
  BY <1>1, <1>2 DEF Linked
<1>7. PICK w : w = IF t.root[p] THEN Plant(v, s) ELSE Hang(v, t.parent[p], t.side[p], s)
  OBVIOUS
<1>8. /\ w \in Tree /\ SameBut(v, w)
      /\ \A m \in Node : \A d \in Side :
            child(w, m, d) = IF ~t.root[p] /\ m = t.parent[p] /\ d = t.side[p] THEN s
                             ELSE child(v, m, d)
      /\ w.parent[s] = t.parent[p] /\ w.root[s] = t.root[p]
      /\ ~t.root[p] => w.side[s] = t.side[p]
      /\ w.parent[Nil] = IF t.root[p] THEN s ELSE t.parent[Nil]
      /\ \A m \in Nodes(t) \ {n, p, s} : /\ w.parent[m] = t.parent[m] /\ w.side[m] = t.side[m]
                                         /\ w.root[m] = t.root[m]
  <2>1. CASE t.root[p]
    <3>1. w = Plant(v, s)
      BY <1>7, <2>1
    <3>2. Planted(v, w, s)
      BY <1>1, <1>2, <1>4, <3>1, PlantFacts
    <3>3. /\ w \in Tree /\ SameBut(v, w) /\ w.side = v.side /\ w.root[s]
          /\ w.flink = v.flink /\ w.blink = v.blink
          /\ \A m \in Node :
                /\ w.parent[m] = IF m = s THEN Nil ELSE IF m = Nil THEN s ELSE v.parent[m]
                /\ m # s => w.root[m] = v.root[m]
      BY <3>2 DEF Planted
    <3>4. w.root[s] = t.root[p] /\ t.parent[p] = Nil
      <4>1. w.root[s] \in BOOLEAN /\ t.root[p] \in BOOLEAN
        BY <1>1, <1>2, <3>3, TreeFields
      <4> QED
        BY <1>6, <2>1, <3>3, <4>1 DEF HasPlace
    <3> QED
      BY <1>1, <1>2, <1>4, <2>1, <3>3, <3>4 DEF child
  <2>2. CASE ~t.root[p]
    <3>1. w = Hang(v, t.parent[p], t.side[p], s)
      BY <1>7, <2>2
    <3>2. t.parent[p] \in Node /\ t.side[p] \in Side
      BY <1>1, <1>2, TreeFields
    <3>3. Hung(v, w, t.parent[p], t.side[p], s)
      BY <1>1, <1>2, <1>4, <3>1, <3>2, HangFacts
    <3>4. w.root[s] = t.root[p] /\ w.root = t.root
      <4>1. w.root = t.root
        BY <1>4, <3>3 DEF Hung
      <4>2. t.root[s] \in BOOLEAN /\ t.root[p] \in BOOLEAN
        BY SMTT(60), <1>1, <1>2, TreeFields
      <4> QED
        BY <1>2, <2>2, <4>1, <4>2
    <3> QED
      BY <1>1, <1>2, <1>4, <2>2, <3>3, <3>4 DEF Hung
  <2> QED
    BY <2>1, <2>2
<1>9. Freed(w, u, {n, p})
  BY SMTT(60), <1>7, <1>8, FreedFacts
<1>10. /\ u \in Tree /\ u.used = t.used \ {n, p} /\ u.exited = t.exited
       /\ u.lext = t.lext /\ u.rext = t.rext /\ u.key = t.key
       /\ u.internal = t.internal /\ u.red = t.red
  BY SMTT(60), <1>4, <1>8, <1>9 DEF Freed, SameBut, SameRest
<1>11. /\ u.parent = w.parent /\ u.side = w.side /\ u.root = w.root
       /\ \A m, d : child(u, m, d) = child(w, m, d)
  BY <1>9 DEF Freed, child
<1>12. \A m \in Inner(t) \ {p} : \A d \in Side :
          child(u, m, d) = IF ~t.root[p] /\ m = t.parent[p] /\ d = t.side[p] THEN s
                           ELSE child(t, m, d)
  BY <1>1, <1>5, <1>8, <1>11
<1>13. \A m \in Leaves(t) \union {Nil} : \A d \in Side :
          beside(u, m, d) = IF m = beside(t, n, Other(d)) THEN beside(t, n, d)
                            ELSE beside(t, m, d)
  <2> SUFFICES ASSUME NEW m \in Leaves(t) \union {Nil}, NEW d \in Side
               PROVE  beside(u, m, d) = beside(v, m, d)
    BY <1>1, <1>4
  <2>1. m \in Node /\ ~(~t.root[p] /\ m = t.parent[p]) /\ Other(d) \in Side
    BY <1>1, <1>6, Sides DEF HasPlace
  <2>2. child(w, m, Other(d)) = child(v, m, Other(d))
    BY SMTT(60), <1>8, <2>1
  <2> QED
    BY <1>11, <2>2 DEF beside
<1>14. /\ u.parent[s] = t.parent[p] /\ u.root[s] = t.root[p]
       /\ ~t.root[p] => u.side[s] = t.side[p]
       /\ u.parent[Nil] = IF t.root[p] THEN s ELSE t.parent[Nil]
       /\ \A m \in Nodes(t) \ {n, p, s} : /\ u.parent[m] = t.parent[m] /\ u.side[m] = t.side[m]
                                          /\ u.root[m] = t.root[m]
  BY <1>8, <1>11
<1> QED
  BY <1>10, <1>12, <1>13, <1>14 DEF Spliced

\* It leaves the other nodes.
LEMMA SplicedNodes ==
    ASSUME NEW t, NEW u, NEW n, NEW p, NEW s, Spliced(t, u, n, p, s),
           n \in Leaves(t), p \in Inner(t)
    PROVE  /\ Leaves(u) = Leaves(t) \ {n} /\ Inner(u) = Inner(t) \ {p}
           /\ Nodes(u) = Nodes(t) \ {n, p} /\ Red(u) = Red(t) \ {n, p}
           /\ \A m, d : ext(u, m, d) = ext(t, m, d)
<1>1. /\ u.used = t.used \ {n, p} /\ u.internal = t.internal /\ u.red = t.red
      /\ u.lext = t.lext /\ u.rext = t.rext
  BY DEF Spliced
<1> QED
  BY <1>1 DEF Leaves, Inner, Nodes, Red, ext

\* After it, parents and children still fit together.
LEMMA SplicedLinked ==
    ASSUME NEW t, NEW pos, NEW lim, Shaped(t, pos, lim),
           NEW n, NEW p, NEW s, NEW e, Cut(t, n, p, s, e), NEW u, Spliced(t, u, n, p, s)
    PROVE  Linked(u)
<1> DEFINE gp == t.parent[p]
<1>1. /\ t \in Tree /\ Linked(t) /\ Nil \in t.used
      /\ Nodes(t) \subseteq Node \ {Nil} /\ Inner(t) \subseteq Nodes(t)
      /\ Inner(t) \intersect Leaves(t) = {}
  BY NodeKinds DEF Shaped, Linked
<1>2. /\ p \in Inner(t) /\ e \in Side /\ child(t, p, e) = n /\ s \in Nodes(t)
      /\ n # p /\ s # n /\ s # p /\ n \in Leaves(t) /\ n \in Nodes(t)
      /\ ~t.root[s] /\ t.parent[s] = p /\ ~t.root[n] /\ t.parent[n] = p
      /\ child(t, p, Other(e)) = s /\ \A d \in Side : d = e \/ d = Other(e)
  BY <1>1, CutFacts, NodeKinds, Sides DEF Cut
<1>3. Leaves(u) = Leaves(t) \ {n} /\ Inner(u) = Inner(t) \ {p} /\ Nodes(u) = Nodes(t) \ {n, p}
  BY <1>2, SplicedNodes
<1>4. /\ \A m \in Inner(t) \ {p} : \A d \in Side :
            child(u, m, d) = IF ~t.root[p] /\ m = gp /\ d = t.side[p] THEN s
                             ELSE child(t, m, d)
      /\ u.parent[s] = gp /\ u.root[s] = t.root[p]
      /\ ~t.root[p] => u.side[s] = t.side[p]
      /\ u.parent[Nil] = IF t.root[p] THEN s ELSE t.parent[Nil]
      /\ \A m \in Nodes(t) \ {n, p, s} : /\ u.parent[m] = t.parent[m] /\ u.side[m] = t.side[m]
                                         /\ u.root[m] = t.root[m]
      /\ u.used = t.used \ {n, p}
  BY DEF Spliced
<1>5. /\ \A m \in Nodes(t) : HasPlace(t, m)
      /\ \A m \in Inner(t) : \A d \in Side : IsChild(t, m, d)
      /\ t.parent[Nil] \in Nodes(t) /\ t.root[t.parent[Nil]]
  BY <1>1 DEF Linked
<1>6. HasPlace(t, p) /\ p \in Nodes(t)
  BY <1>1, <1>2, <1>5
<1>7. ~t.root[p] => gp \in Inner(t) /\ gp # p /\ child(t, gp, t.side[p]) = p /\ t.side[p] \in Side
  <2> SUFFICES ASSUME ~t.root[p] PROVE gp \in Inner(t) /\ gp # p /\ child(t, gp, t.side[p]) = p /\ t.side[p] \in Side
    OBVIOUS
  <2>1. gp \in Inner(t) /\ child(t, gp, t.side[p]) = p /\ t.side[p] \in Side
    BY <1>1, <1>6, TreeFields DEF HasPlace
  <2>2. Width(lim)[p] < Width(lim)[gp] /\ Width(lim)[gp] \in Int
    BY <1>1, <2>1, WidthRanks DEF Ranked
  <2> QED
    BY <2>1, <2>2
<1> HIDE DEF gp
<1>8. ASSUME NEW m \in Inner(u), NEW d \in Side PROVE IsChild(u, m, d)
  <2>1. m \in Inner(t) \ {p} /\ IsChild(t, m, d)
    BY <1>3, <1>5
  <2>2. CASE child(t, m, d) = p
    <3>1. gp = m /\ t.side[p] = d /\ ~t.root[p]
      BY <2>1, <2>2 DEF IsChild, gp
    <3>2. child(u, m, d) = s
      BY <1>4, <2>1, <3>1
    <3> QED
      BY <1>2, <1>3, <1>4, <3>1, <3>2 DEF IsChild
  <2>3. CASE child(t, m, d) # p
    <3>1. child(u, m, d) = child(t, m, d)
      BY <1>4, <1>7, <2>1, <2>3
    <3>2. child(t, m, d) # n /\ child(t, m, d) # s
      BY <1>2, <2>1 DEF IsChild
    <3> QED
      BY <1>3, <1>4, <2>1, <2>3, <3>1, <3>2 DEF IsChild
  <2> QED
    BY <2>2, <2>3
<1>9. ASSUME NEW m \in Nodes(u) PROVE HasPlace(u, m)
  <2>1. m \in Nodes(t) \ {n, p} /\ HasPlace(t, m)
    BY <1>3, <1>5
  <2>2. CASE m = s
    BY <1>3, <1>4, <1>6, <1>7, <2>2 DEF HasPlace, gp
  <2>3. CASE m # s
    <3>1. u.parent[m] = t.parent[m] /\ u.side[m] = t.side[m] /\ u.root[m] = t.root[m]
      BY <1>4, <2>1, <2>3
    <3>2. CASE t.root[m]
      <4>1. ~t.root[p]
        BY <1>6, <2>1, <3>2 DEF HasPlace
      <4> QED
        BY <1>4, <2>1, <3>1, <3>2, <4>1 DEF HasPlace
    <3>3. CASE ~t.root[m]
      <4>1. t.parent[m] \in Inner(t) /\ child(t, t.parent[m], t.side[m]) = m /\ t.side[m] \in Side
        BY <1>1, <2>1, <3>3, TreeFields DEF HasPlace
      <4>2. t.parent[m] # p
        BY <1>2, <2>1, <2>3, <4>1
      <4>3. ~(~t.root[p] /\ t.parent[m] = gp /\ t.side[m] = t.side[p])
        BY <1>7, <2>1, <4>1
      <4>4. child(u, t.parent[m], t.side[m]) = m
        BY <1>4, <4>1, <4>2, <4>3
      <4> QED
        BY <1>3, <3>1, <3>3, <4>1, <4>2, <4>4 DEF HasPlace
    <3> QED
      BY <3>2, <3>3
  <2> QED
    BY <2>2, <2>3
<1>10. u.parent[Nil] \in Nodes(u) /\ u.root[u.parent[Nil]]
  <2>1. CASE t.root[p]
    BY <1>2, <1>3, <1>4, <2>1
  <2>2. CASE ~t.root[p]
    BY <1>2, <1>3, <1>4, <1>5, <2>2
  <2> QED
    BY <2>1, <2>2
<1>11. Nil \in u.used
  BY <1>1, <1>2, <1>4
<1> QED
  BY <1>8, <1>9, <1>10, <1>11 DEF Linked

\* Without n the list has the other leaves, in the same order.
LEMMA SplicedListed ==
    ASSUME NEW t, NEW pos, NEW lim, Shaped(t, pos, lim),
           NEW n, NEW p, NEW s, NEW e, Cut(t, n, p, s, e), NEW u, Spliced(t, u, n, p, s)
    PROVE  Listed(u, pos)
<1>1. /\ pos \in [Node -> Int] /\ n \in Leaves(t) /\ p \in Inner(t)
      /\ Leaves(t) \subseteq Node \ {Nil}
  BY CutFacts, NodeKinds DEF Shaped, Listed, Cut
<1>2. /\ Leaves(u) = Leaves(t) \ {n}
      /\ \A m \in Leaves(t) \union {Nil} : \A d \in Side :
            beside(u, m, d) = IF m = beside(t, n, Other(d)) THEN beside(t, n, d)
                              ELSE beside(t, m, d)
  <2>1. Leaves(u) = Leaves(t) \ {n}
    BY <1>1, SplicedNodes
  <2> QED
    BY <2>1 DEF Spliced
<1>3. /\ \A m \in Leaves(t) \union {Nil} : \A d \in Side :
            /\ beside(t, m, d) \in Leaves(t) \union {Nil}
            /\ beside(t, beside(t, m, d), Other(d)) = m
      /\ \A m \in Leaves(t) : \A d \in Side :
            beside(t, m, d) # Nil => Beyond(d, pos[beside(t, m, d)], pos[m])
      /\ \A m, w \in Leaves(t) : \A d \in Side :
            Beyond(d, pos[w], pos[m]) =>
               beside(t, m, d) # Nil /\ ~Beyond(d, pos[beside(t, m, d)], pos[w])
      /\ \A m, w \in Leaves(t) : pos[m] = pos[w] => m = w
  BY DEF Shaped, Listed
<1>4. \A m \in Leaves(t) : pos[m] \in Int
  BY <1>1
<1>5. \A d \in Side : /\ \A a \in Int : ~Beyond(d, a, a)
                      /\ \A a, b \in Int : Beyond(d, a, b) \/ Beyond(d, b, a) \/ a = b
                      /\ \A a, b, c \in Int : Beyond(d, a, b) /\ Beyond(d, b, c) => Beyond(d, a, c)
                      /\ Other(d) \in Side /\ Other(Other(d)) = d
  BY BeyondOrder, Sides
<1>6. \A d \in Side : beside(t, n, d) # n
  BY <1>1, <1>3, <1>4, <1>5
\* The neighbours of n are next to each other, and no other leaf was next to n.
<1>7. ASSUME NEW m \in Leaves(u) \union {Nil}, NEW d \in Side
      PROVE  /\ m \in Leaves(t) \union {Nil} /\ m # n
             /\ \/ beside(t, m, d) = n /\ m = beside(t, n, Other(d)) /\ beside(u, m, d) = beside(t, n, d)
                \/ /\ beside(t, m, d) # n /\ m # beside(t, n, Other(d))
                   /\ beside(u, m, d) = beside(t, m, d)
  <2>1. m \in Leaves(t) \union {Nil} /\ m # n
    BY <1>1, <1>2
  <2>2. beside(t, m, d) = n => m = beside(t, n, Other(d))
    BY <1>3, <2>1
  <2>3. m = beside(t, n, Other(d)) => beside(t, m, d) = n
    BY <1>1, <1>3, <1>5
  <2> QED
    BY <1>2, <2>1, <2>2, <2>3
<1>8. ASSUME NEW m \in Leaves(u) \union {Nil}, NEW d \in Side
      PROVE  /\ beside(u, m, d) \in Leaves(u) \union {Nil}
             /\ beside(u, beside(u, m, d), Other(d)) = m
  <2>1. CASE beside(t, m, d) = n
    <3>1. PICK w : w = beside(t, n, d)
      OBVIOUS
    <3>2. m = beside(t, n, Other(d)) /\ beside(u, m, d) = w
      BY <1>7, <2>1, <3>1
    <3>3. w \in Leaves(u) \union {Nil}
      BY <1>1, <1>2, <1>3, <1>6, <3>1
    <3>4. beside(t, w, Other(d)) = n
      BY <1>1, <1>3, <3>1
    <3>5. beside(u, w, Other(d)) = beside(t, n, Other(d))
      BY <1>5, <1>7, <3>3, <3>4
    <3> QED
      BY <3>2, <3>3, <3>5
  <2>2. CASE beside(t, m, d) # n
    <3>1. PICK w : w = beside(t, m, d)
      OBVIOUS
    <3>2. w \in Leaves(u) \union {Nil} /\ beside(u, m, d) = w /\ beside(t, w, Other(d)) = m /\ m # n
      BY <1>2, <1>3, <1>7, <2>2, <3>1
    <3>3. beside(u, w, Other(d)) = m
      BY <1>5, <1>7, <3>2
    <3> QED
      BY <3>2, <3>3
  <2> QED
    BY <2>1, <2>2
<1>9. ASSUME NEW m \in Leaves(u), NEW d \in Side, beside(u, m, d) # Nil
      PROVE  Beyond(d, pos[beside(u, m, d)], pos[m])
  <2>1. CASE beside(t, m, d) = n
    <3>1. PICK w : w = beside(t, n, d)
      OBVIOUS
    <3>2. beside(u, m, d) = w /\ w # Nil /\ w \in Leaves(t) /\ m \in Leaves(t) /\ n # Nil
      BY <1>1, <1>2, <1>3, <1>7, <1>9, <2>1, <3>1
    <3>3. Beyond(d, pos[w], pos[n]) /\ Beyond(d, pos[n], pos[m])
      BY <1>1, <1>3, <2>1, <3>1, <3>2
    <3> QED
      BY <1>1, <1>4, <1>5, <3>2, <3>3
  <2>2. CASE beside(t, m, d) # n
    BY <1>2, <1>3, <1>7, <1>9, <2>2
  <2> QED
    BY <2>1, <2>2
<1>10. ASSUME NEW m \in Leaves(u), NEW w \in Leaves(u), NEW d \in Side, Beyond(d, pos[w], pos[m])
       PROVE  beside(u, m, d) # Nil /\ ~Beyond(d, pos[beside(u, m, d)], pos[w])
  <2>1. m \in Leaves(t) /\ w \in Leaves(t) /\ w # n
    BY <1>2
  <2>2. beside(t, m, d) # Nil /\ ~Beyond(d, pos[beside(t, m, d)], pos[w])
    BY <1>3, <1>10, <2>1
  <2>3. CASE beside(t, m, d) = n
    <3>1. Beyond(d, pos[w], pos[n])
      <4>1. ~Beyond(d, pos[n], pos[w]) /\ pos[n] # pos[w]
        BY <1>1, <1>3, <2>1, <2>2, <2>3
      <4> QED
        BY <1>1, <1>4, <1>5, <2>1, <4>1
    <3>2. beside(t, n, d) # Nil /\ ~Beyond(d, pos[beside(t, n, d)], pos[w])
      BY <1>1, <1>3, <2>1, <3>1
    <3> QED
      BY <1>7, <2>3, <3>2
  <2>4. CASE beside(t, m, d) # n
    BY <1>7, <2>2, <2>4
  <2> QED
    BY <2>3, <2>4
<1>11. \A m, w \in Leaves(u) : pos[m] = pos[w] => m = w
  BY <1>2, <1>3
<1> QED
  BY <1>1, <1>8, <1>9, <1>10, <1>11 DEF Listed

\* The stretches without n: those that ended at p on the side e end where that of p did.
Joined(lim, L, v, w, e) ==
    /\ L \in [Node -> [Side -> Int]]
    /\ \A m \in Node : /\ L[m][e] = IF lim[m][e] = v THEN w ELSE lim[m][e]
                       /\ L[m][Other(e)] = lim[m][Other(e)]

\* Stretches that end at v can be made to end at w.
LEMMA JoinedExists ==
    ASSUME NEW lim \in [Node -> [Side -> Int]], NEW v, NEW w \in Int, NEW e \in Side
    PROVE  \E L : Joined(lim, L, v, w, e)
<1>1. PICK L : L = [m \in Node |-> [d \in Side |-> IF d = e /\ lim[m][e] = v THEN w ELSE lim[m][d]]]
  OBVIOUS
<1>2. Other(e) \in Side /\ Other(e) # e
  BY Sides
<1>3. L \in [Node -> [Side -> Int]]
  BY <1>1
<1>4. \A m \in Node : /\ L[m][e] = IF lim[m][e] = v THEN w ELSE lim[m][e]
                      /\ L[m][Other(e)] = lim[m][Other(e)]
  BY <1>1, <1>2
<1> QED
  BY <1>3, <1>4 DEF Joined

\* After it, the sibling and what is below it share the stretch of the parent.
LEMMA SplicedSpans ==
    ASSUME NEW t, NEW pos, NEW lim, Shaped(t, pos, lim),
           NEW n, NEW p, NEW s, NEW e, Cut(t, n, p, s, e), NEW u, Spliced(t, u, n, p, s),
           NEW L, Joined(lim, L, pos[p], lim[p][e], e)
    PROVE  Spans(u, pos, L) /\ \A d \in Side : L[s][d] = lim[p][d]
<1> DEFINE o == Other(e)
           gp == t.parent[p]
           root == t.parent[Nil]
           top == u.parent[Nil]
<1>1. /\ t \in Tree /\ Linked(t) /\ Listed(t, pos) /\ Spans(t, pos, lim)
      /\ Nodes(t) \subseteq Node \ {Nil} /\ Inner(t) \subseteq Nodes(t) /\ Leaves(t) \subseteq Nodes(t)
      /\ Inner(t) \intersect Leaves(t) = {} /\ Nodes(t) = Inner(t) \union Leaves(t)
      /\ pos \in [Node -> Int] /\ lim \in [Node -> [Side -> Int]] /\ root \in Nodes(t)
  <2>1. t \in Tree /\ Linked(t) /\ Listed(t, pos) /\ Spans(t, pos, lim)
    BY DEF Shaped
  <2>2. pos \in [Node -> Int] /\ lim \in [Node -> [Side -> Int]] /\ root \in Nodes(t)
    BY SMTT(60), <2>1 DEF Linked, Listed, Spans
  <2> QED
    BY <2>1, <2>2, NodeKinds
<1>2. /\ p \in Inner(t) /\ e \in Side /\ child(t, p, e) = n /\ s \in Nodes(t)
      /\ n # p /\ s # n /\ s # p /\ n \in Leaves(t)
      /\ t.parent[s] = p /\ ~t.root[n] /\ t.parent[n] = p
      /\ lim[n][e] = lim[p][e] /\ lim[n][o] = pos[p]
      /\ lim[s][o] = lim[p][o] /\ lim[s][e] = pos[p]
      /\ o \in Side /\ o # e /\ Other(o) = e /\ Other(e) = o /\ \A d \in Side : d = e \/ d = o
  BY CutFacts, Sides DEF Cut
<1>3. Leaves(u) = Leaves(t) \ {n} /\ Inner(u) = Inner(t) \ {p} /\ Nodes(u) = Nodes(t) \ {n, p}
  BY <1>2, SplicedNodes
<1>4. /\ \A m \in Inner(t) \ {p} : \A d \in Side :
            child(u, m, d) = IF ~t.root[p] /\ m = gp /\ d = t.side[p] THEN s
                             ELSE child(t, m, d)
      /\ top = IF t.root[p] THEN s ELSE root
      /\ \A m \in Leaves(t) \union {Nil} : \A d \in Side :
            beside(u, m, d) = IF m = beside(t, n, Other(d)) THEN beside(t, n, d)
                              ELSE beside(t, m, d)
  BY DEF Spliced
<1>5. HasPlace(t, p) /\ p \in Nodes(t) /\ p \in Node /\ s \in Node /\ root \in Node
  BY <1>1, <1>2 DEF Linked
<1>6. t.root[p] => p = root
  BY <1>5 DEF HasPlace
<1>7. /\ \A m \in Nodes(t) : \A d \in Side :
            Beyond(d, lim[m][d], pos[m]) /\ ~Beyond(d, lim[m][d], lim[root][d])
      /\ \A m \in Inner(t) : \A d \in Side :
            /\ lim[child(t, m, d)][d] = lim[m][d] /\ lim[child(t, m, d)][Other(d)] = pos[m]
            /\ child(t, m, d) \in Nodes(t) /\ t.parent[child(t, m, d)] = m
      /\ \A m, w \in Inner(t) : pos[m] = pos[w] => m = w
      /\ \A m \in Leaves(t) : \A d \in Side :
            /\ beside(t, m, d) = Nil => lim[m][d] = lim[root][d]
            /\ beside(t, m, d) # Nil => lim[beside(t, m, d)][Other(d)] = lim[m][d]
  BY <1>1 DEF Spans, Linked, IsChild
<1>7a. ASSUME NEW m \in Leaves(t), NEW d \in Side, beside(t, m, d) = Nil
       PROVE  lim[m][d] = lim[root][d]
  BY <1>7, <1>7a
<1> HIDE DEF o, gp, root, top
<1>8. /\ \A m \in Node : /\ L[m][e] = IF lim[m][e] = pos[p] THEN lim[p][e] ELSE lim[m][e]
                         /\ L[m][o] = lim[m][o]
      /\ L \in [Node -> [Side -> Int]]
  BY DEF Joined, o
<1>9. \A d \in Side : /\ \A a \in Int : ~Beyond(d, a, a)
                      /\ \A a, b \in Int : Beyond(d, a, b) \/ Beyond(d, b, a) \/ a = b
                      /\ \A a, b, c \in Int : Beyond(d, a, b) /\ Beyond(d, b, c) => Beyond(d, a, c)
  BY BeyondOrder
<1>10. \A m \in Node : pos[m] \in Int /\ \A d \in Side : lim[m][d] \in Int
  BY <1>1
<1>11. Beyond(e, lim[p][e], pos[p]) /\ lim[p][e] # pos[p]
  BY <1>2, <1>5, <1>7, <1>9, <1>10
<1>12. lim[root][e] # pos[p]
  BY <1>2, <1>5, <1>7, <1>10, <1>11
<1>13. L[p] = lim[p] /\ L[root] = lim[root]
  <2>1. \A d \in Side : L[p][d] = lim[p][d] /\ L[root][d] = lim[root][d]
    BY <1>2, <1>5, <1>8, <1>11, <1>12
  <2>2. L[p] \in [Side -> Int] /\ lim[p] \in [Side -> Int] /\ L[root] \in [Side -> Int] /\ lim[root] \in [Side -> Int]
    BY <1>1, <1>5, <1>8
  <2> QED
    BY <2>1, <2>2
<1>14. L[s] = lim[p]
  <2>1. L[s][e] = lim[p][e] /\ L[s][o] = lim[p][o]
    BY <1>2, <1>5, <1>8
  <2>2. L[s] \in [Side -> Int] /\ lim[p] \in [Side -> Int]
    BY <1>1, <1>5, <1>8
  <2> QED
    BY <1>2, <2>1, <2>2
<1>15. L[top] = lim[root]
  BY <1>4, <1>6, <1>13, <1>14
<1>16. ASSUME NEW m \in Nodes(u), NEW d \in Side
       PROVE  Beyond(d, L[m][d], pos[m]) /\ ~Beyond(d, L[m][d], L[top][d])
  <2>1. m \in Nodes(t) /\ m \in Node /\ Beyond(d, lim[m][d], pos[m]) /\ ~Beyond(d, lim[m][d], lim[root][d])
    BY <1>1, <1>3, <1>7
  <2>2. CASE d = e /\ lim[m][e] = pos[p]
    <3>1. L[m][d] = lim[p][e] /\ Beyond(e, pos[p], pos[m])
      BY <1>8, <2>1, <2>2
    <3>2. Beyond(e, lim[p][e], pos[m]) /\ ~Beyond(e, lim[p][e], lim[root][e])
      BY <1>2, <1>5, <1>7, <1>9, <1>10, <1>11, <2>1, <3>1
    <3> QED
      BY <1>15, <2>2, <3>1, <3>2
  <2>3. CASE ~(d = e /\ lim[m][e] = pos[p])
    <3>1. L[m][d] = lim[m][d]
      BY <1>2, <1>8, <2>1, <2>3
    <3> QED
      BY <1>15, <2>1, <3>1
  <2> QED
    BY <2>2, <2>3
<1>17. ASSUME NEW m \in Inner(u), NEW d \in Side
       PROVE  L[child(u, m, d)][d] = L[m][d] /\ L[child(u, m, d)][Other(d)] = pos[m]
  <2>1. PICK c : c = child(t, m, d)
    OBVIOUS
  <2>2. /\ m \in Inner(t) /\ m # p /\ m \in Node /\ c \in Node /\ Other(d) \in Side /\ pos[m] # pos[p]
        /\ lim[c][d] = lim[m][d] /\ lim[c][Other(d)] = pos[m] /\ c \in Nodes(t) /\ t.parent[c] = m
    BY <1>1, <1>2, <1>3, <1>7, <2>1, Sides
  <2>3. L[c][d] = L[m][d] /\ L[c][Other(d)] = pos[m]
    BY <1>2, <1>8, <2>2
  <2>4. CASE c = p
    <3>1. ~t.root[p] /\ m = gp /\ d = t.side[p]
      <4>1. IsChild(t, m, d)
        BY <1>1, <2>2 DEF Linked
      <4> QED
        BY <2>1, <2>4, <4>1 DEF IsChild, gp
    <3>2. child(u, m, d) = s
      BY <1>4, <2>2, <3>1
    <3> QED
      BY <1>13, <1>14, <2>3, <2>4, <3>2
  <2>5. CASE c # p
    <3>1. ~(~t.root[p] /\ m = gp /\ d = t.side[p])
      BY <1>5, <2>1, <2>5 DEF HasPlace, gp
    <3>2. child(u, m, d) = c
      BY <1>4, <2>1, <2>2, <3>1
    <3> QED
      BY <2>3, <3>2
  <2> QED
    BY <2>4, <2>5
<1>18. \A m, w \in Inner(u) : pos[m] = pos[w] => m = w
  BY <1>3, <1>7
\* The leaf next to n, below s.
<1>19. PICK w : w = beside(t, n, o)
  OBVIOUS
<1>20. w # Nil /\ w \in Leaves(t) /\ lim[w][e] = pos[p] /\ beside(t, w, e) = n
  <2>1. w # Nil
    <3> SUFFICES ASSUME w = Nil PROVE FALSE
      OBVIOUS
    <3>1. lim[root][o] = pos[p]
      BY <1>2, <1>7, <1>19
    <3>2. Beyond(o, lim[p][o], pos[p]) /\ ~Beyond(o, lim[p][o], lim[root][o])
      BY <1>2, <1>5, <1>7
    <3> QED
      BY <3>1, <3>2
  <2>2. w \in Leaves(t) /\ beside(t, w, e) = n
    BY <1>1, <1>2, <1>19, <2>1 DEF Listed
  <2> QED
    BY <1>2, <1>7, <1>19, <2>1, <2>2
<1>21. ASSUME NEW m \in Leaves(u), NEW d \in Side
       PROVE  /\ beside(u, m, d) = Nil => L[m][d] = L[top][d]
              /\ beside(u, m, d) # Nil => L[beside(u, m, d)][Other(d)] = L[m][d]
  <2>0. m \in Leaves(t) /\ m # n /\ m \in Node /\ w \in Node /\ n \in Node
    BY <1>1, <1>2, <1>3, <1>20
  <2>1. CASE m = w /\ d = e
    <3>1. PICK a : a = beside(t, n, e)
      OBVIOUS
    <3>2. beside(u, m, d) = a /\ L[m][d] = lim[p][e]
      BY <1>2, <1>4, <1>8, <1>19, <1>20, <2>0, <2>1, <3>1
    <3>3. CASE a = Nil
      <4>1. lim[n][e] = lim[root][e]
        BY ZenonT(60), <1>2, <1>7a, <3>1, <3>3
      <4> QED
        BY <1>2, <1>15, <2>1, <3>2, <3>3, <4>1
    <3>4. CASE a # Nil
      <4>1. a \in Leaves(t) /\ a \in Node
        BY <1>1, <1>2, <3>1, <3>4 DEF Listed
      <4>2. lim[a][o] = lim[p][e]
        BY <1>2, <1>7, <3>1, <3>4
      <4>3. L[a][o] = lim[p][e]
        BY <1>8, <4>1, <4>2
      <4> QED
        BY <1>2, <2>1, <3>2, <3>4, <4>3
    <3> QED
      BY <3>3, <3>4
  <2>2. CASE m = beside(t, n, e) /\ d = o
    <3>1. beside(u, m, d) = w
      BY <1>2, <1>4, <1>19, <2>0, <2>2
    <3>2. lim[m][o] = lim[p][e]
      BY <1>1, <1>2, <1>7, <2>0, <2>2
    <3>3. L[m][d] = lim[p][e] /\ L[w][e] = lim[p][e]
      BY <1>8, <1>20, <2>0, <2>2, <3>2
    <3> QED
      BY <1>2, <1>20, <2>2, <3>1, <3>3
  <2>3. CASE ~(m = w /\ d = e) /\ ~(m = beside(t, n, e) /\ d = o)
    <3>1. PICK b : b = beside(t, m, d)
      OBVIOUS
    <3>2. beside(u, m, d) = b
      BY <1>2, <1>4, <1>19, <2>0, <2>3, <3>1
    <3>3. ~(d = e /\ lim[m][e] = pos[p])
      <4>1. lim[m][e] = pos[p] => m = w
        BY <1>2, <1>20, <2>0, LeafByEnd
      <4> QED
        BY <2>3, <4>1
    <3>4. L[m][d] = lim[m][d]
      BY <1>2, <1>8, <2>0, <3>3
    <3>5. CASE b = Nil
      <4>1. lim[m][d] = lim[root][d]
        BY <1>7a, <2>0, <3>1, <3>5
      <4> QED
        BY <1>15, <3>2, <3>4, <3>5, <4>1
    <3>6. CASE b # Nil
      <4>1. b \in Leaves(t) /\ b \in Node /\ lim[b][Other(d)] = lim[m][d] /\ beside(t, b, Other(d)) = m
        BY <1>1, <1>7, <2>0, <3>1, <3>6 DEF Listed
      <4>2. ~(Other(d) = e /\ lim[b][e] = pos[p])
        <5>1. lim[b][e] = pos[p] => b = w
          BY <1>2, <1>20, <4>1, LeafByEnd
        <5> QED
          BY <1>20, <2>0, <4>1, <5>1
      <4>3. L[b][Other(d)] = lim[b][Other(d)]
        BY <1>2, <1>8, <4>1, <4>2
      <4> QED
        BY <3>2, <3>4, <3>6, <4>1, <4>3
    <3> QED
      BY <3>5, <3>6
  <2> QED
    BY <2>1, <2>2, <2>3
<1>22. Spans(u, pos, L)
  BY <1>8, <1>16, <1>17, <1>18, <1>21 DEF Spans, top
<1> QED
  BY <1>14, <1>22

-----------------------------------------------------------------------------
(* Deletion: the leaves remembered, and the colours *)

\* After it, the tree still has its shape.
LEMMA SplicedShaped ==
    ASSUME NEW t, NEW pos, NEW lim, Shaped(t, pos, lim),
           NEW n, NEW p, NEW s, NEW e, Cut(t, n, p, s, e), NEW u, Spliced(t, u, n, p, s),
           NEW L, Joined(lim, L, pos[p], lim[p][e], e)
    PROVE  Shaped(u, pos, L) /\ \A d \in Side : L[s][d] = lim[p][d]
<1>1. u \in Tree
  BY DEF Spliced
<1>2. Linked(u) /\ Listed(u, pos)
  BY SplicedLinked, SplicedListed
<1>3. Spans(u, pos, L) /\ \A d \in Side : L[s][d] = lim[p][d]
  BY SplicedSpans
<1> QED
  BY <1>1, <1>2, <1>3 DEF Shaped

\* Only the inner node next to the stretch of p may still remember the leaf that is gone.
LEMMA SplicedKnown ==
    ASSUME NEW t, NEW pos, NEW lim, Shaped(t, pos, lim), Known(t, pos, lim),
           NEW n, NEW p, NEW s, NEW e, Cut(t, n, p, s, e), NEW u, Spliced(t, u, n, p, s),
           NEW L, Joined(lim, L, pos[p], lim[p][e], e)
    PROVE  \A m \in Inner(u) : \A d \in Side :
              Knows(u, pos, L, m, d) \/ (d = Other(e) /\ pos[m] = lim[p][e])
<1> SUFFICES ASSUME NEW m \in Inner(u), NEW d \in Side
             PROVE  Knows(u, pos, L, m, d) \/ (d = Other(e) /\ pos[m] = lim[p][e])
  OBVIOUS
<1>1. /\ p \in Inner(t) /\ e \in Side /\ n \in Leaves(t)
      /\ lim[n][e] = lim[p][e] /\ lim[n][Other(e)] = pos[p]
      /\ Other(e) \in Side /\ Other(e) # e /\ Other(Other(e)) = e /\ (d = e \/ d = Other(e))
  BY CutFacts, Sides DEF Cut
<1>2. /\ Leaves(u) = Leaves(t) \ {n} /\ Inner(u) = Inner(t) \ {p}
      /\ ext(u, m, d) = ext(t, m, d)
  BY <1>1, SplicedNodes
<1>3. m \in Inner(t) /\ m # p
  BY <1>2
<1>4. pos[m] # pos[p]
  BY <1>1, <1>3 DEF Shaped, Spans
<1>5. PICK x : x = ext(t, m, d)
  OBVIOUS
<1>6. x \in Leaves(t) /\ x \in Node /\ lim[x][Other(d)] = pos[m]
  <2>1. x \in Leaves(t) /\ lim[x][Other(d)] = pos[m]
    BY <1>3, <1>5 DEF Known
  <2> QED
    BY <2>1, NodeKinds DEF Shaped
<1>7. CASE x = n
  BY <1>1, <1>4, <1>6, <1>7
<1>8. CASE x # n
  <2>1. L[x][Other(d)] = pos[m]
    <3>1. /\ L[x][e] = IF lim[x][e] = pos[p] THEN lim[p][e] ELSE lim[x][e]
          /\ L[x][Other(e)] = lim[x][Other(e)]
      BY <1>6 DEF Joined
    <3> QED
      BY <1>1, <1>4, <1>6, <3>1
  <2>2. x \in Leaves(u) /\ x = ext(u, m, d)
    BY <1>2, <1>5, <1>6, <1>8
  <2> QED
    BY <2>1, <2>2 DEF Knows
<1> QED
  BY <1>7, <1>8

\* setrext and setlext tell both neighbours of the stretch of s its first and last leaf.
LEMMA Reconnects ==
    ASSUME NEW t, NEW pos, NEW lim, Shaped(t, pos, lim), NEW s \in Nodes(t),
           NEW lo \in Leaves(t), NEW hi \in Leaves(t),
           lim[lo][Left] = lim[s][Left], lim[hi][Right] = lim[s][Right], NEW e \in Side,
           \A m \in Inner(t) : \A d \in Side :
              Knows(t, pos, lim, m, d) \/ (d = Other(e) /\ pos[m] = lim[s][e]),
           NEW u, u = setlext(setrext(t, lprev(t, s), lo), rprev(t, s), hi)
    PROVE  Reminded(t, u) /\ Known(u, pos, lim)
<1>1. PICK v : v = Remember(t, prev(t, s, Left), Left, lo)
  OBVIOUS
<1>2. PICK w : w = Remember(v, prev(v, s, Right), Right, hi)
  OBVIOUS
<1>3. /\ Reminded(t, v)
      /\ \A m \in Inner(t) : pos[m] = lim[s][Left] => Knows(v, pos, lim, m, Other(Left))
      /\ \A m \in Inner(t) : \A d \in Side :
            Knows(t, pos, lim, m, d) => Knows(v, pos, lim, m, d)
  BY <1>1, Reminds, Sides
<1>4. /\ Shaped(v, pos, lim) /\ Inner(v) = Inner(t) /\ Leaves(v) = Leaves(t) /\ Nodes(v) = Nodes(t)
  BY <1>3, RemindedSame
<1>5. prev(v, s, Right) = rprev(t, s) /\ prev(t, s, Left) = lprev(t, s)
  BY <1>3, Sides DEF Reminded, prev, rprev, lprev
<1>6. w = u
  BY <1>1, <1>2, <1>5, Sides DEF Remember
<1>7. /\ Reminded(v, w)
      /\ \A m \in Inner(v) : pos[m] = lim[s][Right] => Knows(w, pos, lim, m, Other(Right))
      /\ \A m \in Inner(v) : \A d \in Side :
            Knows(v, pos, lim, m, d) => Knows(w, pos, lim, m, d)
  <2>1. s \in Nodes(v) /\ hi \in Leaves(v) /\ Right \in Side
    BY <1>4, Sides
  <2> QED
    BY <1>2, <1>4, <2>1, Reminds
<1>8. Reminded(t, w) /\ Inner(w) = Inner(t)
  <2>1. Reminded(t, w)
    BY <1>3, <1>7 DEF Reminded
  <2> QED
    BY <2>1, RemindedSame
<1>9. ASSUME NEW m \in Inner(t), NEW d \in Side PROVE Knows(w, pos, lim, m, d)
  <2>1. CASE Knows(t, pos, lim, m, d)
    BY <1>3, <1>4, <1>7, <2>1
  <2>2. CASE d = Other(e) /\ pos[m] = lim[s][e]
    <3>1. e = Left \/ e = Right
      BY Sides
    <3>2. CASE e = Left
      BY <1>3, <1>4, <1>7, <2>2, <3>2
    <3>3. CASE e = Right
      BY <1>4, <1>7, <2>2, <3>3
    <3> QED
      BY <3>1, <3>2, <3>3
  <2> QED
    BY <2>1, <2>2
<1>10. Known(w, pos, lim)
  BY <1>8, <1>9 DEF Known, Knows
<1> QED
  BY <1>6, <1>8, <1>10

\* Below an inner node there is a black one on each way down.
LEMMA InnerHeight ==
    ASSUME NEW t \in Tree, Linked(t), NEW R, NEW h, Heights(t, R, h, Nil), Reds(t, R, Nil),
           NEW m \in Inner(t)
    PROVE  h[m] \in Nat /\ h[m] >= 1
<1>1. /\ h \in [Node -> Nat] /\ R \subseteq Inner(t) /\ Left \in Side
      /\ Inner(t) \subseteq Nodes(t) /\ Nodes(t) \subseteq Node \ {Nil}
  BY NodeKinds, Sides DEF Heights
<1>2. ASSUME NEW a \in Inner(t), NEW c, c = child(t, a, Left)
      PROVE  /\ c \in Nodes(t) /\ c # Nil /\ t.parent[c] = a /\ ~t.root[c] /\ h[c] \in Nat
             /\ h[a] = h[c] + (IF c \in R THEN 0 ELSE 1) /\ h[a] \in Nat
  <2>1. IsChild(t, a, Left)
    BY <1>1 DEF Linked
  <2>2. c \in Nodes(t) /\ c # Nil /\ t.parent[c] = a /\ ~t.root[c]
    BY <1>1, <1>2, <2>1 DEF IsChild
  <2>3. h[c] \in Nat /\ h[a] \in Nat
    BY <1>1, <2>2
  <2>4. h[a] = h[c] + (IF c \in R THEN 0 ELSE 1) + (IF c = Nil THEN 1 ELSE 0)
    BY <1>1, <1>2 DEF Heights
  <2> QED
    BY <2>2, <2>3, <2>4
<1>3. PICK c : c = child(t, m, Left)
  OBVIOUS
<1>4. CASE c \in R
  <2>1. PICK x : x = child(t, c, Left)
    OBVIOUS
  <2>2. c \in Inner(t)
    BY <1>1, <1>4
  <2>3. x \notin R
    <3>1. x # Nil /\ t.parent[x] = c /\ ~t.root[x]
      BY <1>2, <2>1, <2>2
    <3> QED
      BY <1>4, <3>1 DEF Reds
  <2>4. h[c] >= 1
    BY <1>2, <2>1, <2>2, <2>3
  <2> QED
    BY <1>2, <1>3, <1>4, <2>4
<1>5. CASE c \notin R
  BY <1>2, <1>3, <1>5
<1> QED
  BY <1>4, <1>5

\* The sibling of a leaf is a leaf, or red and above two leaves.
LEMMA LowSibling ==
    ASSUME NEW t, NEW pos, NEW lim, Shaped(t, pos, lim), NEW R, NEW h, Heights(t, R, h, Nil),
           Reds(t, R, Nil), NEW n, NEW p, NEW s, NEW e, Cut(t, n, p, s, e)
    PROVE  /\ h[p] = 1
           /\ \/ s \in Leaves(t) /\ s \notin R /\ h[s] = 0
              \/ /\ s \in R /\ s \in Inner(t) /\ h[s] = 1 /\ p \notin R
                 /\ \A d \in Side : child(t, s, d) \in Leaves(t)
<1>1. /\ t \in Tree /\ Linked(t) /\ R \subseteq Inner(t) /\ h \in [Node -> Nat]
      /\ Inner(t) \intersect Leaves(t) = {} /\ Nodes(t) = Inner(t) \union Leaves(t)
      /\ Nodes(t) \subseteq Node \ {Nil} /\ \A m \in Leaves(t) : h[m] = 0
  BY NodeKinds DEF Shaped, Heights
<1>2. /\ p \in Inner(t) /\ e \in Side /\ Other(e) \in Side /\ child(t, p, e) = n
      /\ child(t, p, Other(e)) = s /\ s \in Nodes(t) /\ t.parent[s] = p /\ ~t.root[s]
      /\ n \in Leaves(t)
  BY CutFacts, Sides DEF Cut
<1>3. ASSUME NEW m \in Inner(t), NEW d \in Side, NEW c, c = child(t, m, d)
      PROVE  /\ c \in Nodes(t) /\ c # Nil /\ t.parent[c] = m /\ ~t.root[c] /\ h[c] \in Nat
             /\ h[m] = h[c] + (IF c \in R THEN 0 ELSE 1) /\ h[m] \in Nat
  <2>1. IsChild(t, m, d)
    BY <1>1 DEF Linked
  <2>2. c \in Nodes(t) /\ c # Nil /\ t.parent[c] = m /\ ~t.root[c]
    BY <1>1, <1>3, <2>1 DEF IsChild
  <2>3. h[c] \in Nat /\ h[m] \in Nat
    BY <1>1, <2>2
  <2>4. h[m] = h[c] + (IF c \in R THEN 0 ELSE 1) + (IF c = Nil THEN 1 ELSE 0)
    BY <1>3 DEF Heights
  <2> QED
    BY <2>2, <2>3, <2>4
<1>4. h[p] = 1
  BY <1>1, <1>2, <1>3
<1>5. CASE s \in Leaves(t)
  BY <1>1, <1>4, <1>5
<1>6. CASE s \in Inner(t)
  <2>1. h[s] \in Nat /\ h[s] >= 1 /\ h[p] = h[s] + (IF s \in R THEN 0 ELSE 1)
    BY <1>1, <1>2, <1>3, <1>6, InnerHeight
  <2>2. s \in R /\ h[s] = 1
    BY <1>4, <2>1
  <2>3. p \notin R
    BY <1>1, <1>2, <2>2 DEF Reds
  <2>4. ASSUME NEW d \in Side PROVE child(t, s, d) \in Leaves(t)
    <3>1. PICK c : c = child(t, s, d)
      OBVIOUS
    <3>2. /\ c \in Nodes(t) /\ c # Nil /\ t.parent[c] = s /\ ~t.root[c] /\ h[c] \in Nat
          /\ h[s] = h[c] + (IF c \in R THEN 0 ELSE 1)
      BY <1>3, <1>6, <3>1
    <3>3. c \notin R
      BY <2>2, <3>2 DEF Reds
    <3>4. h[c] = 0
      BY <2>2, <3>2, <3>3
    <3>5. c \notin Inner(t)
      BY <1>1, <3>4, InnerHeight
    <3> QED
      BY <1>1, <3>1, <3>2, <3>5
  <2> QED
    BY <1>4, <1>6, <2>2, <2>3, <2>4
<1> QED
  BY <1>1, <1>2, <1>5, <1>6

\* The colours and the heights of the tree without n: only s may have another colour, and
\* be short.
LEMMA SplicedHeights ==
    ASSUME NEW t, NEW pos, NEW lim, Shaped(t, pos, lim), NEW R, NEW h, Heights(t, R, h, Nil),
           NEW n, NEW p, NEW s, NEW e, Cut(t, n, p, s, e), NEW u, Spliced(t, u, n, p, s),
           NEW Q, Q \subseteq Inner(u), \A m \in Nodes(u) \ {s} : m \in Q <=> m \in R,
           NEW short \in {s, Nil},
           ~t.root[p] => h[p] + (IF p \in R THEN 0 ELSE 1)
                         = h[s] + (IF s \in Q THEN 0 ELSE 1) + (IF s = short THEN 1 ELSE 0)
    PROVE  Heights(u, Q, h, short)
<1>1. /\ t \in Tree /\ Linked(t) /\ R \subseteq Inner(t) /\ h \in [Node -> Nat]
      /\ Nodes(t) \subseteq Node \ {Nil} /\ Inner(t) \subseteq Nodes(t) /\ Leaves(t) \subseteq Nodes(t)
      /\ \A m \in Leaves(t) : h[m] = 0
      /\ \A m \in Inner(t) : \A d \in Side :
            h[m] = h[child(t, m, d)] + (IF child(t, m, d) \in R THEN 0 ELSE 1)
                                     + (IF child(t, m, d) = Nil THEN 1 ELSE 0)
  BY NodeKinds DEF Shaped, Heights
<1>2. /\ p \in Inner(t) /\ s \in Nodes(t) /\ t.parent[s] = p /\ n \in Leaves(t) /\ t.parent[n] = p
  BY CutFacts DEF Cut
<1>3. Leaves(u) = Leaves(t) \ {n} /\ Inner(u) = Inner(t) \ {p} /\ Nodes(u) = Nodes(t) \ {n, p}
  BY <1>2, SplicedNodes
<1>4. ASSUME NEW m \in Inner(u), NEW d \in Side, NEW c, c = child(u, m, d)
      PROVE  h[m] = h[c] + (IF c \in Q THEN 0 ELSE 1) + (IF c = short THEN 1 ELSE 0)
  <2>1. PICK a : a = child(t, m, d)
    OBVIOUS
  <2>2. m \in Inner(t) /\ m # p /\ IsChild(t, m, d)
    BY <1>1, <1>3 DEF Linked
  <2>3. a \in Nodes(t) /\ a # Nil /\ a \in Node /\ t.parent[a] = m /\ t.side[a] = d /\ ~t.root[a]
    BY <1>1, <2>1, <2>2 DEF IsChild
  <2>4. h[m] = h[a] + (IF a \in R THEN 0 ELSE 1)
    <3>1. h[m] = h[a] + (IF a \in R THEN 0 ELSE 1) + (IF a = Nil THEN 1 ELSE 0) /\ h[a] \in Nat
      BY <1>1, <2>1, <2>2, <2>3
    <3> QED
      BY <2>3, <3>1
  <2>5. c = IF ~t.root[p] /\ m = t.parent[p] /\ d = t.side[p] THEN s ELSE a
    BY <1>4, <2>1, <2>2 DEF Spliced
  <2>6. CASE a = p
    BY <2>3, <2>4, <2>5, <2>6
  <2>7. CASE a # p
    <3>1. c = a
      <4>1. HasPlace(t, p)
        BY <1>1, <1>2 DEF Linked
      <4> QED
        BY <2>1, <2>5, <2>7, <4>1 DEF HasPlace
    <3>2. a # s /\ a # n
      BY <1>2, <2>2, <2>3
    <3>3. (a \in Q <=> a \in R) /\ a # short
      BY <1>3, <2>3, <2>7, <3>2
    <3>4. h[a] \in Nat
      BY <1>1, <2>3
    <3> QED
      BY <2>4, <3>1, <3>3, <3>4
  <2> QED
    BY <2>6, <2>7
<1>5. \A m \in Leaves(u) : h[m] = 0
  BY <1>1, <1>3
<1> QED
  BY <1>1, <1>4, <1>5 DEF Heights

\* After it, there are no two red nodes in a row that were none before.
LEMMA SplicedReds ==
    ASSUME NEW t, NEW pos, NEW lim, Shaped(t, pos, lim), NEW R, R \subseteq Nodes(t), Reds(t, R, Nil),
           NEW n, NEW p, NEW s, NEW e, Cut(t, n, p, s, e), NEW u, Spliced(t, u, n, p, s),
           NEW Q, Q \subseteq R \ {n, p}, s \in Q /\ ~t.root[p] => t.parent[p] \notin R
    PROVE  Reds(u, Q, Nil)
<1> SUFFICES ASSUME NEW m \in Q, ~u.root[m] PROVE u.parent[m] \notin Q
  BY DEF Reds
<1>1. u.parent[s] = t.parent[p] /\ u.root[s] = t.root[p]
  BY DEF Spliced
<1>2. CASE m = s
  BY <1>1, <1>2
<1>3. CASE m # s
  <2>1. u.parent[m] = t.parent[m] /\ u.root[m] = t.root[m] /\ m # Nil
    <3>1. m \in Nodes(t) \ {n, p, s} /\ m # Nil
      BY <1>3, NodeKinds DEF Shaped
    <3> QED
      BY <3>1 DEF Spliced
  <2> QED
    BY <2>1 DEF Reds
<1> QED
  BY <1>2, <1>3

\* What the inner nodes remember and the order of the keys belong to the leaves.
LEMMA KeptRest ==
    ASSUME NEW t, NEW pos, NEW lim, Known(t, pos, lim), Sorted(t, pos),
           NEW u, Kept(t, u, pos, lim)
    PROVE  \E lims : Shaped(u, pos, lims) /\ Known(u, pos, lims) /\ Sorted(u, pos)
<1>1. PICK lims : Shaped(u, pos, lims) /\ \A m \in Leaves(t) : lims[m] = lim[m]
  BY DEF Kept
<1>2. /\ u.key = t.key /\ Leaves(u) = Leaves(t) /\ Inner(u) = Inner(t)
      /\ u.lext = t.lext /\ u.rext = t.rext
  BY DEF Kept, Arranged, SameList
<1>3. Sorted(u, pos)
  BY <1>2 DEF Sorted
<1>4. Known(u, pos, lims)
  <2>1. \A m, d : ext(u, m, d) = ext(t, m, d)
    BY <1>2 DEF ext
  <2> QED
    BY <1>1, <1>2, <2>1 DEF Known
<1> QED
  BY <1>1, <1>3, <1>4

-----------------------------------------------------------------------------
(* The repair of a deletion: one node is a black node short *)

\* What a node and its sibling are to each other.
Siblings(t, n, p, s, e) ==
    /\ n \in Nodes(t) /\ ~t.root[n] /\ p = t.parent[n] /\ e = t.side[n] /\ s = sibling(t, n)

\* A node below the root has a parent and a sibling.
LEMMA SiblingFacts ==
    ASSUME NEW t \in Tree, Linked(t), NEW n, NEW p, NEW s, NEW e, Siblings(t, n, p, s, e)
    PROVE  /\ p \in Inner(t) /\ e \in Side /\ Other(e) \in Side
           /\ child(t, p, e) = n /\ child(t, p, Other(e)) = s
           /\ s \in Nodes(t) /\ t.parent[s] = p /\ ~t.root[s] /\ t.side[s] = Other(e)
           /\ n # s /\ n # Nil /\ s # Nil
           /\ \A d \in Side : d = e \/ d = Other(e)
<1>1. n \in Node /\ n # Nil /\ e \in Side
  BY NodeKinds, TreeFields DEF Siblings
<1>2. p \in Inner(t) /\ child(t, p, e) = n
  BY DEF Siblings, Linked, HasPlace
<1>3. child(t, p, Other(e)) = s
  BY DEF Siblings, sibling
<1>4. Other(e) \in Side /\ Other(e) # e /\ \A d \in Side : d = e \/ d = Other(e)
  BY <1>1, Sides
<1>5. IsChild(t, p, Other(e))
  BY <1>2, <1>4 DEF Linked
<1>6. s \in Nodes(t) /\ t.parent[s] = p /\ ~t.root[s] /\ t.side[s] = Other(e)
  BY <1>3, <1>5 DEF IsChild
<1>7. n # s /\ s # Nil
  BY <1>4, <1>6, NodeKinds DEF Siblings
<1> QED
  BY <1>1, <1>2, <1>3, <1>4, <1>6, <1>7

\* A node with a child is another node than the child.
LEMMA ChildFacts ==
    ASSUME NEW t, NEW pos, NEW lim, Shaped(t, pos, lim), NEW m \in Inner(t), NEW d \in Side,
           NEW c, c = child(t, m, d)
    PROVE  /\ c \in Nodes(t) /\ c # Nil /\ c \in Node /\ t.parent[c] = m /\ t.side[c] = d
           /\ ~t.root[c] /\ c # m /\ t.parent[m] # c
<1>1. t \in Tree /\ Linked(t) /\ Nodes(t) \subseteq Node \ {Nil} /\ Inner(t) \subseteq Nodes(t)
  BY NodeKinds DEF Shaped
<1>2. c \in Nodes(t) /\ t.parent[c] = m /\ t.side[c] = d /\ ~t.root[c]
  BY <1>1 DEF Linked, IsChild
<1>3. Ranked(t, Width(lim))
  BY WidthRanks
<1>4. Width(lim)[c] < Width(lim)[m] /\ Width(lim)[m] \in Int /\ Width(lim)[c] \in Int
  BY <1>1, <1>2, <1>3 DEF Ranked
<1>5. t.parent[m] # c
  <2> SUFFICES ASSUME t.parent[m] = c PROVE FALSE
    OBVIOUS
  <2>1. HasPlace(t, m)
    BY <1>1 DEF Linked
  <2>2. ~t.root[m]
    BY <1>1, <1>2, <2>1 DEF HasPlace
  <2>3. c \in Inner(t) /\ child(t, c, t.side[m]) = m /\ t.side[m] \in Side
    BY <1>1, <2>1, <2>2, TreeFields DEF HasPlace
  <2>4. Width(lim)[m] < Width(lim)[c]
    BY <1>3, <2>3 DEF Ranked
  <2> QED
    BY <1>4, <2>4
<1> QED
  BY <1>1, <1>2, <1>4, <1>5

\* The heights below one inner node.
LEMMA HeightStep ==
    ASSUME NEW t, NEW pos, NEW lim, Shaped(t, pos, lim), NEW R, NEW h, NEW short,
           Heights(t, R, h, short), NEW m \in Inner(t), NEW d \in Side, NEW c, c = child(t, m, d)
    PROVE  /\ h[m] \in Nat /\ h[c] \in Nat
           /\ c \in R /\ c # short => h[m] = h[c]
           /\ c \notin R /\ c # short => h[m] = h[c] + 1
           /\ c \in R /\ c = short => h[m] = h[c] + 1
           /\ c \notin R /\ c = short => h[m] = h[c] + 2
<1>1. c \in Node /\ m \in Node
  BY ChildFacts, NodeKinds DEF Shaped
<1>2. h[m] \in Nat /\ h[c] \in Nat
  BY <1>1 DEF Heights
<1>3. h[m] = h[c] + (IF c \in R THEN 0 ELSE 1) + (IF c = short THEN 1 ELSE 0)
  BY DEF Heights
<1> QED
  BY <1>2, <1>3

\* The sibling of a black node that is short is an inner node.
LEMMA ShortSibling ==
    ASSUME NEW t, NEW pos, NEW lim, Shaped(t, pos, lim), NEW n, NEW R, NEW h, Heights(t, R, h, n),
           n \notin R, NEW p, NEW s, NEW e, Siblings(t, n, p, s, e)
    PROVE  s \in Inner(t) /\ h[p] \in Nat /\ h[p] >= 2
<1>1. t \in Tree /\ Linked(t)
  BY DEF Shaped
<1>2. /\ p \in Inner(t) /\ e \in Side /\ Other(e) \in Side
      /\ child(t, p, e) = n /\ child(t, p, Other(e)) = s /\ s \in Nodes(t) /\ n # s
  BY <1>1, SiblingFacts
<1>3. h[p] \in Nat /\ h[n] \in Nat /\ h[s] \in Nat /\ h[p] = h[n] + 2
  BY <1>2, HeightStep
<1>4. h[p] = h[s] \/ h[p] = h[s] + 1
  BY <1>2, HeightStep
<1>5. s \notin Leaves(t)
  <2> SUFFICES ASSUME s \in Leaves(t) PROVE FALSE
    OBVIOUS
  <2>1. h[s] = 0
    BY DEF Heights
  <2> QED
    BY <1>3, <1>4, <2>1
<1> QED
  BY <1>1, <1>2, <1>3, <1>5, NodeKinds

\* To redden the sibling makes the parent short.
LEMMA ReddenColours ==
    ASSUME NEW t, NEW pos, NEW lim, Shaped(t, pos, lim), NEW n, NEW R, NEW h, Heights(t, R, h, n),
           n \notin R, NEW p, NEW s, NEW e, Siblings(t, n, p, s, e), Reds(t, R, Nil),
           p \notin R, s \notin R, \A d \in Side : child(t, s, d) \notin R,
           NEW Q, Q = R \union {s}
    PROVE  (\E k : Heights(t, Q, k, p)) /\ Reds(t, Q, Nil)
<1>1. /\ t \in Tree /\ Linked(t) /\ R \subseteq Inner(t) /\ h \in [Node -> Nat]
      /\ Nodes(t) \subseteq Node \ {Nil} /\ Inner(t) \subseteq Nodes(t)
      /\ Inner(t) \intersect Leaves(t) = {} /\ \A m \in Leaves(t) : h[m] = 0 /\ m \in Node
  BY NodeKinds DEF Shaped, Heights
<1>2. /\ p \in Inner(t) /\ e \in Side /\ Other(e) \in Side
      /\ child(t, p, e) = n /\ child(t, p, Other(e)) = s /\ n # s /\ t.parent[s] = p /\ ~t.root[s]
      /\ \A d \in Side : d = e \/ d = Other(e)
  BY <1>1, SiblingFacts
<1>3. s \in Inner(t) /\ h[p] \in Nat /\ h[p] >= 2
  BY ShortSibling
<1>4. s # p /\ n # p
  BY <1>2, ChildFacts
<1>5. PICK k : k = [h EXCEPT ![p] = h[p] - 1]
  OBVIOUS
<1>6. k \in [Node -> Nat] /\ k[p] = h[p] - 1 /\ \A m \in Node \ {p} : k[m] = h[m]
  BY <1>1, <1>2, <1>3, <1>5
<1>7. ASSUME NEW m \in Inner(t), NEW d \in Side, NEW c, c = child(t, m, d)
      PROVE  k[m] = k[c] + (IF c \in Q THEN 0 ELSE 1) + (IF c = p THEN 1 ELSE 0)
  <2>1. c \in Node /\ t.parent[c] = m /\ c # m /\ m \in Node
    BY <1>1, <1>7, ChildFacts
  <2>2. /\ h[m] \in Nat /\ h[c] \in Nat
        /\ c \in R /\ c # n => h[m] = h[c]
        /\ c \notin R /\ c # n => h[m] = h[c] + 1
        /\ c \notin R /\ c = n => h[m] = h[c] + 2
    BY <1>7, HeightStep
  <2>3. CASE m = p
    <3>1. c = n \/ c = s
      BY <1>2, <1>7, <2>3
    <3>2. CASE c = n
      <4>1. c \notin Q /\ c # p /\ k[c] = h[c] /\ k[m] = h[m] - 1 /\ h[m] = h[c] + 2
        BY <1>2, <1>4, <1>6, <2>1, <2>2, <2>3, <3>2
      <4> QED
        BY <2>2, <4>1
    <3>3. CASE c = s
      <4>1. c \in Q /\ c # p /\ k[c] = h[c] /\ k[m] = h[m] - 1 /\ h[m] = h[c] + 1
        BY <1>2, <1>4, <1>6, <2>1, <2>2, <2>3, <3>3
      <4> QED
        BY <2>2, <4>1
    <3> QED
      BY <3>1, <3>2, <3>3
  <2>4. CASE m # p
    <3>1. c # n /\ c # s
      BY <1>2, <2>1, <2>4 DEF Siblings
    <3>2. k[m] = h[m] /\ (c \in Q <=> c \in R)
      BY <1>6, <2>1, <2>4, <3>1
    <3>3. CASE c = p
      <4>1. k[c] = h[c] - 1 /\ c \notin Q /\ h[m] = h[c] + 1
        BY <1>6, <2>2, <3>1, <3>2, <3>3
      <4> QED
        BY <2>2, <3>2, <3>3, <4>1
    <3>4. CASE c # p
      <4>1. k[c] = h[c]
        BY <1>6, <2>1, <3>4
      <4> QED
        BY <2>2, <3>1, <3>2, <3>4, <4>1
    <3> QED
      BY <3>3, <3>4
  <2> QED
    BY <2>3, <2>4
<1>8. \A m \in Leaves(t) : k[m] = 0
  BY <1>1, <1>2, <1>6
<1>9. Q \subseteq Inner(t)
  BY <1>1, <1>3
<1>10. Heights(t, Q, k, p)
  BY <1>6, <1>7, <1>8, <1>9 DEF Heights
<1>11. ASSUME NEW m \in Q, ~t.root[m] PROVE t.parent[m] \notin Q
  <2>1. CASE m = s
    BY <1>2, <1>4, <2>1
  <2>2. CASE m # s
    <3>1. m \in R /\ m \in Nodes(t) /\ m # Nil
      BY <1>1, <2>2
    <3>2. t.parent[m] \notin R
      BY <1>11, <3>1 DEF Reds
    <3>3. t.parent[m] # s
      <4>1. child(t, t.parent[m], t.side[m]) = m /\ t.side[m] \in Side
        BY <1>1, <1>11, <3>1, TreeFields DEF Linked, HasPlace
      <4> QED
        BY <3>1, <4>1
    <3> QED
      BY <3>2, <3>3
  <2> QED
    BY <2>1, <2>2
<1> QED
  BY <1>10, <1>11 DEF Reds

\* With a red parent, the sibling and the parent swap their colours.
LEMMA SettleColours ==
    ASSUME NEW t, NEW pos, NEW lim, Shaped(t, pos, lim), NEW n, NEW R, NEW h, Heights(t, R, h, n),
           n \notin R, NEW p, NEW s, NEW e, Siblings(t, n, p, s, e), Reds(t, R, Nil),
           p \in R, \A d \in Side : child(t, s, d) \notin R,
           NEW Q, Q = (R \ {p}) \union {s}
    PROVE  (\E k : Heights(t, Q, k, Nil)) /\ Reds(t, Q, Nil)
<1>1. /\ t \in Tree /\ Linked(t) /\ R \subseteq Inner(t) /\ h \in [Node -> Nat]
      /\ Nodes(t) \subseteq Node \ {Nil} /\ Inner(t) \subseteq Nodes(t)
      /\ Inner(t) \intersect Leaves(t) = {} /\ \A m \in Leaves(t) : h[m] = 0 /\ m \in Node
  BY NodeKinds DEF Shaped, Heights
<1>2. /\ p \in Inner(t) /\ e \in Side /\ Other(e) \in Side /\ s # Nil
      /\ child(t, p, e) = n /\ child(t, p, Other(e)) = s /\ n # s /\ t.parent[s] = p /\ ~t.root[s]
      /\ \A d \in Side : d = e \/ d = Other(e)
  BY <1>1, SiblingFacts
<1>3. s \in Inner(t) /\ h[p] \in Nat /\ h[p] >= 2
  BY ShortSibling
<1>4. s # p /\ n # p
  BY <1>2, ChildFacts
<1>a. s \notin R
  BY <1>2 DEF Reds
<1>5. PICK k : k = [h EXCEPT ![p] = h[p] - 1]
  OBVIOUS
<1>6. k \in [Node -> Nat] /\ k[p] = h[p] - 1 /\ \A m \in Node \ {p} : k[m] = h[m]
  BY <1>1, <1>2, <1>3, <1>5
<1>7. ASSUME NEW m \in Inner(t), NEW d \in Side, NEW c, c = child(t, m, d)
      PROVE  k[m] = k[c] + (IF c \in Q THEN 0 ELSE 1) + (IF c = Nil THEN 1 ELSE 0)
  <2>1. c \in Node /\ t.parent[c] = m /\ c # m /\ m \in Node /\ c # Nil
    BY <1>1, <1>7, ChildFacts
  <2>2. /\ h[m] \in Nat /\ h[c] \in Nat
        /\ c \in R /\ c # n => h[m] = h[c]
        /\ c \notin R /\ c # n => h[m] = h[c] + 1
        /\ c \notin R /\ c = n => h[m] = h[c] + 2
    BY <1>7, HeightStep
  <2>3. CASE m = p
    <3>1. c = n \/ c = s
      BY <1>2, <1>7, <2>3
    <3>2. CASE c = n
      <4>1. c \notin Q /\ c # Nil /\ k[c] = h[c] /\ k[m] = h[m] - 1 /\ h[m] = h[c] + 2
        BY <1>2, <1>4, <1>6, <2>1, <2>2, <2>3, <3>2
      <4> QED
        BY <2>2, <4>1
    <3>3. CASE c = s
      <4>1. c \in Q /\ c # Nil /\ k[c] = h[c] /\ k[m] = h[m] - 1 /\ h[m] = h[c] + 1
        BY <1>2, <1>4, <1>6, <1>a, <2>1, <2>2, <2>3, <3>3
      <4> QED
        BY <2>2, <4>1
    <3> QED
      BY <3>1, <3>2, <3>3
  <2>4. CASE m # p
    <3>1. c # n /\ c # s
      BY <1>2, <2>1, <2>4 DEF Siblings
    <3>2. k[m] = h[m] /\ (c # p => (c \in Q <=> c \in R))
      BY <1>6, <2>1, <2>4, <3>1
    <3>3. CASE c = p
      <4>1. k[c] = h[c] - 1 /\ c \notin Q /\ h[m] = h[c]
        BY <1>4, <1>6, <2>2, <3>1, <3>3
      <4> QED
        BY <2>1, <2>2, <3>2, <4>1
    <3>4. CASE c # p
      <4>1. k[c] = h[c]
        BY <1>6, <2>1, <3>4
      <4> QED
        BY <2>1, <2>2, <3>1, <3>2, <3>4, <4>1
    <3> QED
      BY <3>3, <3>4
  <2> QED
    BY <2>3, <2>4
<1>8. \A m \in Leaves(t) : k[m] = 0
  BY <1>1, <1>2, <1>6
<1>9. Q \subseteq Inner(t)
  BY <1>1, <1>3
<1>10. Heights(t, Q, k, Nil)
  BY <1>6, <1>7, <1>8, <1>9 DEF Heights
<1>11. ASSUME NEW m \in Q, ~t.root[m] PROVE t.parent[m] \notin Q
  <2>1. CASE m = s
    BY <1>2, <1>4, <2>1
  <2>2. CASE m # s
    <3>1. m \in R /\ m \in Nodes(t) /\ m # Nil
      BY <1>1, <2>2
    <3>2. t.parent[m] \notin R
      BY <1>11, <3>1 DEF Reds
    <3>3. t.parent[m] # s
      <4>1. child(t, t.parent[m], t.side[m]) = m /\ t.side[m] \in Side
        BY <1>1, <1>11, <3>1, TreeFields DEF Linked, HasPlace
      <4> QED
        BY <3>1, <4>1
    <3> QED
      BY <3>2, <3>3
  <2> QED
    BY <2>1, <2>2
<1> QED
  BY <1>10, <1>11 DEF Reds

\* The nodes a rotation touches are different ones.
LEMMA TurnedFacts ==
    ASSUME NEW t, NEW pos, NEW lim, Shaped(t, pos, lim),
           NEW y \in Inner(t), NEW l \in Side, NEW o \in Side, o = Other(l),
           NEW x \in Inner(t), x = child(t, y, l), NEW u \in Tree, Turned(t, u, y, l, o),
           NEW c, c = child(t, x, o), NEW d, d = child(t, y, o), NEW z, z = child(t, x, l)
    PROVE  /\ x # y /\ c # x /\ c # y /\ d # x /\ d # y /\ z # x /\ z # y /\ z # c
           /\ c # Nil /\ d # Nil /\ z # Nil /\ {x, y, c, d, z} \subseteq Nodes(t)
           /\ t.parent[x] = y /\ t.parent[d] = y /\ t.parent[c] = x /\ t.parent[z] = x
           /\ ~t.root[x] /\ ~t.root[c] /\ ~t.root[d] /\ ~t.root[z] /\ l # o
           /\ \A s \in Side : s = l \/ s = o
           /\ child(u, y, l) = c /\ child(u, y, o) = d /\ child(u, x, o) = y /\ child(u, x, l) = z
           /\ Inner(u) = Inner(t) /\ Leaves(u) = Leaves(t) /\ Nodes(u) = Nodes(t)
           /\ u.parent[x] = t.parent[y] /\ u.parent[y] = x /\ u.parent[c] = y
           /\ u.parent[Nil] = IF t.root[y] THEN x ELSE t.parent[Nil]
           /\ \A m \in Nodes(t) \ {x, y, c} : u.parent[m] = t.parent[m]
           /\ \A m \in Nodes(t) \ {x, y} : u.root[m] = t.root[m]
           /\ u.root[x] = t.root[y] /\ ~u.root[y] /\ u.side[y] = o /\ u.side[c] = l
           /\ \A m \in Nodes(t) \ {x, y, c} : u.side[m] = t.side[m]
<1>1. /\ Nodes(t) \subseteq Node \ {Nil} /\ Inner(t) \subseteq Nodes(t) /\ l # o
      /\ \A s \in Side : s = l \/ s = o
  BY NodeKinds, Sides DEF Shaped
<1>2. /\ x \in Nodes(t) /\ x # Nil /\ t.parent[x] = y /\ ~t.root[x] /\ x # y /\ t.parent[y] # x /\ t.side[x] = l
  BY ChildFacts
<1>3. /\ d \in Nodes(t) /\ d # Nil /\ t.parent[d] = y /\ ~t.root[d] /\ d # y /\ t.side[d] = o
  BY ChildFacts
<1>4. /\ c \in Nodes(t) /\ c # Nil /\ t.parent[c] = x /\ ~t.root[c] /\ c # x /\ t.side[c] = o
      /\ z \in Nodes(t) /\ z # Nil /\ t.parent[z] = x /\ ~t.root[z] /\ z # x /\ t.side[z] = l
  BY ChildFacts
<1>5. c # y /\ z # y /\ z # c /\ d # x
  BY <1>1, <1>2, <1>3, <1>4
<1>6. Inner(u) = Inner(t) /\ Leaves(u) = Leaves(t) /\ Nodes(u) = Nodes(t)
  BY SameNodes DEF Turned
<1>7. /\ child(u, y, l) = c /\ child(u, y, o) = d /\ child(u, x, o) = y /\ child(u, x, l) = z
      /\ u.parent[Nil] = IF t.root[y] THEN x ELSE t.parent[Nil]
      /\ \A m \in Node \ {Nil} :
            u.parent[m] = IF m = x THEN t.parent[y] ELSE IF m = y THEN x
                          ELSE IF m = c THEN y ELSE t.parent[m]
      /\ \A m \in Node \ {x, y} : u.root[m] = t.root[m]
      /\ u.root[x] = t.root[y] /\ ~u.root[y]
      /\ u.side[y] = o /\ u.side[c] = l
      /\ \A m \in Node \ {x, y, c} : u.side[m] = t.side[m]
  BY DEF Turned
<1>8. /\ u.parent[x] = t.parent[y] /\ u.parent[y] = x /\ u.parent[c] = y
      /\ \A m \in Nodes(t) \ {x, y, c} : u.parent[m] = t.parent[m]
      /\ \A m \in Nodes(t) \ {x, y} : u.root[m] = t.root[m]
      /\ \A m \in Nodes(t) \ {x, y, c} : u.side[m] = t.side[m]
  BY <1>1, <1>2, <1>4, <1>5, <1>7
<1> QED
  BY <1>1, <1>2, <1>3, <1>4, <1>5, <1>6, <1>7, <1>8

\* A rotation that turns a red node up and swaps the colours of the two nodes.
LEMMA RotateRedUp ==
    ASSUME NEW t, NEW pos, NEW lim, Shaped(t, pos, lim),
           NEW y \in Inner(t), NEW l \in Side, NEW o \in Side, o = Other(l),
           NEW x \in Inner(t), x = child(t, y, l), NEW u \in Tree, Turned(t, u, y, l, o),
           NEW R, R \subseteq Inner(t), Reds(t, R, Nil),
           x \in R, y \notin R, child(t, y, o) \notin R,
           NEW Q, Q = (R \ {x}) \union {y}
    PROVE  Reds(u, Q, Nil)
<1>1. PICK c, d, z : c = child(t, x, o) /\ d = child(t, y, o) /\ z = child(t, x, l)
  OBVIOUS
<1>2. /\ x # y /\ c # x /\ c # y /\ c # Nil /\ t.parent[c] = x /\ ~t.root[c]
      /\ u.parent[y] = x
      /\ \A m \in Nodes(t) \ {x, y, c} : u.parent[m] = t.parent[m]
      /\ \A m \in Nodes(t) \ {x, y} : u.root[m] = t.root[m]
      /\ \A s \in Side : s = l \/ s = o
  BY <1>1, TurnedFacts
<1>3. c \notin R
  BY <1>2 DEF Reds
<1>4. ASSUME NEW m \in Q, ~u.root[m] PROVE u.parent[m] \notin Q
  <2>1. CASE m = y
    BY <1>2, <2>1
  <2>2. CASE m # y
    <3>1. m \in R /\ m # c /\ m # x /\ m \in Nodes(t) /\ m # Nil /\ m \in Node
      BY <1>3, <1>4, <2>2, NodeKinds DEF Shaped
    <3>2. u.parent[m] = t.parent[m] /\ ~t.root[m]
      BY <1>2, <1>4, <2>2, <3>1
    <3>3. t.parent[m] \notin R
      BY <3>1, <3>2 DEF Reds
    <3>4. t.parent[m] # y
      <4>1. child(t, t.parent[m], t.side[m]) = m /\ t.side[m] \in Side
        BY <3>1, <3>2, TreeFields DEF Shaped, Linked, HasPlace
      <4> QED
        BY <1>2, <3>1, <4>1
    <3> QED
      BY <3>2, <3>3, <3>4
  <2> QED
    BY <2>1, <2>2
<1> QED
  BY <1>4 DEF Reds

\* The rotation that gives the short side of y one black node more.
LEMMA RotateShort ==
    ASSUME NEW t, NEW pos, NEW lim, Shaped(t, pos, lim),
           NEW y \in Inner(t), NEW l \in Side, NEW o \in Side, o = Other(l),
           NEW x \in Inner(t), x = child(t, y, l), NEW u \in Tree, Turned(t, u, y, l, o),
           NEW n, n = child(t, y, o), NEW R, NEW h, Heights(t, R, h, n), Reds(t, R, Nil),
           t.parent[Nil] \notin R, n \notin R, x \notin R,
           NEW z, z = child(t, x, l), z \in R,
           NEW Q, Q = (R \ {y, z}) \union (IF y \in R THEN {x} ELSE {})
    PROVE  /\ \E k : Heights(u, Q, k, Nil)
           /\ Reds(u, Q, Nil) /\ u.parent[Nil] \notin Q
<1>1. PICK c : c = child(t, x, o)
  OBVIOUS
<1>2. /\ x # y /\ c # x /\ c # y /\ n # x /\ n # y /\ z # x /\ z # y /\ z # c
      /\ c # Nil /\ n # Nil /\ z # Nil /\ {x, y, c, n, z} \subseteq Nodes(t)
      /\ t.parent[x] = y /\ t.parent[n] = y /\ t.parent[c] = x /\ t.parent[z] = x
      /\ ~t.root[x] /\ \A s \in Side : s = l \/ s = o
      /\ child(u, y, l) = c /\ child(u, y, o) = n /\ child(u, x, o) = y /\ child(u, x, l) = z
      /\ Inner(u) = Inner(t) /\ Leaves(u) = Leaves(t)
  BY <1>1, TurnedFacts
<1>3. /\ u.parent[x] = t.parent[y] /\ u.parent[y] = x /\ u.parent[c] = y /\ u.root[x] = t.root[y]
      /\ u.parent[Nil] = IF t.root[y] THEN x ELSE t.parent[Nil]
      /\ \A m \in Nodes(t) \ {x, y, c} : u.parent[m] = t.parent[m]
      /\ \A m \in Nodes(t) \ {x, y} : u.root[m] = t.root[m]
  BY <1>1, TurnedFacts
<1>4. /\ t \in Tree /\ Linked(t) /\ R \subseteq Inner(t) /\ h \in [Node -> Nat]
      /\ Nodes(t) \subseteq Node \ {Nil} /\ Inner(t) \subseteq Nodes(t)
      /\ Inner(t) \intersect Leaves(t) = {} /\ \A m \in Leaves(t) : h[m] = 0 /\ m \in Node
  BY NodeKinds DEF Shaped, Heights
<1>5. h[y] \in Nat /\ h[n] \in Nat /\ h[y] = h[n] + 2
  BY HeightStep
<1>6. h[x] \in Nat /\ h[y] = h[x] + 1
  BY <1>2, HeightStep
<1>7. h[z] \in Nat /\ h[x] = h[z]
  BY <1>2, HeightStep
<1>8. /\ h[c] \in Nat /\ (c \in R => h[x] = h[c]) /\ (c \notin R => h[x] = h[c] + 1)
  BY <1>1, <1>2, HeightStep
<1>9. PICK k : k = [h EXCEPT ![y] = h[y] - 1, ![x] = h[y]]
  OBVIOUS
<1>10. /\ k \in [Node -> Nat] /\ k[y] = h[y] - 1 /\ k[x] = h[y]
       /\ \A m \in Node \ {x, y} : k[m] = h[m]
  BY <1>2, <1>4, <1>5, <1>9
<1>11. k[z] = h[z] /\ k[c] = h[c] /\ k[n] = h[n]
  BY <1>2, <1>4, <1>10
<1>12. /\ z \notin Q /\ y \notin Q /\ n \notin Q /\ (c \in Q <=> c \in R) /\ (x \in Q <=> y \in R)
       /\ \A m \in Nodes(t) \ {x, y, z} : m \in Q <=> m \in R
  BY <1>2
<1>13. ASSUME NEW m \in Inner(u), NEW d \in Side, NEW b, b = child(u, m, d)
       PROVE  k[m] = k[b] + (IF b \in Q THEN 0 ELSE 1) + (IF b = Nil THEN 1 ELSE 0)
  <2>1. CASE m = x
    <3>1. b = z \/ b = y
      BY <1>2, <1>13, <2>1
    <3>2. k[x] = k[z] + 1 /\ k[x] = k[y] + 1
      BY <1>5, <1>6, <1>7, <1>10, <1>11
    <3>3. y # Nil /\ k[z] \in Nat /\ k[y] \in Nat
      BY <1>2, <1>4, <1>10
    <3> QED
      BY <1>2, <1>12, <2>1, <3>1, <3>2, <3>3
  <2>2. CASE m = y
    <3>1. b = c \/ b = n
      BY <1>2, <1>13, <2>2
    <3>2. k[y] = k[n] + 1 /\ (c \in Q => k[y] = k[c]) /\ (c \notin Q => k[y] = k[c] + 1)
      BY <1>5, <1>6, <1>8, <1>10, <1>11, <1>12
    <3>3. k[n] \in Nat /\ k[c] \in Nat
      BY <1>2, <1>4, <1>10
    <3> QED
      BY <1>2, <1>12, <2>2, <3>1, <3>2, <3>3
  <2>3. CASE m # x /\ m # y
    <3>1. PICK a : a = child(t, m, d)
      OBVIOUS
    <3>2. a \in Nodes(t) /\ a # Nil /\ a \in Node /\ t.parent[a] = m /\ t.side[a] = d /\ ~t.root[a]
          /\ m \in Inner(t) /\ m \in Node
      BY <1>2, <1>4, <3>1, ChildFacts
    <3>3. a # x /\ a # n /\ a # z
      BY <1>2, <2>3, <3>2
    <3>4. h[a] \in Nat /\ (a \in R => h[m] = h[a]) /\ (a \notin R => h[m] = h[a] + 1) /\ k[m] = h[m]
      BY <1>10, <2>3, <3>1, <3>2, <3>3, HeightStep
    <3>5. b = IF ~t.root[y] /\ m = t.parent[y] /\ d = t.side[y] THEN x ELSE a
      BY <1>13, <2>3, <3>1, <3>2 DEF Turned
    <3>6. CASE a = y
      <4>1. b = x /\ b # Nil
        BY <1>2, <1>4, <3>2, <3>5, <3>6
      <4> QED
        BY <1>10, <1>12, <3>4, <3>6, <4>1
    <3>7. CASE a # y
      <4>1. b = a
        <5>1. HasPlace(t, y)
          BY <1>4 DEF Linked
        <5> QED
          BY <3>1, <3>5, <3>7, <5>1 DEF HasPlace
      <4>2. k[a] = h[a] /\ (a \in Q <=> a \in R)
        BY <1>10, <1>12, <3>2, <3>3, <3>7
      <4> QED
        BY <3>2, <3>4, <4>1, <4>2
    <3> QED
      BY <3>6, <3>7
  <2> QED
    BY <2>1, <2>2, <2>3
<1>14. \A m \in Leaves(t) : k[m] = 0
  BY <1>4, <1>10
<1>15. Q \subseteq Inner(t)
  BY <1>4
<1>16. Heights(u, Q, k, Nil)
  BY <1>2, <1>10, <1>13, <1>14, <1>15 DEF Heights
<1>17. ASSUME NEW m \in Q, ~u.root[m] PROVE u.parent[m] \notin Q
  <2>1. CASE m = x
    <3>1. y \in R /\ ~t.root[y] /\ y # Nil
      BY <1>3, <1>4, <1>12, <1>17, <2>1
    <3>2. t.parent[y] \notin R
      BY <3>1 DEF Reds
    <3>3. t.parent[y] # x
      BY ChildFacts
    <3> QED
      BY <1>3, <2>1, <3>2, <3>3
  <2>2. CASE m = c
    BY <1>3, <1>12, <2>2
  <2>3. CASE m # x /\ m # c
    <3>1. m \in R /\ m # y /\ m # z /\ m \in Nodes(t) /\ m # Nil
      BY <1>4, <1>12, <2>3
    <3>2. u.parent[m] = t.parent[m] /\ ~t.root[m]
      BY <1>3, <1>17, <2>3, <3>1
    <3>3. t.parent[m] \notin R
      BY <3>1, <3>2 DEF Reds
    <3>4. t.parent[m] # x
      <4>1. child(t, t.parent[m], t.side[m]) = m /\ t.side[m] \in Side
        BY <1>4, <3>1, <3>2, TreeFields DEF Linked, HasPlace
      <4> QED
        BY <1>1, <1>2, <2>3, <3>1, <4>1
    <3> QED
      BY <3>2, <3>3, <3>4
  <2> QED
    BY <2>1, <2>2, <2>3
<1>18. u.parent[Nil] \notin Q
  <2>1. CASE t.root[y]
    <3>1. y = t.parent[Nil]
      BY <1>4, <2>1 DEF Linked, HasPlace
    <3> QED
      BY <1>3, <1>12, <2>1, <3>1
  <2>2. CASE ~t.root[y]
    <3>1. t.root[t.parent[Nil]]
      BY <1>4 DEF Linked
    <3> QED
      BY <1>2, <1>3, <2>2, <3>1
  <2> QED
    BY <2>1, <2>2
<1> QED
  BY <1>16, <1>17, <1>18 DEF Reds

\* A red node and its two black children may swap their colours.
LEMMA FlipColours ==
    ASSUME NEW t, NEW pos, NEW lim, Shaped(t, pos, lim), NEW R, NEW h, Heights(t, R, h, Nil),
           Reds(t, R, Nil), t.parent[Nil] \notin R,
           NEW x \in R, NEW a \in Inner(t), NEW b \in Inner(t), NEW l \in Side,
           a = child(t, x, l), b = child(t, x, Other(l)),
           \A d \in Side : child(t, a, d) \notin R /\ child(t, b, d) \notin R,
           NEW Q, Q = (R \ {x}) \union {a, b}
    PROVE  /\ \E k : Heights(t, Q, k, Nil)
           /\ Reds(t, Q, Nil) /\ t.parent[Nil] \notin Q
<1>1. /\ t \in Tree /\ Linked(t) /\ R \subseteq Inner(t) /\ h \in [Node -> Nat]
      /\ Nodes(t) \subseteq Node \ {Nil} /\ Inner(t) \subseteq Nodes(t)
      /\ Inner(t) \intersect Leaves(t) = {} /\ \A m \in Leaves(t) : h[m] = 0 /\ m \in Node
  BY NodeKinds DEF Shaped, Heights
<1>2. Other(l) \in Side /\ x \in Inner(t) /\ \A d \in Side : d = l \/ d = Other(l)
  BY <1>1, Sides
<1>3. /\ a # Nil /\ a # x /\ t.parent[a] = x /\ ~t.root[a]
      /\ b # Nil /\ b # x /\ t.parent[b] = x /\ ~t.root[b]
  BY <1>2, ChildFacts
<1>4. a \notin R /\ b \notin R
  BY <1>3 DEF Reds
<1>5. h[x] \in Nat /\ h[a] \in Nat /\ h[b] \in Nat /\ h[x] = h[a] + 1 /\ h[x] = h[b] + 1
  BY <1>2, <1>3, <1>4, HeightStep
<1>6. PICK k : k = [h EXCEPT ![x] = h[a]]
  OBVIOUS
<1>7. k \in [Node -> Nat] /\ k[x] = h[a] /\ \A m \in Node \ {x} : k[m] = h[m]
  BY <1>1, <1>2, <1>5, <1>6
<1>8. ASSUME NEW m \in Inner(t), NEW d \in Side, NEW c, c = child(t, m, d)
      PROVE  k[m] = k[c] + (IF c \in Q THEN 0 ELSE 1) + (IF c = Nil THEN 1 ELSE 0)
  <2>1. c \in Node /\ t.parent[c] = m /\ c # m /\ m \in Node /\ c # Nil
    BY <1>1, <1>8, ChildFacts
  <2>2. /\ h[m] \in Nat /\ h[c] \in Nat
        /\ c \in R => h[m] = h[c]
        /\ c \notin R => h[m] = h[c] + 1
    BY <1>8, <2>1, HeightStep
  <2>3. CASE m = x
    <3>1. (c = a \/ c = b) /\ c \in Q
      BY <1>2, <1>8, <2>3
    <3>2. k[c] = h[c] /\ k[m] = h[c]
      BY <1>5, <1>7, <2>1, <2>3, <3>1
    <3> QED
      BY <2>1, <2>2, <3>1, <3>2
  <2>4. CASE m # x
    <3>1. c # a /\ c # b
      BY <1>3, <2>1, <2>4
    <3>2. k[m] = h[m]
      BY <1>7, <2>1, <2>4
    <3>3. CASE c = x
      <4>1. k[c] = h[c] - 1 /\ c \notin Q /\ h[m] = h[c]
        BY <1>3, <1>5, <1>7, <2>2, <3>3
      <4> QED
        BY <2>1, <2>2, <3>2, <4>1
    <3>4. CASE c # x
      <4>1. k[c] = h[c] /\ (c \in Q <=> c \in R)
        BY <1>7, <2>1, <3>1, <3>4
      <4> QED
        BY <2>1, <2>2, <3>2, <4>1
    <3> QED
      BY <3>3, <3>4
  <2> QED
    BY <2>3, <2>4
<1>9. \A m \in Leaves(t) : k[m] = 0
  BY <1>1, <1>2, <1>7
<1>10. Q \subseteq Inner(t)
  BY <1>1
<1>11. Heights(t, Q, k, Nil)
  BY <1>7, <1>8, <1>9, <1>10 DEF Heights
<1>12. ASSUME NEW m \in Q, ~t.root[m] PROVE t.parent[m] \notin Q
  <2>1. CASE m = a \/ m = b
    BY <1>3, <2>1
  <2>2. CASE m # a /\ m # b
    <3>1. m \in R /\ m \in Nodes(t) /\ m # Nil
      BY <1>1, <2>2
    <3>2. t.parent[m] \notin R
      BY <1>12, <3>1 DEF Reds
    <3>3. t.parent[m] # a /\ t.parent[m] # b
      <4>1. child(t, t.parent[m], t.side[m]) = m /\ t.side[m] \in Side
        BY <1>1, <1>12, <3>1, TreeFields DEF Linked, HasPlace
      <4> QED
        BY <3>1, <4>1
    <3> QED
      BY <3>2, <3>3
  <2> QED
    BY <2>1, <2>2
<1>13. t.parent[Nil] \notin Q
  <2>1. t.root[t.parent[Nil]]
    BY <1>1 DEF Linked
  <2> QED
    BY <1>3, <2>1
<1> QED
  BY <1>11, <1>12, <1>13 DEF Reds

\* u is a red-black tree again with the nodes and the list of t.
Mended(t, u, pos, lim) ==
    /\ Kept(t, u, pos, lim) /\ \E k : Heights(u, Red(u), k, Nil)
    /\ Reds(u, Red(u), Nil) /\ u.parent[Nil] \notin Red(u)

\* A tree is mended when the right nodes are painted red.
LEMMA PaintedMended ==
    ASSUME NEW t, NEW v, NEW w, NEW pos, NEW lim, Kept(t, v, pos, lim),
           NEW Q, \E k : Heights(v, Q, k, Nil), Reds(v, Q, Nil), v.parent[Nil] \notin Q,
           Repainted(v, w), Red(w) = Q
    PROVE  Mended(t, w, pos, lim)
<1>1. PICK lims : Shaped(v, pos, lims) /\ \A m \in Leaves(t) : lims[m] = lim[m]
  BY DEF Kept
<1>2. Kept(v, w, pos, lims)
  BY <1>1, RepaintedKept
<1>3. Arranged(t, v)
  BY DEF Kept
<1>4. Kept(t, w, pos, lim)
  BY <1>1, <1>2, <1>3, KeptTwice
<1>5. PICK k : Heights(v, Q, k, Nil)
  OBVIOUS
<1>6. Heights(w, Q, k, Nil) /\ Reds(w, Q, Nil)
  BY <1>5, RepaintedColours
<1>7. w.parent = v.parent
  BY DEF Repainted
<1> QED
  BY <1>4, <1>6, <1>7 DEF Mended

\* What a leaf or an inner node is in a tree with the same nodes.
LEMMA KeptNodes ==
    ASSUME NEW t, NEW u, NEW pos, NEW lim, Kept(t, u, pos, lim)
    PROVE  Inner(u) = Inner(t) /\ Leaves(u) = Leaves(t) /\ Nodes(u) = Nodes(t)
<1>1. Arranged(t, u)
  BY DEF Kept
<1> QED
  BY <1>1 DEF Arranged, SameList, Nodes

\* One rotation, with the outer child of the sibling red.
LEMMA OuterMends ==
    ASSUME NEW t, NEW pos, NEW lim, Shaped(t, pos, lim), NEW n, NEW h, Heights(t, Red(t), h, n),
           Reds(t, Red(t), Nil), t.parent[Nil] \notin Red(t), n \notin Red(t),
           NEW p, NEW s, NEW e, Siblings(t, n, p, s, e), s \notin Red(t),
           NEW z, z = child(t, s, Other(e)), z \in Red(t),
           NEW w, w = [single_rotate(t, p, Other(e)) EXCEPT
                          !.red[z] = FALSE, !.red[s] = t.red[p], !.red[p] = FALSE]
    PROVE  Mended(t, w, pos, lim)
<1>1. PICK o : o = Other(e)
  OBVIOUS
<1>2. t \in Tree /\ Linked(t) /\ Red(t) \subseteq Inner(t)
  BY DEF Shaped, Heights
<1>3. /\ p \in Inner(t) /\ e \in Side /\ o \in Side /\ child(t, p, e) = n /\ child(t, p, o) = s
      /\ s \in Inner(t) /\ Other(o) = e
  BY <1>1, <1>2, SiblingFacts, ShortSibling, Sides DEF Siblings
<1>4. s # p /\ p \in Nodes(t) /\ s \in Nodes(t) /\ z \in Nodes(t)
  BY <1>1, <1>2, <1>3, ChildFacts, NodeKinds
<1>5. PICK v : v = single_rotate(t, p, o)
  OBVIOUS
<1>6. v \in Tree /\ Turned(t, v, p, o, e) /\ Kept(t, v, pos, lim) /\ Red(v) = Red(t)
  BY <1>3, <1>5, RotateKept
<1>7. PICK Q : Q = (Red(t) \ {p, z}) \union (IF p \in Red(t) THEN {s} ELSE {})
  OBVIOUS
<1>8. (\E k : Heights(v, Q, k, Nil)) /\ Reds(v, Q, Nil) /\ v.parent[Nil] \notin Q
  BY <1>1, <1>3, <1>6, <1>7, RotateShort
<1>9. Nodes(v) = Nodes(t)
  BY <1>6, KeptNodes
<1>10. PICK a : a = [v EXCEPT !.red[z] = FALSE]
  OBVIOUS
<1>11. PICK b : b = [a EXCEPT !.red[s] = t.red[p]]
  OBVIOUS
<1>12. PICK c : c = [b EXCEPT !.red[p] = FALSE]
  OBVIOUS
<1>13. w = c
  BY <1>1, <1>5, <1>10, <1>11, <1>12
<1>14. Repainted(v, a) /\ Red(a) = Red(t) \ {z} /\ a \in Tree /\ Nodes(a) = Nodes(t)
  BY <1>4, <1>6, <1>9, <1>10, Blackened
<1>15. /\ Repainted(a, b) /\ b \in Tree /\ Nodes(b) = Nodes(t)
       /\ Red(b) = (Red(t) \ {z}) \union (IF p \in Red(t) THEN {s} ELSE {})
  <2>1. t.red[p] \in BOOLEAN /\ (p \in Red(t) <=> t.red[p])
    BY <1>2, <1>4, TreeFields, NodeKinds DEF Red
  <2>2. CASE p \in Red(t)
    <3>1. b = [a EXCEPT !.red[s] = TRUE]
      BY <1>11, <2>1, <2>2
    <3> QED
      BY <1>4, <1>14, <2>2, <3>1, Painted
  <2>3. CASE p \notin Red(t)
    <3>1. b = [a EXCEPT !.red[s] = FALSE]
      BY <1>11, <2>1, <2>3
    <3>2. Repainted(a, b) /\ b \in Tree /\ Nodes(b) = Nodes(t) /\ Red(b) = Red(a) \ {s}
      BY <1>4, <1>14, <3>1, Blackened
    <3> QED
      BY <1>14, <2>3, <3>2
  <2> QED
    BY <2>2, <2>3
<1>16. Repainted(b, c) /\ Red(c) = Q
  <2>1. Repainted(b, c) /\ Red(c) = Red(b) \ {p}
    BY <1>4, <1>12, <1>15, Blackened
  <2> QED
    BY <1>4, <1>7, <1>15, <2>1
<1>17. Repainted(v, c)
  BY <1>14, <1>15, <1>16 DEF Repainted
<1> QED
  BY <1>6, <1>8, <1>13, <1>16, <1>17, PaintedMended

\* Two rotations, with only the inner child of the sibling red.
LEMMA InnerMends ==
    ASSUME NEW t, NEW pos, NEW lim, Shaped(t, pos, lim), NEW n, NEW h, Heights(t, Red(t), h, n),
           Reds(t, Red(t), Nil), t.parent[Nil] \notin Red(t), n \notin Red(t),
           NEW p, NEW s, NEW e, Siblings(t, n, p, s, e), s \notin Red(t),
           NEW x, x = child(t, s, e), x \in Red(t), child(t, s, Other(e)) \notin Red(t),
           NEW w, w = [single_rotate(single_rotate(t, s, e), p, Other(e)) EXCEPT
                          !.red[x] = FALSE, !.red[s] = t.red[s] \/ t.red[p]]
    PROVE  Mended(t, w, pos, lim)
<1>1. PICK o, R, z : o = Other(e) /\ R = Red(t) /\ z = child(t, s, o)
  OBVIOUS
<1>2. t \in Tree /\ Linked(t) /\ R \subseteq Inner(t) /\ Inner(t) \subseteq Nodes(t)
      /\ Nodes(t) \subseteq Node \ {Nil}
  BY <1>1, NodeKinds DEF Shaped, Heights
<1>3. /\ p \in Inner(t) /\ e \in Side /\ o \in Side /\ child(t, p, e) = n /\ child(t, p, o) = s
      /\ s \in Inner(t) /\ Other(o) = e /\ o # e
      /\ t.parent[s] = p /\ ~t.root[s] /\ t.side[s] = o /\ n # s
  BY <1>1, <1>2, SiblingFacts, ShortSibling, Sides DEF Siblings
<1>4. /\ s # p /\ t.parent[p] # s /\ n # p /\ x \in Inner(t) /\ x # s /\ x # n
      /\ t.parent[x] = s /\ z # s /\ z # x /\ x # p /\ z \notin R /\ s \notin R
  <2>1. s # p /\ t.parent[p] # s /\ n # p
    BY <1>3, ChildFacts
  <2>2. x \in Inner(t) /\ x # s /\ x # n /\ t.parent[x] = s /\ z # s /\ t.parent[s] # x /\ t.side[x] = e
    BY <1>1, <1>2, <1>3, ChildFacts
  <2>3. t.side[z] = o
    BY <1>1, <1>3, ChildFacts
  <2> QED
    BY <1>1, <1>3, <2>1, <2>2, <2>3
<1>5. PICK v : v = single_rotate(t, s, e)
  OBVIOUS
<1>6. v \in Tree /\ Turned(t, v, s, e, o) /\ Kept(t, v, pos, lim) /\ Red(v) = R
  BY <1>1, <1>3, <1>4, <1>5, RotateKept
<1>7. PICK lims : Shaped(v, pos, lims) /\ \A m \in Leaves(t) : lims[m] = lim[m]
  BY <1>6 DEF Kept
<1>8. Inner(v) = Inner(t) /\ Nodes(v) = Nodes(t) /\ Arranged(t, v)
  BY <1>6, KeptNodes DEF Kept
<1>9. PICK P : P = (R \ {x}) \union {s}
  OBVIOUS
<1>10. Heights(v, P, h, n) /\ Reds(v, P, Nil)
  <2>1. /\ x \in R /\ x # n /\ s # n /\ s \in P /\ (x \in P <=> s \in R)
        /\ (\A m \in Node \ {x, s} : m \in P <=> m \in R) /\ P \subseteq Inner(t)
    BY <1>1, <1>2, <1>3, <1>4, <1>9
  <2>2. Heights(t, R, h, n) /\ Reds(t, R, Nil)
    BY <1>1
  <2>3. Heights(v, P, h, n)
    BY <1>1, <1>3, <1>4, <1>6, <2>1, <2>2, RotateHeights
  <2>4. Reds(v, P, Nil)
    BY <1>1, <1>2, <1>3, <1>4, <1>6, <1>9, <2>1, <2>2, RotateRedUp
  <2> QED
    BY <2>3, <2>4
<1>11. PICK c, b : c = child(t, x, o) /\ b = child(t, x, e)
  OBVIOUS
<1>12. /\ child(v, s, e) = c /\ child(v, s, o) = z /\ child(v, x, o) = s /\ child(v, x, e) = b
       /\ v.parent[Nil] = t.parent[Nil] /\ c # x /\ b # x
       /\ t.parent[c] = x /\ t.parent[b] = x /\ ~t.root[c] /\ ~t.root[b]
  BY <1>1, <1>3, <1>4, <1>6, <1>11, TurnedFacts
<1>13. c \notin R /\ b \notin R /\ c # Nil /\ b # Nil
  <2>1. c # Nil /\ b # Nil
    BY <1>3, <1>4, <1>11, ChildFacts
  <2> QED
    BY <1>1, <1>12, <2>1 DEF Reds
<1>14. child(v, p, o) = x /\ child(v, p, e) = n
  <2>1. p \in Node \ {x, s}
    BY <1>2, <1>3, <1>4
  <2>2. \A d \in Side : child(v, p, d) = IF ~t.root[s] /\ p = t.parent[s] /\ d = t.side[s] THEN x
                                         ELSE child(t, p, d)
    BY <1>4, <1>6, <2>1 DEF Turned
  <2> QED
    BY <1>3, <2>2
<1>15. v.parent[Nil] \notin P /\ n \notin P /\ x \notin P /\ s \in P /\ (p \in P <=> p \in R)
  <2>1. t.root[t.parent[Nil]]
    BY <1>2 DEF Linked
  <2> QED
    BY <1>1, <1>3, <1>4, <1>9, <1>12, <2>1
<1>16. PICK u : u = single_rotate(v, p, o)
  OBVIOUS
<1>17. u \in Tree /\ Turned(v, u, p, o, e) /\ Kept(v, u, pos, lims) /\ Red(u) = R
  <2>1. p \in Inner(v) /\ child(v, p, o) \in Inner(v) /\ e = Other(o)
    BY <1>3, <1>4, <1>8, <1>14
  <2> QED
    BY <1>3, <1>6, <1>7, <1>16, <2>1, RotateKept
<1>18. Kept(t, u, pos, lim) /\ Nodes(u) = Nodes(t) /\ Inner(u) = Inner(t)
  <2>1. Kept(t, u, pos, lim)
    BY <1>7, <1>8, <1>17, KeptTwice
  <2> QED
    BY <2>1, KeptNodes
<1>19. PICK Q : Q = (P \ {p, s}) \union (IF p \in P THEN {x} ELSE {})
  OBVIOUS
<1>20. (\E k : Heights(u, Q, k, Nil)) /\ Reds(u, Q, Nil) /\ u.parent[Nil] \notin Q
  <2>1. /\ p \in Inner(v) /\ x \in Inner(v) /\ e = Other(o) /\ x = child(v, p, o)
        /\ n = child(v, p, e) /\ s = child(v, x, o)
    BY <1>3, <1>4, <1>8, <1>12, <1>14
  <2> QED
    BY <1>3, <1>7, <1>10, <1>15, <1>17, <1>19, <2>1, RotateShort
<1>21. PICK a : a = [u EXCEPT !.red[x] = FALSE]
  OBVIOUS
<1>22. x \in Nodes(t) /\ s \in Nodes(t) /\ p \in Nodes(t) /\ x \in Node /\ s \in Node
  BY <1>2, <1>3, <1>4
<1>23. Repainted(u, a) /\ Red(a) = R \ {x} /\ a \in Tree /\ Nodes(a) = Nodes(t)
  BY <1>17, <1>18, <1>21, <1>22, Blackened
<1>24. t.red[p] \in BOOLEAN /\ (p \in R <=> t.red[p]) /\ ~t.red[s]
  BY <1>1, <1>2, <1>4, <1>22, TreeFields DEF Red
<1>25. PICK red : red = (t.red[s] \/ t.red[p])
  OBVIOUS
<1>26. PICK f : f = [a EXCEPT !.red[s] = red]
  OBVIOUS
<1>27. w = f
  <2>1. w = [u EXCEPT !.red[x] = FALSE, !.red[s] = red]
    BY <1>1, <1>5, <1>16, <1>25
  <2> QED
    BY <1>21, <1>26, <2>1
<1>28. CASE p \notin R
  <2>1. f = [a EXCEPT !.red[s] = FALSE]
    BY <1>24, <1>25, <1>26, <1>28
  <2>2. Repainted(a, f) /\ Red(f) = (R \ {x}) \ {s}
    BY <1>22, <1>23, <2>1, Blackened
  <2>3. Repainted(u, f) /\ Red(f) = Q
    <3>1. Repainted(u, f)
      BY <1>23, <2>2 DEF Repainted
    <3> QED
      BY <1>4, <1>9, <1>15, <1>19, <1>28, <2>2, <3>1
  <2> QED
    BY <1>18, <1>20, <1>27, <2>3, PaintedMended
<1>29. CASE p \in R
  <2>1. f = [a EXCEPT !.red[s] = TRUE]
    BY <1>24, <1>25, <1>26, <1>29
  <2>2. Repainted(a, f) /\ Red(f) = (R \ {x}) \union {s}
    BY <1>22, <1>23, <2>1, Painted
  <2>3. Repainted(u, f)
    BY <1>23, <2>2 DEF Repainted
  <2>4. PICK S : S = (Q \ {x}) \union {p, s}
    OBVIOUS
  <2>5. S = Red(f) /\ x \in Q /\ Q \subseteq R \union {x}
    BY <1>1, <1>4, <1>9, <1>15, <1>19, <1>29, <2>2, <2>4
  <2>6. /\ child(u, x, e) = p /\ child(u, x, o) = s /\ child(u, p, o) = b /\ child(u, p, e) = n
    <3>1. /\ p \in Inner(v) /\ x \in Inner(v) /\ e = Other(o) /\ x = child(v, p, o)
          /\ n = child(v, p, e) /\ s = child(v, x, o) /\ b = child(v, x, e)
      BY <1>3, <1>4, <1>8, <1>12, <1>14
    <3> QED
      BY <1>3, <1>7, <1>17, <3>1, TurnedFacts
  <2>7. child(u, s, e) = c /\ child(u, s, o) = z
    <3>1. v.parent[p] = t.parent[p]
      <4>1. p # c
        BY <1>1, <1>13, <1>29
      <4> QED
        BY <1>1, <1>3, <1>4, <1>6, <1>11, <1>22, <4>1, TurnedFacts
    <3>2. s \in Node \ {x, p} /\ s # v.parent[p]
      BY <1>4, <1>22, <3>1
    <3>3. \A d \in Side : child(u, s, d) = IF ~v.root[p] /\ s = v.parent[p] /\ d = v.side[p] THEN x
                                           ELSE child(v, s, d)
      BY <1>14, <1>17, <3>2 DEF Turned
    <3> QED
      BY <1>3, <1>12, <3>2, <3>3
  <2>8. \A d \in Side : child(u, p, d) \notin Q /\ child(u, s, d) \notin Q
    <3>1. b \notin Q /\ n \notin Q /\ c \notin Q /\ z \notin Q
      BY <1>1, <1>4, <1>12, <1>13, <2>5
    <3>2. \A d \in Side : d = e \/ d = o
      BY <1>1, <1>3, Sides
    <3> QED
      BY <2>6, <2>7, <3>1, <3>2
  <2>9. (\E k : Heights(u, S, k, Nil)) /\ Reds(u, S, Nil) /\ u.parent[Nil] \notin S
    <3>1. PICK lim2 : Shaped(u, pos, lim2)
      BY <1>17 DEF Kept
    <3>2. PICK k : Heights(u, Q, k, Nil)
      BY <1>20
    <3>3. p \in Inner(u) /\ s \in Inner(u) /\ o = Other(e)
      BY <1>1, <1>3, <1>18
    <3> QED
      BY SMTT(60), <1>3, <1>20, <2>4, <2>5, <2>6, <2>8, <3>1, <3>2, <3>3, FlipColours
  <2> QED
    BY <1>18, <1>27, <2>3, <2>5, <2>9, PaintedMended
<1> QED
  BY <1>28, <1>29

\* Cases 2.3: with a red parent, or a red child of the sibling.
LEMMA Rotate23Mends ==
    ASSUME NEW t, NEW pos, NEW lim, Shaped(t, pos, lim), NEW n, NEW h, Heights(t, Red(t), h, n),
           Reds(t, Red(t), Nil), t.parent[Nil] \notin Red(t), n \notin Red(t),
           NEW p, NEW s, NEW e, Siblings(t, n, p, s, e), s \notin Red(t),
           p \in Red(t) \/ \E d \in Side : child(t, s, d) \in Red(t)
    PROVE  Mended(t, Rotate23(t, n), pos, lim)
<1>1. PICK o, x, z, w : /\ o = Other(e) /\ x = child(t, s, e) /\ z = child(t, s, o)
                        /\ w = Rotate23(t, n)
  OBVIOUS
<1>2. t \in Tree /\ Linked(t) /\ Inner(t) \subseteq Nodes(t) /\ Red(t) \subseteq Inner(t)
  BY NodeKinds DEF Shaped, Heights
<1>3. /\ p \in Inner(t) /\ e \in Side /\ o \in Side /\ s \in Inner(t) /\ s # Nil
      /\ \A d \in Side : d = e \/ d = o
  BY <1>1, <1>2, SiblingFacts, ShortSibling
<1>4. x \in Nodes(t) /\ z \in Nodes(t) /\ s \in Nodes(t) /\ p \in Nodes(t)
  BY <1>1, <1>2, <1>3, ChildFacts
<1>5. /\ t.internal[s] /\ (t.red[z] <=> z \in Red(t)) /\ (t.red[x] <=> x \in Red(t))
      /\ (t.red[s] <=> s \in Red(t)) /\ (t.red[p] <=> p \in Red(t))
  BY <1>3, <1>4 DEF Red, Inner
<1>6. w = IF ~t.internal[s] THEN exit(t)
          ELSE IF t.red[z]
          THEN [single_rotate(t, p, o) EXCEPT !.red[z] = FALSE, !.red[s] = t.red[p], !.red[p] = FALSE]
          ELSE IF t.red[x]
          THEN [single_rotate(single_rotate(t, s, e), p, o)
                   EXCEPT !.red[x] = FALSE, !.red[s] = t.red[s] \/ t.red[p]]
          ELSE IF t.red[s] \/ ~t.red[p] THEN exit(t)
          ELSE Settled(t, p, s)
  BY <1>1 DEF Rotate23, Siblings
<1>7. CASE z \in Red(t)
  <2>1. /\ z = child(t, s, Other(e))
        /\ w = [single_rotate(t, p, Other(e)) EXCEPT
                   !.red[z] = FALSE, !.red[s] = t.red[p], !.red[p] = FALSE]
    BY <1>1, <1>5, <1>6, <1>7
  <2>2. Mended(t, w, pos, lim)
    BY <1>7, <2>1, OuterMends
  <2> QED
    BY <1>1, <2>2
<1>8. CASE z \notin Red(t) /\ x \in Red(t)
  <2>1. /\ child(t, s, Other(e)) \notin Red(t) /\ x = child(t, s, e)
        /\ w = [single_rotate(single_rotate(t, s, e), p, Other(e)) EXCEPT
                   !.red[x] = FALSE, !.red[s] = t.red[s] \/ t.red[p]]
    BY <1>1, <1>5, <1>6, <1>8
  <2>2. Mended(t, w, pos, lim)
    BY <1>8, <2>1, InnerMends
  <2> QED
    BY <1>1, <2>2
<1>9. CASE z \notin Red(t) /\ x \notin Red(t)
  <2>1. p \in Red(t) /\ \A d \in Side : child(t, s, d) \notin Red(t)
    BY <1>1, <1>3, <1>9
  <2>2. w = Settled(t, p, s)
    BY <1>5, <1>6, <1>9, <2>1
  <2>3. PICK a : a = [t EXCEPT !.red[p] = FALSE]
    OBVIOUS
  <2>4. PICK b : b = [a EXCEPT !.red[s] = TRUE]
    OBVIOUS
  <2>5. w = b
    BY <2>2, <2>3, <2>4 DEF Settled
  <2>6. Repainted(t, a) /\ Red(a) = Red(t) \ {p} /\ a \in Tree /\ Nodes(a) = Nodes(t)
    BY <1>2, <1>4, <2>3, Blackened
  <2>7. Repainted(a, b) /\ Red(b) = (Red(t) \ {p}) \union {s}
    BY <1>4, <2>4, <2>6, Painted
  <2>8. Repainted(t, t) /\ Repainted(t, b)
    BY <1>2, <2>6, <2>7 DEF Repainted
  <2>9. PICK Q : Q = (Red(t) \ {p}) \union {s}
    OBVIOUS
  <2>10. (\E k : Heights(t, Q, k, Nil)) /\ Reds(t, Q, Nil)
    BY <2>1, <2>9, SettleColours
  <2>11. t.parent[Nil] \notin Q
    <3>1. t.root[t.parent[Nil]] /\ ~t.root[s]
      BY <1>2, SiblingFacts DEF Linked
    <3> QED
      BY <2>9, <3>1
  <2>12. Kept(t, t, pos, lim)
    BY <2>8, RepaintedKept
  <2> QED
    BY <1>1, <2>5, <2>7, <2>8, <2>9, <2>10, <2>11, <2>12, PaintedMended
<1> QED
  BY <1>1, <1>7, <1>8, <1>9

\* Where the loop after a deletion may be: some nodes have become red, and only the node it
\* is at, a black one, is short.
Shorts(t) ==
    {at \in Place :
        /\ Repainted(t, at.tree) /\ at.node \in Nodes(t) /\ at.node \notin Red(at.tree)
        /\ \E h : Heights(t, Red(at.tree), h, at.node)
        /\ Reds(t, Red(at.tree), Nil) /\ t.parent[Nil] \notin Red(at.tree)}

\* A turn of the loop that reddens siblings goes up, and leaves one node short
\* (jrb.c:464-469).
LEMMA ReddensOn ==
    ASSUME NEW t, NEW pos, NEW lim, Shaped(t, pos, lim),
           NEW at \in Shorts(t), ~at.tree.root[at.node], AllBlack(at.tree, at.node)
    PROVE  /\ Reddened(at) \in Shorts(t)
           /\ Width(lim)[Reddened(at).node] > Width(lim)[at.node]
<1>1. PICK u, n, R : u = at.tree /\ n = at.node /\ R = Red(u)
  OBVIOUS
<1>2. /\ u \in Tree /\ n \in Node /\ Repainted(t, u) /\ n \in Nodes(t) /\ n \notin R
      /\ Reds(t, R, Nil) /\ t.parent[Nil] \notin R /\ ~u.root[n] /\ AllBlack(u, n)
  BY <1>1 DEF Shorts, Place
<1>3. PICK h : Heights(t, R, h, n)
  BY <1>1 DEF Shorts
<1>4. /\ u.parent = t.parent /\ u.root = t.root /\ u.side = t.side
      /\ u.flink = t.flink /\ u.blink = t.blink /\ u.internal = t.internal
      /\ Nodes(u) = Nodes(t) /\ Inner(u) = Inner(t) /\ \A a, d : child(u, a, d) = child(t, a, d)
  BY <1>2, RepaintedNodes DEF Repainted
<1>5. t \in Tree /\ Linked(t) /\ Inner(t) \subseteq Nodes(t) /\ Nodes(t) \subseteq Node \ {Nil}
  BY NodeKinds DEF Shaped
<1>6. PICK p, s, e : p = t.parent[n] /\ s = sibling(t, n) /\ e = t.side[n]
  OBVIOUS
<1>7. Siblings(t, n, p, s, e)
  BY <1>2, <1>4, <1>6 DEF Siblings
<1>8. sibling(u, n) = s /\ u.parent[n] = p
  BY <1>4, <1>6 DEF sibling
<1>9. p \in Inner(t) /\ s \in Inner(t) /\ child(t, p, e) = n /\ e \in Side /\ s # p /\ n # p /\ s # n
      /\ child(t, p, Other(e)) = s
  <2>1. p \in Inner(t) /\ child(t, p, e) = n /\ e \in Side /\ Other(e) \in Side /\ child(t, p, Other(e)) = s
        /\ s # n
    BY <1>5, <1>7, SiblingFacts
  <2>2. s \in Inner(t)
    BY <1>2, <1>3, <1>7, ShortSibling
  <2>3. s # p /\ n # p
    BY <2>1, ChildFacts
  <2> QED
    BY <2>1, <2>2, <2>3
<1>10. ~u.red[p] /\ ~u.red[s] /\ ~u.red[child(t, s, Left)] /\ ~u.red[child(t, s, Right)]
  BY <1>2, <1>4, <1>8, Sides DEF AllBlack, child
<1>11. p \notin R /\ s \notin R /\ \A d \in Side : child(t, s, d) \notin R
  BY <1>1, <1>10, Sides DEF Red
<1>12. PICK Q : Q = R \union {s}
  OBVIOUS
<1>13. (\E k : Heights(t, Q, k, p)) /\ Reds(t, Q, Nil)
  BY <1>2, <1>3, <1>7, <1>11, <1>12, ReddenColours
<1>14. PICK v : v = [u EXCEPT !.red[s] = TRUE]
  OBVIOUS
<1>15. Repainted(u, v) /\ Red(v) = Q /\ v \in Tree
  <2>1. s \in Nodes(u)
    BY <1>4, <1>5, <1>9
  <2> QED
    BY <1>1, <1>2, <1>12, <1>14, <2>1, Painted
<1>16. Repainted(t, v)
  BY <1>2, <1>15 DEF Repainted
<1>17. t.parent[Nil] \notin Q /\ p \notin Q
  <2>1. t.root[t.parent[Nil]] /\ ~t.root[s]
    BY <1>5, <1>7, SiblingFacts DEF Linked
  <2> QED
    BY <1>2, <1>9, <1>11, <1>12, <2>1
<1>18. PICK to : to = [tree |-> v, node |-> p]
  OBVIOUS
<1>19. to.tree = v /\ to.node = p /\ to \in Place
  BY <1>5, <1>9, <1>15, <1>18 DEF Place
<1>20. to = Reddened(at)
  BY <1>1, <1>8, <1>14, <1>18 DEF Reddened
<1>21. to \in Shorts(t)
  BY <1>5, <1>9, <1>13, <1>15, <1>16, <1>17, <1>19 DEF Shorts
<1>22. Width(lim)[p] > Width(lim)[n]
  <2>1. Ranked(t, Width(lim))
    BY WidthRanks
  <2>2. Width(lim)[n] < Width(lim)[p] /\ Width(lim)[n] \in Int /\ Width(lim)[p] \in Int
    BY <1>2, <1>5, <1>9, <2>1 DEF Ranked
  <2> QED
    BY <2>2
<1> QED
  BY <1>1, <1>19, <1>20, <1>21, <1>22

\* A short root shortens every way down.
LEMMA RootShort ==
    ASSUME NEW t \in Tree, Linked(t), NEW R, NEW h, NEW n, Heights(t, R, h, n), n \in Nodes(t), t.root[n]
    PROVE  Heights(t, R, h, Nil)
<1>1. \A m \in Inner(t) : \A d \in Side : child(t, m, d) # n /\ child(t, m, d) # Nil
  BY NodeKinds DEF Linked, IsChild
<1> QED
  BY <1>1 DEF Heights

\* Case 2.3b: a rotation gives a short node a red parent and a black sibling.
LEMMA RedParent ==
    ASSUME NEW t, NEW pos, NEW lim, Shaped(t, pos, lim), NEW n, NEW h, Heights(t, Red(t), h, n),
           Reds(t, Red(t), Nil), t.parent[Nil] \notin Red(t), n \notin Red(t),
           NEW p, NEW s, NEW e, Siblings(t, n, p, s, e), s \in Red(t), p \notin Red(t),
           NEW w, w = Raised(t, n)
    PROVE  /\ Kept(t, w, pos, lim) /\ Heights(w, Red(w), h, n) /\ Reds(w, Red(w), Nil)
           /\ w.parent[Nil] \notin Red(w) /\ n \notin Red(w)
           /\ Siblings(w, n, p, child(t, s, e), e)
           /\ p \in Red(w) /\ child(t, s, e) \notin Red(w)
<1>1. PICK o, R, c : o = Other(e) /\ R = Red(t) /\ c = child(t, s, e)
  OBVIOUS
<1>2. t \in Tree /\ Linked(t) /\ R \subseteq Inner(t) /\ Inner(t) \subseteq Nodes(t)
      /\ Nodes(t) \subseteq Node \ {Nil}
  BY <1>1, NodeKinds DEF Shaped, Heights
<1>3. /\ p \in Inner(t) /\ e \in Side /\ o \in Side /\ child(t, p, e) = n /\ child(t, p, o) = s
      /\ s \in Inner(t) /\ Other(o) = e /\ o # e /\ n \in Nodes(t)
      /\ t.parent[s] = p /\ ~t.root[s] /\ n # s /\ t.parent[n] = p /\ ~t.root[n] /\ t.side[n] = e
  BY <1>1, <1>2, SiblingFacts, Sides DEF Siblings
<1>4. s # p /\ n # p /\ s # Nil /\ n # Nil /\ p # Nil /\ c # s /\ t.parent[c] = s /\ c # Nil /\ ~t.root[c]
  BY <1>1, <1>2, <1>3, ChildFacts
<1>5. c \notin R
  BY <1>1, <1>4 DEF Reds
<1>6. PICK v : v = single_rotate(t, p, o)
  OBVIOUS
<1>7. v \in Tree /\ Turned(t, v, p, o, e) /\ Kept(t, v, pos, lim) /\ Red(v) = R
  BY <1>1, <1>3, <1>6, RotateKept
<1>8. PICK lims : Shaped(v, pos, lims) /\ \A m \in Leaves(t) : lims[m] = lim[m]
  BY <1>7 DEF Kept
<1>9. Inner(v) = Inner(t) /\ Nodes(v) = Nodes(t) /\ Arranged(t, v)
  BY <1>7, KeptNodes DEF Kept
<1>10. PICK Q : Q = (R \ {s}) \union {p}
  OBVIOUS
<1>11. Heights(v, Q, h, n) /\ Reds(v, Q, Nil)
  <2>1. /\ s \in R /\ s # n /\ p # n /\ p \in Q /\ (s \in Q <=> p \in R)
        /\ (\A m \in Node \ {s, p} : m \in Q <=> m \in R) /\ Q \subseteq Inner(t)
        /\ s = child(t, p, o) /\ e = Other(o) /\ child(t, p, e) \notin R
    BY <1>1, <1>2, <1>3, <1>4, <1>10
  <2>2. Heights(t, R, h, n) /\ Reds(t, R, Nil)
    BY <1>1
  <2>3. Heights(v, Q, h, n)
    BY <1>3, <1>7, <2>1, <2>2, RotateHeights
  <2>4. Reds(v, Q, Nil)
    BY <1>1, <1>2, <1>3, <1>7, <1>10, <2>1, <2>2, RotateRedUp
  <2> QED
    BY <2>3, <2>4
<1>12. /\ v.parent[Nil] = IF t.root[p] THEN s ELSE t.parent[Nil]
       /\ child(v, p, o) = c /\ child(v, p, e) = n /\ n # c
       /\ v.parent[n] = p /\ v.side[n] = e /\ ~v.root[n]
  <2>1. s = child(t, p, o) /\ e = Other(o) /\ n = child(t, p, e) /\ c = child(t, s, e)
    BY <1>1, <1>3
  <2>2. /\ v.parent[Nil] = IF t.root[p] THEN s ELSE t.parent[Nil]
        /\ child(v, p, o) = c /\ child(v, p, e) = n /\ n # s /\ n # p
        /\ \A m \in Nodes(t) \ {s, p, c} : v.parent[m] = t.parent[m] /\ v.side[m] = t.side[m]
        /\ \A m \in Nodes(t) \ {s, p} : v.root[m] = t.root[m]
    BY <1>3, <1>7, <2>1, TurnedFacts
  <2>3. n # c
    BY <1>3, <1>4
  <2> QED
    BY <1>3, <2>2, <2>3
<1>13. v.parent[Nil] \notin Q
  <2>1. CASE t.root[p]
    BY <1>4, <1>10, <1>12, <2>1
  <2>2. CASE ~t.root[p]
    <3>1. t.root[t.parent[Nil]]
      BY <1>2 DEF Linked
    <3> QED
      BY <1>1, <1>10, <1>12, <2>2, <3>1
  <2> QED
    BY <2>1, <2>2
<1>14. n \notin Q /\ p \in Q /\ c \notin Q
  <2>1. c # p
    BY <1>3, <1>4, ChildFacts
  <2> QED
    BY <1>1, <1>4, <1>5, <1>10, <2>1
<1>15. PICK a : a = [v EXCEPT !.red[p] = TRUE]
  OBVIOUS
<1>16. PICK b : b = [a EXCEPT !.red[s] = FALSE]
  OBVIOUS
<1>17. w = b
  BY <1>1, <1>6, <1>15, <1>16 DEF Raised, Siblings
<1>18. p \in Nodes(v) /\ s \in Nodes(v)
  BY <1>2, <1>3, <1>9
<1>19. Repainted(v, a) /\ Red(a) = R \union {p} /\ a \in Tree /\ Nodes(a) = Nodes(v)
  BY <1>7, <1>15, <1>18, Painted
<1>20. Repainted(a, b) /\ Red(b) = (R \union {p}) \ {s}
  BY <1>16, <1>18, <1>19, Blackened
<1>21. Red(b) = Q
  BY <1>4, <1>10, <1>20
<1>22. Repainted(v, b)
  BY <1>19, <1>20 DEF Repainted
<1>23. Kept(t, b, pos, lim)
  <2>1. Kept(v, b, pos, lims)
    BY <1>8, <1>22, RepaintedKept
  <2> QED
    BY <1>8, <1>9, <2>1, KeptTwice
<1>24. Heights(b, Q, h, n) /\ Reds(b, Q, Nil)
  BY <1>11, <1>22, RepaintedColours
<1>25. b.parent = v.parent /\ b.side = v.side /\ b.root = v.root /\ \A m, d : child(b, m, d) = child(v, m, d)
  BY <1>22, RepaintedNodes DEF Repainted
<1>26. Siblings(b, n, p, c, e)
  <2>1. n \in Nodes(b)
    BY <1>3, <1>23, KeptNodes
  <2>2. sibling(b, n) = c
    BY <1>1, <1>12, <1>25 DEF sibling
  <2> QED
    BY <1>12, <1>25, <2>1, <2>2 DEF Siblings
<1> QED
  BY <1>1, <1>13, <1>14, <1>17, <1>21, <1>23, <1>24, <1>25, <1>26

\* When one node is a black node short, the repair of a deletion makes up for it, and
\* calls no tree wrong (jrb.c:457-515).
THEOREM ShortenedMends ==
    ASSUME NEW t, NEW pos, NEW lim, Shaped(t, pos, lim), NEW n \in Nodes(t), n \notin Red(t),
           NEW h, Heights(t, Red(t), h, n), Reds(t, Red(t), Nil), t.parent[Nil] \notin Red(t)
    PROVE  Mended(t, Shortened(t, n), pos, lim)
<1>1. t \in Tree /\ Linked(t) /\ Ranked(t, Width(lim)) /\ n \in Node /\ Repainted(t, t)
  BY WidthRanks, NodeKinds DEF Shaped, Repainted
<1> DEFINE f == [at \in Place |-> IF ~at.tree.root[at.node] /\ AllBlack(at.tree, at.node)
                                 THEN Reddened(at) ELSE at]
           start == [tree |-> t, node |-> n]
<1>2. start \in Shorts(t)
  <2>1. start \in Place /\ start.tree = t /\ start.node = n
    BY <1>1 DEF Place
  <2> HIDE DEF start
  <2> QED
    BY <1>1, <2>1 DEF Shorts
<1>3. \A at \in Shorts(t) :
         /\ at \in Place /\ at.node \in Node
         /\ f[at] = IF ~at.tree.root[at.node] /\ AllBlack(at.tree, at.node)
                    THEN Reddened(at) ELSE at
  BY DEF Shorts, Place
<1> DEFINE v == [at \in Shorts(t) |-> at.node]
<1>4. /\ \A at \in Shorts(t) : f[at] \in Shorts(t) /\ v[at] = at.node
      /\ \A at \in Shorts(t) : f[at] # at => Width(lim)[v[f[at]]] > Width(lim)[v[at]]
      /\ v \in [Shorts(t) -> Node]
  <2> HIDE DEF f
  <2>1. ASSUME NEW at \in Shorts(t)
        PROVE  f[at] \in Shorts(t)
               /\ (f[at] # at => Width(lim)[f[at].node] > Width(lim)[at.node])
    <3>1. CASE ~at.tree.root[at.node] /\ AllBlack(at.tree, at.node)
      BY <1>3, <3>1, ReddensOn
    <3>2. CASE ~(~at.tree.root[at.node] /\ AllBlack(at.tree, at.node))
      BY <1>3, <3>2
    <3> QED
      BY <3>1, <3>2
  <2> QED
    BY <1>3, <2>1
<1>5. PICK at \in Shorts(t) : at = Loop(f, start) /\ f[at] = at
  <2>1. IsFiniteSet(Node) /\ Cardinality(Node) <= Cardinality(Node) /\ Width(lim) \in [Node -> Int]
    <3>1. Cardinality(Node) \in Nat
      BY NodeAssumption, FS_CardinalityType
    <3> QED
      BY <1>1, <3>1, NodeAssumption DEF Ranked
  <2> HIDE DEF f, start, v
  <2> QED
    BY <1>2, <1>4, <2>1, LoopEnds
<1>6. at.tree.root[at.node] \/ ~AllBlack(at.tree, at.node)
  <2> SUFFICES ASSUME ~at.tree.root[at.node], AllBlack(at.tree, at.node) PROVE FALSE
    BY SMTT(60)
  <2>1. Width(lim)[Reddened(at).node] > Width(lim)[at.node] /\ Reddened(at) = at
    BY <1>3, <1>5, ReddensOn
  <2>2. Width(lim)[at.node] \in Int
    BY <1>1, <1>3 DEF Ranked
  <2> QED
    BY <2>1, <2>2
<1>7. PICK u, m : u = at.tree /\ m = at.node
  OBVIOUS
<1>8. PICK p, s, e, R : p = u.parent[m] /\ s = sibling(u, m) /\ e = u.side[m] /\ R = Red(u)
  OBVIOUS
<1>9. Shortened(t, n) =
         IF u.root[m] THEN u
         ELSE Rotate23(IF ~u.red[p] /\ u.red[s] THEN Raised(u, m) ELSE u, m)
  BY <1>5, <1>7, <1>8 DEF Shortened
<1> HIDE DEF f, start, v
<1>10. /\ Repainted(t, u) /\ m \in Nodes(t) /\ m \notin R /\ Reds(t, R, Nil) /\ t.parent[Nil] \notin R
  BY <1>7, <1>8 DEF Shorts
<1>11. PICK k : Heights(t, R, k, m)
  BY <1>5, <1>7, <1>8 DEF Shorts
<1>12. /\ Shaped(u, pos, lim) /\ u \in Tree /\ Linked(u) /\ Kept(t, u, pos, lim)
       /\ Nodes(u) = Nodes(t) /\ u.parent = t.parent /\ Arranged(t, u)
  BY <1>10, RepaintedKept, RepaintedShaped, RepaintedNodes DEF Repainted, Shaped, Kept
<1>13. Heights(u, R, k, m) /\ Reds(u, R, Nil)
  BY <1>10, <1>11, RepaintedColours
<1>14. CASE u.root[m]
  <2>1. Heights(u, R, k, Nil)
    BY <1>10, <1>12, <1>13, <1>14, RootShort
  <2>2. Mended(t, u, pos, lim)
    BY <1>8, <1>10, <1>12, <1>13, <2>1 DEF Mended
  <2> QED
    BY <1>9, <1>14, <2>2
<1>15. CASE ~u.root[m]
  <2>1. Siblings(u, m, p, s, e)
    BY <1>8, <1>10, <1>12, <1>15 DEF Siblings
  <2>2. /\ p \in Inner(u) /\ s \in Inner(u) /\ s \in Nodes(u) /\ p \in Nodes(u)
    <3>1. p \in Inner(u) /\ s \in Nodes(u)
      BY <1>12, <2>1, SiblingFacts
    <3>2. s \in Inner(u)
      BY <1>10, <1>12, <1>13, <2>1, ShortSibling
    <3> QED
      BY <1>12, <3>1, <3>2, NodeKinds
  <2>3. (p \in R <=> u.red[p]) /\ (s \in R <=> u.red[s])
    BY <1>8, <2>2 DEF Red
  <2>4. CASE p \notin R /\ s \in R
    <3>1. PICK w : w = Raised(u, m)
      OBVIOUS
    <3>2. PICK c : c = child(u, s, e)
      OBVIOUS
    <3>3. /\ Kept(u, w, pos, lim) /\ Heights(w, Red(w), k, m) /\ Reds(w, Red(w), Nil)
          /\ w.parent[Nil] \notin Red(w) /\ m \notin Red(w)
          /\ Siblings(w, m, p, c, e) /\ p \in Red(w) /\ c \notin Red(w)
      <4>1. /\ Heights(u, Red(u), k, m) /\ Reds(u, Red(u), Nil) /\ u.parent[Nil] \notin Red(u)
            /\ m \notin Red(u) /\ s \in Red(u) /\ p \notin Red(u)
        BY <1>8, <1>10, <1>12, <1>13, <2>4
      <4> QED
        BY <1>12, <2>1, <3>1, <3>2, <4>1, RedParent
    <3>4. PICK lims : Shaped(w, pos, lims) /\ \A a \in Leaves(u) : lims[a] = lim[a]
      BY <3>3 DEF Kept
    <3>5. PICK x : x = Rotate23(w, m)
      OBVIOUS
    <3>6. Mended(w, x, pos, lims)
      BY <3>3, <3>4, <3>5, Rotate23Mends
    <3>7. Kept(t, x, pos, lim)
      <4>1. Kept(w, x, pos, lims)
        BY <3>6 DEF Mended
      <4>2. Arranged(u, w)
        BY <3>3 DEF Kept
      <4>3. Kept(u, x, pos, lim)
        BY <3>4, <4>1, <4>2, KeptTwice
      <4> QED
        BY <1>12, <4>3, KeptTwice
    <3>8. Mended(t, x, pos, lim)
      BY <3>6, <3>7 DEF Mended
    <3>9. Shortened(t, n) = x
      BY <1>9, <1>15, <2>3, <2>4, <3>1, <3>5
    <3> QED
      BY <3>8, <3>9
  <2>5. CASE ~(p \notin R /\ s \in R)
    <3>1. s \notin R
      <4> SUFFICES ASSUME s \in R PROVE FALSE
        OBVIOUS
      <4>1. u.parent[s] = p /\ ~u.root[s] /\ s # Nil
        BY <1>12, <2>1, SiblingFacts
      <4> QED
        BY <1>13, <2>5, <4>1 DEF Reds
    <3>2. p \in R \/ \E d \in Side : child(u, s, d) \in R
      <4> SUFFICES ASSUME p \notin R PROVE \E d \in Side : child(u, s, d) \in R
        OBVIOUS
      <4>1. ~u.red[p] /\ ~u.red[s] /\ u.internal[s]
        BY SMTT(60), <2>2, <2>3, <3>1 DEF Inner
      <4>2. u.red[child(u, s, Left)] \/ u.red[child(u, s, Right)]
        BY <1>6, <1>7, <1>8, <1>15, <4>1, Sides DEF AllBlack, child
      <4>3. Left \in Side /\ Right \in Side
        BY Sides
      <4>4. child(u, s, Left) \in Nodes(u) /\ child(u, s, Right) \in Nodes(u)
        BY <1>12, <2>2, <4>3, ChildFacts
      <4> QED
        BY <1>8, <4>2, <4>3, <4>4 DEF Red
    <3>3. PICK x : x = Rotate23(u, m)
      OBVIOUS
    <3>4. Mended(u, x, pos, lim)
      BY <1>8, <1>10, <1>12, <1>13, <2>1, <3>1, <3>2, <3>3, Rotate23Mends
    <3>5. Kept(t, x, pos, lim)
      <4>1. Kept(u, x, pos, lim)
        BY <3>4 DEF Mended
      <4> QED
        BY <1>12, <4>1, KeptTwice
    <3>6. Mended(t, x, pos, lim)
      BY <3>4, <3>5 DEF Mended
    <3>7. Shortened(t, n) = x
      BY <1>9, <1>15, <2>3, <2>5, <3>3
    <3> QED
      BY <3>6, <3>7
  <2> QED
    BY <2>4, <2>5
<1> QED
  BY <1>14, <1>15

-----------------------------------------------------------------------------
(* Deletion as a whole *)

\* The children of an inner node do not change when a leaf leaves the list.
LEMMA RemovedChild ==
    ASSUME NEW t, NEW pos, NEW lim, Shaped(t, pos, lim), NEW n \in Leaves(t),
           NEW v, v = delete_item(t, n), NEW m \in Inner(t), NEW d \in Side
    PROVE  child(v, m, d) = child(t, m, d)
<1>1. /\ t \in Tree /\ Listed(t, pos) /\ Inner(t) \subseteq Node \ {Nil}
      /\ Leaves(t) \subseteq Node \ {Nil} /\ Inner(t) \intersect Leaves(t) = {}
  BY NodeKinds DEF Shaped
<1>2. Other(d) \in Side /\ Other(Other(d)) = d
  BY Sides
<1>3. beside(t, n, d) \in Leaves(t) \union {Nil}
  BY <1>1 DEF Listed
<1>4. m # beside(t, n, d) /\ m \in Node
  BY <1>1, <1>3
<1>5. Removed(t, v, n)
  BY <1>1, RemovedFacts
<1>6. beside(v, m, Other(d)) = beside(t, m, Other(d))
  BY <1>2, <1>4, <1>5 DEF Removed
<1> QED
  BY <1>2, <1>6 DEF beside

\* The trees between t and the end of a deletion: v without n in the list, g without n and
\* its parent, and j with what the neighbours remember.
Shrinks(t, n, p, s, v, g, lo, hi, j) ==
    /\ v = delete_item(t, n)
    /\ g = free(IF t.root[p] THEN Plant(v, s) ELSE Hang(v, t.parent[p], t.side[p], s), {n, p})
    /\ lo = IF t.internal[s] THEN child(t, s, Left) ELSE s
    /\ hi = IF t.internal[s] THEN child(t, s, Right) ELSE s
    /\ j = setlext(setrext(g, lprev(g, s), lo), rprev(g, s), hi)

\* The cases of a deletion (jrb.c:438-455).
LEMMA DeleteForm ==
    ASSUME NEW t, NEW pos, NEW lim, Shaped(t, pos, lim),
           NEW n, NEW p, NEW s, NEW e, Cut(t, n, p, s, e),
           NEW v, NEW g, NEW lo, NEW hi, NEW j, Shrinks(t, n, p, s, v, g, lo, hi, j)
    PROVE  jrb_delete_node(t, n) =
              IF t.root[p] THEN g
              ELSE IF t.internal[s] /\ ~t.red[s] THEN exit(v)
              ELSE IF t.internal[s] THEN Fixed(j, s)
              ELSE IF t.red[p] THEN j
              ELSE Shortened(j, s)
<1>1. /\ p \in Inner(t) /\ e \in Side /\ Other(e) \in Side /\ n \in Leaves(t)
      /\ s = child(t, p, Other(e)) /\ s \in Nodes(t) /\ t \in Tree /\ n \in Node
      /\ Left \in Side /\ Right \in Side /\ ~t.root[n] /\ p = t.parent[n] /\ e = t.side[n]
  BY CutFacts, Sides, NodeKinds DEF Cut, Shaped
<1>2. v = delete_item(t, n)
  BY DEF Shrinks
<1>3. Removed(t, v, n)
  BY <1>1, <1>2, RemovedFacts
<1>4. /\ v.parent = t.parent /\ v.side = t.side /\ v.root = t.root
      /\ v.internal = t.internal /\ v.red = t.red
  BY <1>3 DEF Removed, SameRest
<1>5. sibling(v, n) = s
  <2>1. child(v, p, Other(e)) = child(t, p, Other(e))
    BY <1>1, <1>2, RemovedChild
  <2> QED
    BY <1>1, <1>4, <2>1 DEF sibling
<1>6. /\ lo = IF v.internal[s] THEN v.flink[s] ELSE s
      /\ hi = IF v.internal[s] THEN v.blink[s] ELSE s
  <2>1. CASE s \in Inner(t)
    <3>1. child(v, s, Left) = child(t, s, Left) /\ child(v, s, Right) = child(t, s, Right)
      BY <1>1, <1>2, <2>1, RemovedChild
    <3> QED
      BY <1>4, <3>1, Sides DEF Shrinks, child
  <2>2. CASE s \notin Inner(t)
    <3>1. ~t.internal[s]
      BY <1>1, <2>2 DEF Inner, Nodes
    <3> QED
      BY <1>4, <3>1 DEF Shrinks
  <2> QED
    BY <2>1, <2>2
<1>7. j = setlext(setrext(g, lprev(g, s), lo), rprev(g, s), hi)
  BY DEF Shrinks
<1>8. CASE t.root[p]
  <2>1. g = free(Plant(v, s), {n, p})
    BY SMTT(60), <1>8 DEF Shrinks
  <2> QED
    BY <1>1, <1>2, <1>4, <1>5, <1>8, <2>1 DEF jrb_delete_node
<1>9. CASE ~t.root[p]
  <2>1. g = free(Hang(v, t.parent[p], t.side[p], s), {n, p})
    BY <1>9 DEF Shrinks
  <2> QED
    BY ZenonT(60), <1>1, <1>2, <1>4, <1>5, <1>6, <1>7, <1>9, <2>1 DEF jrb_delete_node
<1> QED
  BY <1>8, <1>9

\* A mended tree is a red-black tree when the tree before had all but its colours.
LEMMA MendedRest ==
    ASSUME NEW t, NEW u, NEW pos, NEW lim, Known(t, pos, lim), Sorted(t, pos),
           Mended(t, u, pos, lim)
    PROVE  \E lims : RedBlack(u, pos, lims)
<1>1. /\ Kept(t, u, pos, lim) /\ \E k : Heights(u, Red(u), k, Nil)
      /\ Reds(u, Red(u), Nil) /\ u.parent[Nil] \notin Red(u)
  BY DEF Mended
<1>2. PICK lims : Shaped(u, pos, lims) /\ Known(u, pos, lims) /\ Sorted(u, pos)
  BY <1>1, KeptRest
<1>3. RedBlack(u, pos, lims)
  BY <1>1, <1>2 DEF RedBlack
<1> QED
  BY <1>3

\* No set of nodes has only parents that are in it and above.
LEMMA ClimbEnds ==
    ASSUME NEW t \in Tree, NEW S, S \subseteq Node, NEW rank \in [Node -> Int],
           \A m \in S : t.parent[m] \in S /\ rank[t.parent[m]] > rank[m]
    PROVE  S = {}
<1> SUFFICES ASSUME NEW x \in S PROVE FALSE
  OBVIOUS
<1> DEFINE f == [m \in Node |-> t.parent[m]]
           w == [m \in S |-> m]
<1>1. Cardinality(Node) \in Nat /\ IsFiniteSet(Node)
  BY NodeAssumption, FS_CardinalityType
<1>2. \A m \in S : f[m] = t.parent[m] /\ w[m] = m /\ m \in Node
  OBVIOUS
<1>3. w \in [S -> Node] /\ Cardinality(Node) <= Cardinality(Node)
  BY <1>1
<1>4. /\ \A m \in S : f[m] \in S
      /\ \A m \in S : f[m] # m => rank[w[f[m]]] > rank[w[m]]
  BY <1>2
<1> HIDE DEF f, w
<1>5. PICK z \in S : f[z] = z
  <2>1. Loop(f, x) \in S /\ f[Loop(f, x)] = Loop(f, x)
    BY <1>1, <1>3, <1>4, LoopEnds
  <2> QED
    BY <2>1
<1>6. t.parent[z] = z /\ rank[t.parent[z]] > rank[z] /\ rank[z] \in Int
  BY <1>2, <1>5
<1> QED
  BY <1>6

\* A deletion below the root leaves the sibling as the root.
LEMMA DeleteAtRoot ==
    ASSUME NEW t, NEW pos, NEW lim, RedBlack(t, pos, lim),
           NEW n, NEW p, NEW s, NEW e, Cut(t, n, p, s, e), t.root[p],
           NEW u, Spliced(t, u, n, p, s)
    PROVE  \E L : RedBlack(u, pos, L)
<1>1. PICK h, R : Heights(t, R, h, Nil) /\ R = Red(t) /\ Reds(t, R, Nil)
  BY DEF RedBlack
<1>2. /\ Shaped(t, pos, lim) /\ Known(t, pos, lim) /\ Sorted(t, pos) /\ t \in Tree
      /\ Linked(t) /\ Spans(t, pos, lim) /\ Listed(t, pos)
      /\ pos \in [Node -> Int] /\ lim \in [Node -> [Side -> Int]]
      /\ Inner(t) \subseteq Nodes(t) /\ Nodes(t) \subseteq Node \ {Nil}
      /\ Inner(t) \intersect Leaves(t) = {} /\ R \subseteq Inner(t)
  <2>1. Shaped(t, pos, lim) /\ Known(t, pos, lim) /\ Sorted(t, pos)
    BY DEF RedBlack
  <2>2. t \in Tree /\ Linked(t) /\ Spans(t, pos, lim) /\ Listed(t, pos)
    BY <2>1 DEF Shaped
  <2>3. pos \in [Node -> Int] /\ lim \in [Node -> [Side -> Int]] /\ R \subseteq Inner(t)
    BY <1>1, <2>2 DEF Spans, Listed, Heights
  <2> QED
    BY <2>1, <2>2, <2>3, NodeKinds
<1>3. /\ p \in Inner(t) /\ e \in Side /\ Other(e) \in Side /\ n \in Leaves(t)
      /\ child(t, p, e) = n /\ child(t, p, Other(e)) = s /\ s # p /\ s # n /\ s \in Nodes(t)
      /\ \A d \in Side : d = e \/ d = Other(e)
  BY <1>2, CutFacts, Sides DEF Cut
<1>4. t.parent[Nil] = p /\ u.parent[Nil] = s
  BY <1>2, <1>3 DEF Linked, HasPlace, Spliced
<1>5. PICK L : Joined(lim, L, pos[p], lim[p][e], e)
  BY <1>2, <1>3, JoinedExists
<1>6. Shaped(u, pos, L)
  BY <1>2, <1>5, SplicedShaped
<1>7. /\ Leaves(u) = Leaves(t) \ {n} /\ Inner(u) = Inner(t) \ {p}
      /\ Nodes(u) = Nodes(t) \ {n, p} /\ Red(u) = R \ {n, p}
  BY <1>1, <1>3, SplicedNodes
<1>8. Known(u, pos, L)
  <2> SUFFICES ASSUME NEW m \in Inner(u), NEW d \in Side PROVE Knows(u, pos, L, m, d)
    BY DEF Known, Knows
  <2>1. Knows(u, pos, L, m, d) \/ (d = Other(e) /\ pos[m] = lim[p][e])
    BY <1>2, <1>5, SplicedKnown
  <2>2. /\ m \in Nodes(t) /\ m \in Node /\ p \in Node
        /\ Beyond(e, lim[m][e], pos[m]) /\ ~Beyond(e, lim[m][e], lim[p][e])
    BY <1>2, <1>3, <1>4, <1>7 DEF Spans
  <2> QED
    BY <2>1, <2>2
<1>9. Sorted(u, pos)
  BY <1>2, <1>7 DEF Sorted, Spliced
<1>10. Heights(u, Red(u), h, Nil)
  BY <1>1, <1>2, <1>7, SplicedHeights
<1>11. Reds(u, Red(u), Nil)
  BY <1>1, <1>2, <1>7, SplicedReds
<1>12. ASSUME s \in Red(u) PROVE Inner(u) \subseteq {s}
  <2>1. s \in R /\ s \in Inner(t)
    BY <1>2, <1>7, <1>12
  <2>2. \A d \in Side : child(t, s, d) \in Leaves(t)
    BY <1>1, <1>2, <2>1, LowSibling
  <2> DEFINE S == Inner(t) \ {p, s}
  <2> SUFFICES ASSUME NEW x \in S PROVE FALSE
    BY <1>7
  <2>3. Ranked(t, Width(lim)) /\ Width(lim) \in [Node -> Int]
    BY <1>2, WidthRanks DEF Ranked
  <2>4. ASSUME NEW m \in S
        PROVE  t.parent[m] \in S /\ Width(lim)[t.parent[m]] > Width(lim)[m]
    <3>1. m \in Inner(t) /\ m \in Node /\ m # p /\ m # s /\ HasPlace(t, m) /\ m \notin Leaves(t)
      BY <1>2 DEF Linked
    <3>2. ~t.root[m]
      BY <1>4, <3>1 DEF HasPlace
    <3>3. PICK q, d : q = t.parent[m] /\ d = t.side[m]
      OBVIOUS
    <3>4. q \in Inner(t) /\ child(t, q, d) = m /\ d \in Side
      BY <1>2, <3>1, <3>2, <3>3, TreeFields DEF HasPlace
    <3>5. q # s /\ q # p
      BY <1>3, <2>2, <3>1, <3>4
    <3>6. Width(lim)[m] < Width(lim)[q] /\ q \in Node
      BY <1>2, <2>3, <3>4 DEF Ranked
    <3>7. Width(lim)[m] \in Int /\ Width(lim)[q] \in Int
      BY <2>3, <3>1, <3>6
    <3> QED
      BY <3>3, <3>4, <3>5, <3>6, <3>7
  <2>5. S = {}
    BY <1>2, <2>3, <2>4, ClimbEnds
  <2> QED
    BY <2>5
<1>13. RedBlack(u, pos, L)
  <2>1. \E k : Heights(u, Red(u), k, Nil)
    BY <1>10
  <2> QED
    BY <1>4, <1>6, <1>8, <1>9, <1>11, <1>12, <2>1 DEF RedBlack
<1> QED
  BY <1>13

\* A tree keeps what it is when nothing changes.
LEMMA KeptItself ==
    ASSUME NEW t, NEW pos, NEW lim, Shaped(t, pos, lim)
    PROVE  Kept(t, t, pos, lim)
  BY DEF Kept, Arranged, SameList

\* u has the nodes of t but for the leaf n and the inner node p.
Smaller(t, u, n, p) ==
    /\ p \in Inner(t) /\ u.used = t.used \ {n, p} /\ u.exited = t.exited /\ u.key = t.key
    /\ Leaves(u) = Leaves(t) \ {n} /\ Inner(u) = Inner(t) \ {p}

\* Below another inner node, the parent is replaced by the sibling, which is recoloured or
\* short.
LEMMA DeleteBelow ==
    ASSUME NEW t, NEW pos, NEW lim, RedBlack(t, pos, lim),
           NEW n, NEW p, NEW s, NEW e, Cut(t, n, p, s, e), ~t.root[p],
           NEW v, NEW g, NEW lo, NEW hi, NEW j, Shrinks(t, n, p, s, v, g, lo, hi, j),
           Spliced(t, g, n, p, s)
    PROVE  /\ ~(t.internal[s] /\ ~t.red[s])
           /\ \E L : Known(j, pos, L) /\ Sorted(j, pos) /\ Reminded(g, j)
                     /\ Mended(j, IF t.internal[s] THEN Fixed(j, s)
                                  ELSE IF t.red[p] THEN j ELSE Shortened(j, s), pos, L)
<1>1. PICK h, R : Heights(t, R, h, Nil) /\ R = Red(t) /\ Reds(t, R, Nil)
  BY DEF RedBlack
<1>2. /\ Shaped(t, pos, lim) /\ Known(t, pos, lim) /\ Sorted(t, pos) /\ t \in Tree
      /\ Linked(t) /\ Spans(t, pos, lim) /\ Listed(t, pos)
      /\ pos \in [Node -> Int] /\ lim \in [Node -> [Side -> Int]] /\ R \subseteq Inner(t)
      /\ Inner(t) \subseteq Nodes(t) /\ Nodes(t) \subseteq Node \ {Nil}
      /\ Nodes(t) = Inner(t) \union Leaves(t)
      /\ Inner(t) \intersect Leaves(t) = {}
  <2>1. Shaped(t, pos, lim) /\ Known(t, pos, lim) /\ Sorted(t, pos)
    BY DEF RedBlack
  <2>2. t \in Tree /\ Linked(t) /\ Spans(t, pos, lim) /\ Listed(t, pos)
    BY <2>1 DEF Shaped
  <2>3. pos \in [Node -> Int] /\ lim \in [Node -> [Side -> Int]] /\ R \subseteq Inner(t)
    BY <1>1, <2>2 DEF Spans, Listed, Heights
  <2> QED
    BY <2>1, <2>2, <2>3, NodeKinds
<1>3. /\ p \in Inner(t) /\ e \in Side /\ Other(e) \in Side /\ n \in Leaves(t)
      /\ child(t, p, e) = n /\ child(t, p, Other(e)) = s /\ s # p /\ s # n /\ s \in Nodes(t)
      /\ t.parent[s] = p /\ Left \in Side /\ Right \in Side
  BY <1>2, CutFacts, Sides DEF Cut
<1>4. PICK gp : gp = t.parent[p]
  OBVIOUS
<1>5. /\ gp \in Inner(t) /\ gp # p /\ gp # s /\ t.side[p] \in Side /\ child(t, gp, t.side[p]) = p
  <2>1. gp \in Inner(t) /\ t.side[p] \in Side /\ child(t, gp, t.side[p]) = p
    BY <1>2, <1>3, <1>4, TreeFields DEF Linked, HasPlace
  <2>2. gp # p
    BY <1>2, <2>1, ChildFacts
  <2>3. gp # s
    BY <1>2, <1>3, <1>4, ChildFacts
  <2> QED
    BY <2>1, <2>2, <2>3
<1>6. t.parent[Nil] \notin R /\ g.parent[Nil] = t.parent[Nil] /\ t.parent[Nil] \in Nodes(t)
  <2>1. t.parent[Nil] \notin R
    BY <1>1, <1>3, <1>5 DEF RedBlack
  <2> QED
    BY <1>2, <2>1 DEF Spliced, Linked
<1>7. PICK L : Joined(lim, L, pos[p], lim[p][e], e)
  BY <1>2, <1>3, JoinedExists
<1>8. Shaped(g, pos, L) /\ \A d \in Side : L[s][d] = lim[p][d]
  BY <1>2, <1>7, SplicedShaped
<1>9. /\ Leaves(g) = Leaves(t) \ {n} /\ Inner(g) = Inner(t) \ {p}
      /\ Nodes(g) = Nodes(t) \ {n, p} /\ Red(g) = R \ {n, p}
  BY <1>1, <1>3, SplicedNodes
<1>10. /\ h[p] = 1
       /\ \/ s \in Leaves(t) /\ s \notin R /\ h[s] = 0
          \/ /\ s \in R /\ s \in Inner(t) /\ h[s] = 1 /\ p \notin R
             /\ \A d \in Side : child(t, s, d) \in Leaves(t)
  BY <1>1, <1>2, LowSibling
<1>11. /\ s \in Leaves(t) => ~t.internal[s]
       /\ s \in Inner(t) => t.internal[s]
       /\ s \in R => t.red[s]
       /\ p \in R <=> t.red[p]
  BY <1>1, <1>2, <1>3 DEF Leaves, Inner, Red
<1>12. ~(t.internal[s] /\ ~t.red[s])
  BY <1>10, <1>11
<1>13. /\ lo \in Leaves(g) /\ hi \in Leaves(g)
       /\ L[lo][Left] = L[s][Left] /\ L[hi][Right] = L[s][Right]
  <2>1. CASE s \in Leaves(t)
    <3>1. lo = s /\ hi = s
      BY <1>11, <2>1 DEF Shrinks
    <3> QED
      BY <1>3, <1>9, <2>1, <3>1
  <2>2. CASE s \in Inner(t) /\ \A d \in Side : child(t, s, d) \in Leaves(t)
    <3>1. lo = child(t, s, Left) /\ hi = child(t, s, Right)
      BY <1>11, <2>2 DEF Shrinks
    <3>2. ASSUME NEW d \in Side
          PROVE  child(t, s, d) \in Leaves(g) /\ L[child(t, s, d)][d] = L[s][d]
      <4>1. t.parent[child(t, s, d)] = s /\ t.parent[n] = p
        BY <1>2, <2>2, ChildFacts DEF Cut
      <4>2. child(t, s, d) # n
        BY <1>3, <4>1
      <4>3. child(g, s, d) = child(t, s, d)
        BY <1>3, <1>4, <1>5, <2>2 DEF Spliced
      <4>4. s \in Inner(g)
        BY <1>3, <1>9, <2>2
      <4>5. L[child(g, s, d)][d] = L[s][d]
        BY <1>8, <4>4 DEF Shaped, Spans
      <4> QED
        BY <1>9, <2>2, <4>2, <4>3, <4>5
    <3> QED
      BY <1>3, <3>1, <3>2
  <2> QED
    BY <1>10, <2>1, <2>2
<1>14. Reminded(g, j) /\ Known(j, pos, L)
  <2>1. s \in Nodes(g) /\ j = setlext(setrext(g, lprev(g, s), lo), rprev(g, s), hi)
    BY <1>3, <1>9 DEF Shrinks
  <2>2. \A m \in Inner(g) : \A d \in Side :
           Knows(g, pos, L, m, d) \/ (d = Other(e) /\ pos[m] = L[s][e])
    <3>1. \A m \in Inner(g) : \A d \in Side :
             Knows(g, pos, L, m, d) \/ (d = Other(e) /\ pos[m] = lim[p][e])
      BY <1>2, <1>7, SplicedKnown
    <3>2. L[s][e] = lim[p][e]
      BY <1>3, <1>8
    <3> QED
      BY <3>1, <3>2
  <2> QED
    BY <1>3, <1>8, <1>13, <2>1, <2>2, Reconnects
<1>15. /\ Inner(j) = Inner(g) /\ Leaves(j) = Leaves(g) /\ Nodes(j) = Nodes(g) /\ Red(j) = Red(g)
       /\ Shaped(j, pos, L)
       /\ \A Q, k, short : Heights(g, Q, k, short) => Heights(j, Q, k, short)
       /\ \A Q, m : Reds(g, Q, m) => Reds(j, Q, m)
       /\ Sorted(g, pos) => Sorted(j, pos)
  BY <1>8, <1>14, RemindedSame
<1>16. Sorted(j, pos) /\ j.parent[Nil] = t.parent[Nil] /\ j \in Tree
  <2>1. Sorted(g, pos)
    BY <1>2, <1>9 DEF Sorted, Spliced
  <2> QED
    BY <1>6, <1>14, <1>15, <2>1 DEF Reminded
<1>17. Kept(j, j, pos, L)
  BY <1>15, KeptItself
<1>18. ASSUME NEW Q, Q \subseteq R \ {n, p}, NEW short \in {s, Nil},
              \A m \in Nodes(g) \ {s} : m \in Q <=> m \in R, s \notin Q,
              h[p] + (IF p \in R THEN 0 ELSE 1) = h[s] + 1 + (IF s = short THEN 1 ELSE 0)
       PROVE  Heights(j, Q, h, short) /\ Reds(j, Q, Nil) /\ j.parent[Nil] \notin Q
  <2>1. Q \subseteq Inner(g)
    BY <1>2, <1>9, <1>18
  <2>2. h[p] + (IF p \in R THEN 0 ELSE 1)
           = h[s] + (IF s \in Q THEN 0 ELSE 1) + (IF s = short THEN 1 ELSE 0)
    BY <1>18
  <2>3. Heights(g, Q, h, short)
    BY <1>1, <1>2, <1>18, <2>1, <2>2, SplicedHeights
  <2>4. Reds(g, Q, Nil)
    <3>1. R \subseteq Nodes(t)
      BY <1>2
    <3> QED
      BY <1>1, <1>2, <1>18, <3>1, SplicedReds
  <2> QED
    BY <1>6, <1>15, <1>16, <1>18, <2>3, <2>4
<1>19. s # Nil /\ s \in Nodes(j) /\ s \in Node
  BY <1>2, <1>3, <1>9, <1>15
<1>20. CASE s \in R /\ s \in Inner(t) /\ h[s] = 1 /\ p \notin R
  <2>1. PICK u, Q : u = Fixed(j, s) /\ Q = R \ {n, p, s}
    OBVIOUS
  <2>2. Repainted(j, u) /\ u.red = [j.red EXCEPT ![s] = FALSE]
    BY <1>16, <1>19, <2>1 DEF Fixed, Tree, Repainted
  <2>3. Red(u) = Q
    <3>1. Nodes(u) = Nodes(j) /\ j.red \in [Node -> BOOLEAN] /\ Nodes(j) \subseteq Node
      BY <1>16, <2>2, RepaintedNodes, TreeFields, NodeKinds
    <3>2. Red(u) = Red(j) \ {s}
      BY <1>19, <2>2, <3>1 DEF Red
    <3> QED
      BY <1>9, <1>15, <2>1, <3>2
  <2>4. Heights(j, Q, h, Nil) /\ Reds(j, Q, Nil) /\ j.parent[Nil] \notin Q
    <3>1. \A m \in Nodes(g) \ {s} : m \in Q <=> m \in R
      BY <1>9, <2>1
    <3>2. h[p] + (IF p \in R THEN 0 ELSE 1) = h[s] + 1 + (IF s = Nil THEN 1 ELSE 0)
      BY <1>10, <1>19, <1>20
    <3>3. Q \subseteq R \ {n, p} /\ s \notin Q
      BY <2>1
    <3> QED
      BY <1>18, <3>1, <3>2, <3>3
  <2>5. Mended(j, u, pos, L)
    <3>1. \E k : Heights(j, Q, k, Nil)
      BY <2>4
    <3> QED
      BY <1>17, <2>2, <2>3, <2>4, <3>1, PaintedMended
  <2> QED
    BY <1>11, <1>12, <1>14, <1>16, <1>20, <2>1, <2>5
<1>21. CASE s \in Leaves(t) /\ s \notin R /\ h[s] = 0
  <2>1. ~t.internal[s] /\ s \notin Red(j) /\ Red(j) = R \ {n, p}
    BY <1>9, <1>11, <1>15, <1>21
  <2>2. \A m \in Nodes(g) \ {s} : m \in Red(j) <=> m \in R
    BY <1>9, <2>1
  <2>3. CASE p \in R
    <3>1. h[p] + (IF p \in R THEN 0 ELSE 1) = h[s] + 1 + (IF s = Nil THEN 1 ELSE 0)
      BY <1>10, <1>19, <1>21, <2>3
    <3>2. Heights(j, Red(j), h, Nil) /\ Reds(j, Red(j), Nil) /\ j.parent[Nil] \notin Red(j)
      BY <1>18, <2>1, <2>2, <3>1
    <3>3. Mended(j, j, pos, L)
      BY <1>17, <3>2 DEF Mended
    <3> QED
      BY <1>11, <1>12, <1>14, <1>16, <2>1, <2>3, <3>3
  <2>4. CASE p \notin R
    <3>1. h[p] + (IF p \in R THEN 0 ELSE 1) = h[s] + 1 + (IF s = s THEN 1 ELSE 0)
      BY <1>10, <1>21, <2>4
    <3>2. Heights(j, Red(j), h, s) /\ Reds(j, Red(j), Nil) /\ j.parent[Nil] \notin Red(j)
      BY <1>18, <2>1, <2>2, <3>1
    <3>3. Mended(j, Shortened(j, s), pos, L)
      BY <1>15, <1>19, <2>1, <3>2, ShortenedMends
    <3> QED
      BY <1>11, <1>12, <1>14, <1>16, <2>1, <2>4, <3>3
  <2> QED
    BY <2>3, <2>4
<1> QED
  BY <1>10, <1>20, <1>21

\* The deletion of a leaf that is not the only one keeps a red-black tree, with the other
\* leaves in their order, and prints no error.
THEOREM DeleteKeeps ==
    ASSUME NEW t, NEW pos, NEW lim, RedBlack(t, pos, lim), NEW n \in Leaves(t), ~t.root[n],
           NEW u, u = jrb_delete_node(t, n)
    PROVE  \E p, L : Smaller(t, u, n, p) /\ RedBlack(u, pos, L)
<1>1. PICK p, e : p = t.parent[n] /\ e = t.side[n]
  OBVIOUS
<1>2. PICK s : s = child(t, p, Other(e))
  OBVIOUS
<1>3. Cut(t, n, p, s, e) /\ Shaped(t, pos, lim)
  BY <1>1, <1>2 DEF Cut, RedBlack
<1>4. PICK v : v = delete_item(t, n)
  OBVIOUS
<1>5. PICK g : g = free(IF t.root[p] THEN Plant(v, s) ELSE Hang(v, t.parent[p], t.side[p], s), {n, p})
  OBVIOUS
<1>6. PICK lo, hi : /\ lo = IF t.internal[s] THEN child(t, s, Left) ELSE s
                    /\ hi = IF t.internal[s] THEN child(t, s, Right) ELSE s
  OBVIOUS
<1>7. PICK j : j = setlext(setrext(g, lprev(g, s), lo), rprev(g, s), hi)
  OBVIOUS
<1>8. Shrinks(t, n, p, s, v, g, lo, hi, j) /\ Spliced(t, g, n, p, s)
  BY <1>3, <1>4, <1>5, <1>6, <1>7, SplicedFacts DEF Shrinks
<1>9. u = IF t.root[p] THEN g
          ELSE IF t.internal[s] /\ ~t.red[s] THEN exit(v)
          ELSE IF t.internal[s] THEN Fixed(j, s)
          ELSE IF t.red[p] THEN j
          ELSE Shortened(j, s)
  BY <1>3, <1>8, DeleteForm
<1>10. Smaller(t, g, n, p)
  <2>1. p \in Inner(t)
    BY <1>3, CutFacts
  <2>2. Leaves(g) = Leaves(t) \ {n} /\ Inner(g) = Inner(t) \ {p}
    BY <1>8, <2>1, SplicedNodes
  <2> QED
    BY <1>8, <2>1, <2>2 DEF Smaller, Spliced
<1>11. CASE t.root[p]
  <2>1. u = g
    BY <1>9, <1>11
  <2>2. \E L : RedBlack(g, pos, L)
    BY <1>3, <1>8, <1>11, DeleteAtRoot
  <2> QED
    BY <1>10, <2>1, <2>2
<1>12. CASE ~t.root[p]
  <2>1. PICK L : /\ ~(t.internal[s] /\ ~t.red[s])
                 /\ Known(j, pos, L) /\ Sorted(j, pos) /\ Reminded(g, j)
                 /\ Mended(j, IF t.internal[s] THEN Fixed(j, s)
                              ELSE IF t.red[p] THEN j ELSE Shortened(j, s), pos, L)
    BY <1>3, <1>8, <1>12, DeleteBelow
  <2>2. u = IF t.internal[s] THEN Fixed(j, s) ELSE IF t.red[p] THEN j ELSE Shortened(j, s)
    BY <1>9, <1>12, <2>1
  <2>3. Mended(j, u, pos, L)
    BY <2>1, <2>2
  <2>4. \E lims : RedBlack(u, pos, lims)
    BY <2>1, <2>3, MendedRest
  <2>5. Smaller(t, u, n, p)
    <3>1. Arranged(j, u)
      BY <2>3 DEF Mended, Kept
    <3>2. /\ u.used = j.used /\ u.exited = j.exited /\ u.key = j.key
          /\ Leaves(u) = Leaves(j) /\ Inner(u) = Inner(j)
      BY <3>1 DEF Arranged, SameList
    <3>3. /\ j.used = g.used /\ j.exited = g.exited /\ j.key = g.key
          /\ Leaves(j) = Leaves(g) /\ Inner(j) = Inner(g)
      BY <2>1, RemindedSame DEF Reminded
    <3> QED
      BY <1>10, <3>2, <3>3 DEF Smaller
  <2> QED
    BY <2>4, <2>5
<1> QED
  BY <1>11, <1>12

-----------------------------------------------------------------------------
(* The last leaf, and the end of the tree *)

\* A leaf without a parent is the only node.
LEMMA OnlyLeaf ==
    ASSUME NEW t, NEW pos, NEW lim, Shaped(t, pos, lim), NEW n \in Leaves(t), t.root[n]
    PROVE  Nodes(t) = {n} /\ t.parent[n] = Nil /\ \A d \in Side : beside(t, n, d) = Nil
<1>1. /\ t \in Tree /\ Linked(t) /\ Ranked(t, Width(lim)) /\ Nodes(t) \subseteq Node \ {Nil}
      /\ Inner(t) \subseteq Nodes(t) /\ Leaves(t) \subseteq Nodes(t)
      /\ Inner(t) \intersect Leaves(t) = {}
  BY WidthRanks, NodeKinds DEF Shaped
<1>2. t.parent[Nil] = n /\ t.parent[n] = Nil
  BY <1>1 DEF Linked, HasPlace
<1> DEFINE S == Nodes(t) \ {n}
<1>3. ASSUME NEW m \in S
      PROVE  t.parent[m] \in S /\ Width(lim)[t.parent[m]] > Width(lim)[m]
  <2>1. HasPlace(t, m) /\ m \in Node /\ m # n
    BY <1>1 DEF Linked
  <2>2. ~t.root[m]
    BY <1>2, <2>1 DEF HasPlace
  <2>3. PICK q, d : q = t.parent[m] /\ d = t.side[m]
    OBVIOUS
  <2>4. q \in Inner(t) /\ child(t, q, d) = m /\ d \in Side
    BY <1>1, <2>1, <2>2, <2>3, TreeFields DEF HasPlace
  <2>5. Width(lim)[m] < Width(lim)[q] /\ q \in Node
    BY <1>1, <2>4 DEF Ranked
  <2>6. Width(lim)[m] \in Int /\ Width(lim)[q] \in Int
    BY <1>1, <2>1, <2>5 DEF Ranked
  <2> QED
    BY <1>1, <2>3, <2>4, <2>5, <2>6
<1>4. S = {}
  <2>1. S \subseteq Node /\ Width(lim) \in [Node -> Int]
    BY <1>1 DEF Ranked
  <2> HIDE DEF S
  <2> QED
    BY <1>1, <1>3, <2>1, ClimbEnds
<1>5. Nodes(t) = {n}
  BY <1>1, <1>4
<1>6. ASSUME NEW d \in Side PROVE beside(t, n, d) = Nil
  <2>1. beside(t, n, d) \in Leaves(t) \union {Nil}
    BY DEF Shaped, Listed
  <2>2. beside(t, n, d) = n => Beyond(d, pos[n], pos[n]) /\ pos[n] \in Int
    BY <1>1 DEF Shaped, Listed
  <2>3. ~(Beyond(d, pos[n], pos[n]) /\ pos[n] \in Int)
    BY BeyondOrder
  <2> QED
    BY <1>1, <1>5, <2>1, <2>2, <2>3
<1> QED
  BY <1>2, <1>5, <1>6

\* Without its only leaf the tree is bare.
THEOREM DeleteLast ==
    ASSUME NEW t, NEW pos, NEW lim, Shaped(t, pos, lim), NEW n \in Leaves(t), t.root[n],
           NEW u, u = jrb_delete_node(t, n)
    PROVE  Bare(u) /\ u.exited = t.exited /\ Leaves(t) = {n} /\ Inner(t) = {}
<1>1. /\ t \in Tree /\ Linked(t) /\ n \in Node /\ n # Nil /\ Nil \in Node
      /\ Nodes(t) = {n} /\ t.parent[n] = Nil /\ \A d \in Side : beside(t, n, d) = Nil
      /\ Leaves(t) = {n} /\ Inner(t) = {}
  <2>1. t \in Tree /\ Linked(t) /\ Nodes(t) = {n} /\ t.parent[n] = Nil
        /\ \A d \in Side : beside(t, n, d) = Nil
    BY OnlyLeaf DEF Shaped
  <2> QED
    BY <2>1, NodeKinds, NodeAssumption
<1>2. \A d \in Side : beside(t, Nil, d) = n
  <2>1. ASSUME NEW d \in Side PROVE beside(t, Nil, d) = n
    <3>1. beside(t, Nil, d) \in {n, Nil} /\ beside(t, beside(t, n, Other(d)), d) = n
      BY <1>1, Sides DEF Shaped, Listed
    <3> QED
      BY <1>1, <3>1, Sides
  <2> QED
    BY <2>1
<1>3. PICK v : v = delete_item(t, n)
  OBVIOUS
<1>4. /\ v \in Tree /\ SameRest(t, v) /\ v.parent = t.parent /\ v.root = t.root
      /\ \A d \in Side : beside(v, Nil, d) = Nil
  <2>1. Removed(t, v, n)
    BY <1>1, <1>3, RemovedFacts
  <2> QED
    BY <1>1, <1>2, <2>1, Sides DEF Removed
<1>5. PICK w : w = [v EXCEPT !.parent[Nil] = Nil]
  OBVIOUS
<1>6. /\ w \in Tree /\ w.used = v.used /\ w.exited = v.exited /\ w.parent[Nil] = Nil
      /\ w.flink = v.flink /\ w.blink = v.blink
  BY <1>1, <1>4, <1>5 DEF Tree
<1>7. u = free(w, {n})
  BY <1>1, <1>3, <1>4, <1>5 DEF jrb_delete_node
<1>8. Freed(w, u, {n})
  BY <1>6, <1>7, FreedFacts
<1>9. /\ u \in Tree /\ u.used = t.used \ {n} /\ u.exited = t.exited /\ u.parent[Nil] = Nil
      /\ u.flink = v.flink /\ u.blink = v.blink
  BY <1>4, <1>6, <1>8 DEF Freed, SameRest
<1>10. u.flink[Nil] = Nil /\ u.blink[Nil] = Nil
  BY <1>4, <1>9, Sides DEF beside, child, Other
<1>11. u.used = {Nil}
  BY <1>1, <1>9 DEF Nodes, Linked
<1> QED
  BY <1>1, <1>9, <1>10, <1>11 DEF Bare

\* The tree of a list that is not being changed.
Healthy(t) == Bare(t) \/ \E pos, lim : RedBlack(t, pos, lim)

\* The first leaf of the list, when there is one.
LEMMA FirstLeaf ==
    ASSUME NEW t, Healthy(t)
    PROVE  /\ t \in Tree
           /\ Bare(t) => Leaves(t) = {} /\ t.flink[Nil] = Nil
           /\ ~Bare(t) => t.flink[Nil] \in Leaves(t) /\ \E pos, lim : RedBlack(t, pos, lim)
<1>1. CASE Bare(t)
  BY <1>1 DEF Bare, Leaves
<1>2. CASE ~Bare(t)
  <2>1. PICK pos, lim : RedBlack(t, pos, lim)
    BY <1>2 DEF Healthy
  <2>2. Shaped(t, pos, lim)
    BY <2>1 DEF RedBlack
  <2>3. PICK e : e = below(t, t.parent[Nil], Left)
    OBVIOUS
  <2>4. e \in Leaves(t) /\ beside(t, Nil, Other(Left)) = e
    BY <2>2, <2>3, Sides, EndFacts
  <2> QED
    BY <1>2, <2>1, <2>2, <2>4, Sides DEF beside, child, Shaped
<1> QED
  BY <1>1, <1>2

\* Each turn of jrb_free_tree deletes a leaf.
LEMMA DeleteFirst ==
    ASSUME NEW t, Healthy(t), ~Bare(t), NEW u, u = jrb_delete_node(t, t.flink[Nil])
    PROVE  /\ Healthy(u) /\ u.exited = t.exited
           /\ Leaves(u) = Leaves(t) \ {t.flink[Nil]} /\ t.flink[Nil] \in Leaves(t)
<1>1. PICK n, pos, lim : n = t.flink[Nil] /\ n \in Leaves(t) /\ RedBlack(t, pos, lim)
  BY FirstLeaf
<1>2. CASE t.root[n]
  <2>1. Bare(u) /\ u.exited = t.exited /\ Leaves(t) = {n}
    BY <1>1, <1>2, DeleteLast DEF RedBlack
  <2> QED
    BY <1>1, <2>1 DEF Healthy, Bare, Leaves
<1>3. CASE ~t.root[n]
  <2>1. PICK p, L : Smaller(t, u, n, p) /\ RedBlack(u, pos, L)
    BY <1>1, <1>3, DeleteKeeps
  <2> QED
    BY <1>1, <2>1 DEF Healthy, Smaller
<1> QED
  BY <1>2, <1>3

\* Freeing a tree leaves no node behind, and prints no error.
THEOREM FreeTree ==
    ASSUME NEW t, Healthy(t), ~t.exited, NEW u, u = jrb_free_tree(t)
    PROVE  u \in Tree /\ u.used = {} /\ ~u.exited
<1> DEFINE f == [a \in Tree |-> IF a.exited \/ a.flink[Nil] = Nil THEN a
                                ELSE jrb_delete_node(a, a.flink[Nil])]
           S == {a \in Tree : Healthy(a) /\ ~a.exited}
           V == 0 .. Cardinality(Node) - 1
           v == [a \in S |-> Cardinality(Leaves(a))]
           rank == [c \in V |-> -c]
<1>1. t \in S
  BY FirstLeaf
<1>2. /\ Cardinality(Node) \in Nat /\ IsFiniteSet(Node) /\ IsFiniteSet(V)
      /\ Cardinality(V) <= Cardinality(Node)
  <2>1. Cardinality(Node) \in Nat /\ IsFiniteSet(Node)
    BY NodeAssumption, FS_CardinalityType
  <2>2. Cardinality(Node) # 0
    BY NodeAssumption, FS_EmptySet
  <2>3. 0 \in Int /\ Cardinality(Node) - 1 \in Int
    BY <2>1
  <2>4. IsFiniteSet(V) /\ Cardinality(V) = Cardinality(Node)
    BY <2>1, <2>2, <2>3, FS_Interval
  <2> QED
    BY <2>1, <2>4
<1>3. ASSUME NEW a \in S
      PROVE  /\ IsFiniteSet(Leaves(a)) /\ Cardinality(Leaves(a)) \in V
  <2>1. Leaves(a) \subseteq Node \ {Nil} /\ Nil \in Node
    BY NodeKinds, NodeAssumption
  <2>2. IsFiniteSet(Node \ {Nil}) /\ Cardinality(Node \ {Nil}) = Cardinality(Node) - 1
    BY <1>2, NodeAssumption, FS_RemoveElement
  <2>3. IsFiniteSet(Leaves(a)) /\ Cardinality(Leaves(a)) <= Cardinality(Node \ {Nil})
    BY <2>1, <2>2, FS_Subset
  <2>4. Cardinality(Leaves(a)) \in Nat
    BY <2>3, FS_CardinalityType
  <2> QED
    BY <1>2, <2>2, <2>3, <2>4
<1>4. ASSUME NEW a \in S, a.flink[Nil] # Nil
      PROVE  /\ f[a] \in S /\ Cardinality(Leaves(f[a])) < Cardinality(Leaves(a))
  <2>1. Healthy(a) /\ ~a.exited /\ ~Bare(a) /\ a \in Tree
    BY <1>4, FirstLeaf
  <2>2. PICK b : b = jrb_delete_node(a, a.flink[Nil])
    OBVIOUS
  <2>3. /\ Healthy(b) /\ b.exited = a.exited /\ b \in Tree
        /\ Leaves(b) = Leaves(a) \ {a.flink[Nil]} /\ a.flink[Nil] \in Leaves(a)
    BY <2>1, <2>2, DeleteFirst, FirstLeaf
  <2>4. f[a] = b
    BY <1>4, <2>1, <2>2
  <2>5. Cardinality(Leaves(b)) = Cardinality(Leaves(a)) - 1
    <3>1. PICK A, m : A = Leaves(a) /\ m = a.flink[Nil]
      OBVIOUS
    <3>2. IsFiniteSet(A) /\ m \in A
      BY <1>3, <2>3, <3>1
    <3>3. Cardinality(A \ {m}) = Cardinality(A) - 1
      BY <3>2, FS_RemoveElement
    <3> QED
      BY <2>3, <3>1, <3>3
  <2>6. Cardinality(Leaves(a)) \in Int
    BY <1>2, <1>3
  <2> QED
    BY SMTT(60), <2>1, <2>3, <2>4, <2>5, <2>6
<1>5. \A a \in S : a.flink[Nil] = Nil => f[a] = a
  OBVIOUS
<1>6. v \in [S -> V] /\ \A a \in S : v[a] = Cardinality(Leaves(a))
  BY <1>3
<1>7. rank \in [V -> Int] /\ \A c \in V : rank[c] = -c
  BY <1>2
<1>8. PICK e \in S : e = Loop(f, t) /\ f[e] = e
  <2>1. \A a \in S : f[a] \in S
    BY <1>4, <1>5
  <2> HIDE DEF f, S, v, V, rank
  <2>2. ASSUME NEW a \in S, f[a] # a PROVE rank[v[f[a]]] > rank[v[a]]
    <3>1. f[a] \in S /\ Cardinality(Leaves(f[a])) < Cardinality(Leaves(a))
      BY <1>4, <1>5, <2>2
    <3>2. PICK c, d : c = Cardinality(Leaves(f[a])) /\ d = Cardinality(Leaves(a))
      OBVIOUS
    <3>3. c \in V /\ d \in V /\ v[f[a]] = c /\ v[a] = d /\ c < d
      BY <1>3, <1>6, <3>1, <3>2
    <3>4. rank[c] = -c /\ rank[d] = -d /\ c \in Int /\ d \in Int
      BY <1>2, <1>7, <3>3 DEF V
    <3> QED
      BY <3>3, <3>4
  <2>3. Loop(f, t) \in S /\ f[Loop(f, t)] = Loop(f, t)
    BY <1>1, <1>2, <1>6, <1>7, <2>1, <2>2, LoopEnds
  <2> QED
    BY <2>3
<1>9. e.flink[Nil] = Nil
  <2> SUFFICES ASSUME e.flink[Nil] # Nil PROVE FALSE
    OBVIOUS
  <2>1. Cardinality(Leaves(e)) < Cardinality(Leaves(e)) /\ Cardinality(Leaves(e)) \in Int
    BY <1>2, <1>3, <1>4, <1>8
  <2> QED
    BY <2>1
<1>10. Bare(e) /\ ~e.exited /\ e \in Tree
  <2>1. Bare(e)
    BY <1>9, FirstLeaf DEF Leaves
  <2> QED
    BY <2>1
<1>11. u = free(e, {Nil})
  BY <1>8, <1>10 DEF jrb_free_tree
<1> HIDE DEF f, S
<1>12. Freed(e, u, {Nil})
  BY <1>10, <1>11, FreedFacts
<1> QED
  BY <1>10, <1>12 DEF Freed, Bare
=============================================================================
