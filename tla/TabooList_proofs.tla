-------------------------- MODULE TabooList_proofs --------------------------
(***************************************************************************)
(* The taboo list: its index is a red-black tree of the keys in the queue, *)
(* and so answers for exactly the last MaxSize entries.                    *)
(***************************************************************************)
EXTENDS TabooListProps, JrbTree_proofs

-----------------------------------------------------------------------------
(* The index of a queue *)

\* b numbers the leaves as their keys are in the queue: a key has as many leaves as the
\* queue has it.
Numbers(t, q, b) ==
    /\ b \in [Leaves(t) -> 1 .. Len(q)]
    /\ \A m, n \in Leaves(t) : b[m] = b[n] => m = n
    /\ \A c \in 1 .. Len(q) : \E m \in Leaves(t) : b[m] = c
    /\ \A m \in Leaves(t) : t.key[m] = q[b[m]]

\* The index of a queue.
Indexes(t, q) ==
    /\ q = << >> => Bare(t)
    /\ q # << >> => (\E pos, lim : RedBlack(t, pos, lim)) /\ Cardinality(t.used) = 2 * Len(q)
    /\ \E b : Numbers(t, q, b)

\* The index of a queue is a tree that is not being changed.
LEMMA IndexHealthy ==
    ASSUME NEW t, NEW q, Indexes(t, q)
    PROVE  Healthy(t) /\ t \in Tree /\ IsFiniteSet(t.used)
<1>1. Healthy(t)
  BY DEF Indexes, Healthy
<1>2. t \in Tree
  BY <1>1, FirstLeaf
<1>3. t.used \subseteq Node
  BY <1>2, TreeFields
<1> QED
  BY <1>1, <1>2, <1>3, NodeAssumption, FS_Subset

\* The new leaf has the number of the new key.
LEMMA NumbersGrow ==
    ASSUME NEW t, NEW q \in Seq(Int), NEW b, Numbers(t, q, b), NEW k \in Int,
           NEW u, NEW new, new \notin Leaves(t), Leaves(u) = Leaves(t) \union {new},
           u.key[new] = k, \A m \in Leaves(t) : u.key[m] = t.key[m]
    PROVE  \E c : Numbers(u, Append(q, k), c)
<1>1. PICK w, l : w = Append(q, k) /\ l = Len(q)
  OBVIOUS
<1>2. /\ l \in Nat /\ Len(w) = l + 1 /\ w[l + 1] = k /\ \A i \in 1 .. l : w[i] = q[i]
  BY <1>1
<1>3. PICK c : c = [m \in Leaves(u) |-> IF m = new THEN l + 1 ELSE b[m]]
  OBVIOUS
<1>4. c[new] = l + 1 /\ \A m \in Leaves(t) : c[m] = b[m] /\ b[m] \in 1 .. l
  BY <1>1, <1>3 DEF Numbers
<1>5. c \in [Leaves(u) -> 1 .. l + 1]
  <2>1. \A m \in Leaves(u) : (IF m = new THEN l + 1 ELSE b[m]) \in 1 .. l + 1
    BY <1>2, <1>4
  <2> QED
    BY <1>3, <2>1
<1>6. ASSUME NEW m \in Leaves(u), NEW n \in Leaves(u), c[m] = c[n] PROVE m = n
  <2>1. \A a \in Leaves(t) : c[a] # l + 1
    BY <1>2, <1>4
  <2>2. \A a, d \in Leaves(t) : b[a] = b[d] => a = d
    BY DEF Numbers
  <2> QED
    BY <1>4, <1>6, <2>1, <2>2
<1>7. ASSUME NEW i \in 1 .. l + 1 PROVE \E m \in Leaves(u) : c[m] = i
  <2>1. CASE i = l + 1
    BY <1>4, <2>1
  <2>2. CASE i # l + 1
    <3>1. i \in 1 .. l
      BY <1>2, <2>2
    <3>2. PICK m \in Leaves(t) : b[m] = i
      BY <1>1, <3>1 DEF Numbers
    <3> QED
      BY <1>4, <3>2
  <2> QED
    BY <2>1, <2>2
<1>8. \A m \in Leaves(u) : u.key[m] = w[c[m]]
  BY <1>1, <1>2, <1>4 DEF Numbers
<1>9. Numbers(u, w, c)
  BY <1>2, <1>5, <1>6, <1>7, <1>8 DEF Numbers
<1> QED
  BY <1>1, <1>9

\* Without a leaf that has the oldest key, the others have the numbers of the other keys.
LEMMA NumbersShrink ==
    ASSUME NEW t, NEW q \in Seq(Int), q # << >>, NEW b, Numbers(t, q, b),
           NEW n \in Leaves(t), t.key[n] = Head(q),
           NEW u, Leaves(u) = Leaves(t) \ {n}, \A m \in Leaves(u) : u.key[m] = t.key[m]
    PROVE  \E c : Numbers(u, Tail(q), c)
<1>1. PICK w, l : w = Tail(q) /\ l = Len(q)
  OBVIOUS
<1>2. /\ l \in Nat /\ l >= 1 /\ Len(w) = l - 1 /\ \A i \in 2 .. l : w[i - 1] = q[i]
      /\ q[1] = Head(q)
  BY <1>1
<1>3. PICK c : c = [m \in Leaves(u) |-> (IF b[m] = 1 THEN b[n] ELSE b[m]) - 1]
  OBVIOUS
<1>4. /\ \A m \in Leaves(t) : b[m] \in 1 .. l
      /\ \A m, a \in Leaves(t) : b[m] = b[a] => m = a
      /\ \A m \in Leaves(t) : t.key[m] = q[b[m]]
      /\ \A i \in 1 .. l : \E m \in Leaves(t) : b[m] = i
  BY <1>1 DEF Numbers
<1>5. ASSUME NEW m \in Leaves(u)
      PROVE  /\ m \in Leaves(t) /\ m # n
             /\ c[m] \in 1 .. l - 1
             /\ b[m] = 1 => c[m] = b[n] - 1
             /\ b[m] # 1 => c[m] = b[m] - 1
             /\ w[c[m]] = t.key[m]
  <2>1. m \in Leaves(t) /\ m # n /\ b[m] # b[n]
    BY <1>4
  <2>2. b[m] \in 1 .. l /\ b[n] \in 1 .. l
    BY <1>4, <2>1
  <2>3. CASE b[m] = 1
    <3>1. c[m] = b[n] - 1 /\ b[n] \in 2 .. l
      BY <1>2, <1>3, <2>1, <2>2, <2>3
    <3>2. w[c[m]] = q[b[n]]
      BY <1>2, <3>1
    <3>3. q[b[n]] = q[1] /\ t.key[m] = q[1]
      BY <1>2, <1>4, <2>1, <2>3
    <3> QED
      BY SMTT(60), <1>2, <2>1, <2>3, <3>1, <3>2, <3>3
  <2>4. CASE b[m] # 1
    <3>1. c[m] = b[m] - 1 /\ b[m] \in 2 .. l
      BY <1>2, <1>3, <2>1, <2>2, <2>4
    <3>2. w[c[m]] = q[b[m]]
      BY <1>2, <3>1
    <3>3. t.key[m] = q[b[m]]
      BY <1>4, <2>1
    <3>4. c[m] \in 1 .. l - 1
      BY <1>2, <3>1
    <3> QED
      BY <2>1, <2>4, <3>1, <3>2, <3>3, <3>4
  <2> QED
    BY <2>3, <2>4
<1>6. c \in [Leaves(u) -> 1 .. l - 1]
  BY <1>3, <1>5
<1>7. ASSUME NEW m \in Leaves(u), NEW a \in Leaves(u), c[m] = c[a] PROVE m = a
  <2>1. /\ m \in Leaves(t) /\ a \in Leaves(t) /\ m # n /\ a # n
        /\ b[m] = 1 => c[m] = b[n] - 1
        /\ b[m] # 1 => c[m] = b[m] - 1
        /\ b[a] = 1 => c[a] = b[n] - 1
        /\ b[a] # 1 => c[a] = b[a] - 1
    BY <1>5
  <2>2. b[m] \in Int /\ b[a] \in Int /\ b[n] \in Int
    BY <1>2, <1>4, <2>1
  <2>3. b[m] = b[a] \/ b[m] = b[n] \/ b[a] = b[n]
    BY SMTT(60), <1>7, <2>1, <2>2
  <2> QED
    BY <1>4, <2>1, <2>3
<1>8. ASSUME NEW i \in 1 .. l - 1 PROVE \E m \in Leaves(u) : c[m] = i
  <2>1. i + 1 \in 1 .. l /\ i + 1 # 1 /\ 1 \in 1 .. l /\ i \in Int
    BY <1>2
  <2>2. PICK m \in Leaves(t) : b[m] = i + 1
    BY <1>4, <2>1
  <2>3. PICK a \in Leaves(t) : b[a] = 1
    BY <1>4, <2>1
  <2>4. CASE m = n
    <3>1. a \in Leaves(u)
      BY <2>1, <2>2, <2>3, <2>4
    <3>2. c[a] = b[n] - 1
      BY <1>5, <2>3, <3>1
    <3> QED
      BY SMTT(60), <2>1, <2>2, <2>4, <3>1, <3>2
  <2>5. CASE m # n
    <3>1. m \in Leaves(u)
      BY <2>2, <2>5
    <3>2. c[m] = b[m] - 1
      BY <1>5, <2>1, <2>2, <3>1
    <3> QED
      BY <2>1, <2>2, <3>1, <3>2
  <2> QED
    BY <2>4, <2>5
<1>9. Numbers(u, w, c)
  BY <1>2, <1>5, <1>6, <1>7, <1>8 DEF Numbers
<1> QED
  BY <1>1, <1>9

\* An insertion indexes the new key, and prints no error.
LEMMA IndexGrows ==
    ASSUME NEW t, NEW q \in Seq(Int), Indexes(t, q), NEW k \in Int,
           2 * Len(q) + 1 < Cardinality(Node), NEW u, u = jrb_insert_dbl(t, k)
    PROVE  Indexes(u, Append(q, k)) /\ u.exited = t.exited
<1>1. PICK r : r = jrb_find_gte_dbl(t, k)
  OBVIOUS
<1>2. u = jrb_insert_b(t, r.node, k)
  BY <1>1 DEF jrb_insert_dbl
<1>3. PICK b : Numbers(t, q, b)
  BY DEF Indexes
<1>4. Append(q, k) # << >> /\ Len(Append(q, k)) = Len(q) + 1 /\ Len(q) \in Nat
  OBVIOUS
<1>5. CASE q = << >>
  <2>1. Bare(t)
    BY <1>5 DEF Indexes
  <2>2. r.node = Nil
    BY <1>1, <2>1 DEF jrb_find_gte_dbl, Bare
  <2>3. Cardinality(Node) > 1
    <3>1. Len(q) = 0
      BY <1>5
    <3>2. Cardinality(Node) \in Nat
      BY NodeAssumption, FS_CardinalityType
    <3> QED
      BY <3>1, <3>2
  <2>4. PICK new, P, L : /\ RedBlack(u, P, L) /\ new \in Node \ {Nil}
                         /\ u.used = {Nil, new} /\ u.exited = t.exited
                         /\ Leaves(u) = {new} /\ Inner(u) = {} /\ u.key[new] = k
    BY <1>2, <2>1, <2>2, <2>3, InsertFirst
  <2>5. Leaves(t) = {}
    BY <2>1 DEF Bare, Leaves
  <2>6. \E c : Numbers(u, Append(q, k), c)
    BY <1>3, <2>4, <2>5, NumbersGrow
  <2>7. Cardinality(u.used) = 2
    <3>1. IsFiniteSet({Nil}) /\ Cardinality({Nil}) = 1
      BY FS_Singleton
    <3>2. PICK A : A = {Nil}
      OBVIOUS
    <3>3. u.used = A \union {new} /\ new \notin A
      BY <2>4, <3>2
    <3>4. Cardinality(A \union {new}) = Cardinality(A) + 1
      BY <3>1, <3>2, <3>3, FS_AddElement
    <3> QED
      BY <3>1, <3>2, <3>3, <3>4
  <2>8. Len(Append(q, k)) = 1
    BY <1>4, <1>5
  <2> QED
    BY <1>4, <2>4, <2>6, <2>7, <2>8 DEF Indexes
<1>6. CASE q # << >>
  <2>1. PICK pos, lim : RedBlack(t, pos, lim)
    BY <1>6 DEF Indexes
  <2>2. Cardinality(t.used) = 2 * Len(q) /\ IsFiniteSet(t.used)
    BY <1>6, IndexHealthy DEF Indexes
  <2>3. r.node \in Leaves(t) \union {Nil} /\ Fits(t, pos, r.node, k)
    BY <1>1, <2>1, FindFacts
  <2>4. PICK new, i, P, L : Larger(t, u, new, i, k) /\ RedBlack(u, P, L)
    BY <1>2, <2>1, <2>2, <2>3, InsertGrows
  <2>5. /\ new \notin t.used /\ i \notin t.used /\ i # new
        /\ u.used = t.used \union {new, i} /\ u.exited = t.exited
        /\ Leaves(u) = Leaves(t) \union {new}
        /\ u.key[new] = k /\ \A m \in Leaves(t) : u.key[m] = t.key[m]
        /\ new \notin Leaves(t)
    BY <2>4 DEF Larger, Leaves
  <2>6. \E c : Numbers(u, Append(q, k), c)
    BY <1>3, <2>5, NumbersGrow
  <2>7. Cardinality(u.used) = 2 * Len(q) + 2
    <3>1. PICK A : A = t.used \union {new}
      OBVIOUS
    <3>2. IsFiniteSet(A) /\ Cardinality(A) = 2 * Len(q) + 1
      BY <2>2, <2>5, <3>1, FS_AddElement
    <3>3. u.used = A \union {i} /\ i \notin A
      BY <2>5, <3>1
    <3>4. Cardinality(u.used) = Cardinality(A) + 1
      BY <3>2, <3>3, FS_AddElement
    <3> QED
      BY <1>4, <3>2, <3>4
  <2>8. 2 * Len(Append(q, k)) = 2 * Len(q) + 2
    BY <1>4
  <2> QED
    BY <1>4, <2>4, <2>5, <2>6, <2>7, <2>8 DEF Indexes
<1> QED
  BY <1>5, <1>6

\* An eviction deletes a leaf of the oldest key, and prints no error.
LEMMA IndexShrinks ==
    ASSUME NEW t, NEW q \in Seq(Int), q # << >>, Indexes(t, q), NEW u, u = Dropped(t, Head(q))
    PROVE  Indexes(u, Tail(q)) /\ u.exited = t.exited
<1>1. PICK pos, lim : RedBlack(t, pos, lim)
  BY DEF Indexes
<1>2. PICK b : Numbers(t, q, b)
  BY DEF Indexes
<1>3. PICK r : r = jrb_find_gte_dbl(t, Head(q))
  OBVIOUS
<1>4. PICK n : n = r.node
  OBVIOUS
<1>5. Head(q) \in Int /\ Head(q) = q[1] /\ 1 \in 1 .. Len(q) /\ Len(q) \in Nat
      /\ Tail(q) \in Seq(Int) /\ Len(Tail(q)) = Len(q) - 1
  OBVIOUS
<1>6. r.fnd /\ n \in Leaves(t) /\ t.key[n] = Head(q)
  <2>1. \E m \in Leaves(t) : t.key[m] = Head(q)
    BY <1>2, <1>5 DEF Numbers
  <2> QED
    BY <1>1, <1>3, <1>4, <1>5, <2>1, FindFacts
<1>7. u = jrb_delete_node(t, n)
  BY <1>3, <1>4, <1>6 DEF Dropped
<1>8. CASE t.root[n]
  <2>1. Bare(u) /\ u.exited = t.exited /\ Leaves(t) = {n}
    BY <1>1, <1>6, <1>7, <1>8, DeleteLast DEF RedBlack
  <2>2. Leaves(u) = {}
    BY <2>1 DEF Bare, Leaves
  <2>3. Len(q) = 1
    <3>1. PICK m \in Leaves(t) : b[m] = 1
      BY <1>2, <1>5 DEF Numbers
    <3>2. PICK a \in Leaves(t) : b[a] = Len(q)
      BY <1>2, <1>5 DEF Numbers
    <3> QED
      BY <2>1, <3>1, <3>2
  <2>4. Tail(q) = << >>
    <3>1. PICK w : w = Tail(q)
      OBVIOUS
    <3>2. w \in Seq(Int) /\ Len(w) = 0
      BY <1>5, <2>3, <3>1
    <3>3. w = << >>
      BY <3>2
    <3> QED
      BY <3>1, <3>3
  <2>5. \E c : Numbers(u, Tail(q), c)
    <3>1. Leaves(u) = Leaves(t) \ {n} /\ \A m \in Leaves(u) : u.key[m] = t.key[m]
      BY <2>1, <2>2
    <3> QED
      BY <1>2, <1>6, <3>1, NumbersShrink
  <2> QED
    BY <2>1, <2>4, <2>5 DEF Indexes
<1>9. CASE ~t.root[n]
  <2>1. PICK p, L : Smaller(t, u, n, p) /\ RedBlack(u, pos, L)
    BY <1>1, <1>6, <1>7, <1>9, DeleteKeeps
  <2>2. /\ u.used = t.used \ {n, p} /\ u.exited = t.exited /\ Leaves(u) = Leaves(t) \ {n}
        /\ u.key = t.key /\ n \in t.used /\ p \in t.used /\ n # p
    BY <1>6, <2>1 DEF Smaller, Inner, Leaves
  <2>3. \E c : Numbers(u, Tail(q), c)
    BY <1>2, <1>6, <2>2, NumbersShrink
  <2>4. Tail(q) # << >>
    <3>1. ~Bare(u)
      BY <2>1 DEF RedBlack, Shaped, Linked, Nodes, Bare
    <3>2. Healthy(u)
      BY <2>1 DEF Healthy
    <3>3. PICK m : m \in Leaves(u)
      BY <3>1, <3>2, FirstLeaf
    <3>4. PICK c : Numbers(u, Tail(q), c)
      BY <2>3
    <3>5. c[m] \in 1 .. Len(Tail(q))
      BY <3>3, <3>4 DEF Numbers
    <3> QED
      BY <3>5
  <2>5. Cardinality(u.used) = 2 * Len(Tail(q))
    <3>1. Cardinality(t.used) = 2 * Len(q) /\ IsFiniteSet(t.used)
      BY IndexHealthy DEF Indexes
    <3>2. PICK A : A = t.used \ {n}
      OBVIOUS
    <3>3. IsFiniteSet(A) /\ Cardinality(A) = 2 * Len(q) - 1
      BY SMTT(60), <2>2, <3>1, <3>2, FS_RemoveElement
    <3>4. u.used = A \ {p} /\ p \in A
      BY <2>2, <3>2
    <3>5. Cardinality(u.used) = Cardinality(A) - 1
      BY <3>3, <3>4, FS_RemoveElement
    <3> QED
      BY <1>5, <3>3, <3>5
  <2> QED
    BY <2>1, <2>2, <2>3, <2>4, <2>5 DEF Indexes
<1> QED
  BY <1>8, <1>9

-----------------------------------------------------------------------------
(* The list *)

\* The keys that a queue may hold.
Keys == {MakeEdgeCountKey(x[1], x[2], x[3]) : x \in Entries}

\* A sequence over a set is one over a larger set.
LEMMA SeqWider ==
    ASSUME NEW S, NEW T, S \subseteq T, NEW q \in Seq(S)
    PROVE  q \in Seq(T)
<1>1. PICK n \in Nat : q \in [1 .. n -> S]
  <2>1. Len(q) \in Nat /\ q \in [1 .. Len(q) -> S]
    OBVIOUS
  <2> QED
    BY <2>1
<1>2. q \in [1 .. n -> T]
  BY <1>1
<1> QED
  BY SMTT(60), <1>2

\* Keys are natural numbers.
LEMMA KeysAreNumbers == Keys \subseteq Nat
<1>1. ASSUME NEW x \in Entries PROVE MakeEdgeCountKey(x[1], x[2], x[3]) \in Nat
  <2>1. /\ x[1] \in Nat /\ x[2] \in 0 .. RowBase - 1 /\ x[3] \in 0 .. CountBase - 1
        /\ RowBase \in Nat /\ CountBase \in Nat
    BY TabooAssumption, KeyAssumption DEF Packable
  <2>2. PICK a, c : a = x[1] * RowBase + x[2] /\ c = x[3]
    OBVIOUS
  <2>3. a \in Nat /\ c \in Nat
    BY <2>1, <2>2
  <2>4. a * CountBase + c \in Nat
    BY <2>1, <2>3
  <2> QED
    BY <2>2, <2>4 DEF MakeEdgeCountKey
<1> QED
  BY <1>1 DEF Keys

\* The index of a running search is a red-black tree whose leaves are the keys of the
\* queue, and no error was printed.
IndexInv ==
    /\ live \in BOOLEAN /\ findex \in Tree /\ ~findex.exited
    /\ fifo \in Seq(Keys) /\ Len(fifo) <= MaxSize /\ fcount = Len(fifo)
    /\ live => Indexes(findex, fifo)
    /\ ~live => findex.used = {} /\ fifo = << >>

\* A tree without a node, and a tree without a leaf (jrb.c:121-132).
LEMMA EmptyTrees ==
    /\ NoTree \in Tree /\ NoTree.used = {} /\ ~NoTree.exited
    /\ Bare(make_jrb) /\ ~make_jrb.exited
<1>1. Pointers \in [Node -> Node] /\ Flags \in [Node -> BOOLEAN] /\ Pointers[Nil] = Nil
      /\ [n \in Node |-> 0] \in [Node -> Int] /\ [n \in Node |-> Right] \in [Node -> Side]
      /\ Nil \in Node
  BY NodeAssumption, Sides DEF Pointers, Flags
<1>2. NoTree \in Tree /\ NoTree.used = {} /\ ~NoTree.exited
  BY <1>1 DEF NoTree, Tree
<1>3. NoTree.parent[Nil] = Nil /\ NoTree.flink[Nil] = Nil /\ NoTree.blink[Nil] = Nil
  BY <1>1 DEF NoTree
<1>4. Bare(make_jrb) /\ ~make_jrb.exited
  BY <1>1, <1>2, <1>3 DEF make_jrb, Tree, Bare
<1> QED
  BY <1>2, <1>4

\* The program starts without a list.
LEMMA IndexInit ==
    ASSUME Init
    PROVE  IndexInv
<1>1. << >> \in Seq(Keys) /\ Len(<< >>) = 0 /\ 0 <= MaxSize
  BY TabooAssumption
<1> QED
  BY <1>1, EmptyTrees DEF Init, IndexInv

\* A new list indexes the empty queue (fifo.c:29-47).
LEMMA IndexBegin ==
    ASSUME IndexInv, FIFOInitGraph
    PROVE  IndexInv'
<1>1. << >> \in Seq(Keys) /\ Len(<< >>) = 0 /\ 0 <= MaxSize
  BY TabooAssumption
<1>2. Bare(make_jrb) /\ ~make_jrb.exited /\ make_jrb \in Tree
  BY EmptyTrees DEF Bare
<1>3. Indexes(make_jrb, << >>)
  <2>1. Leaves(make_jrb) = {}
    BY <1>2 DEF Bare, Leaves
  <2>2. PICK b : b = [m \in {} |-> 0]
    OBVIOUS
  <2>3. Numbers(make_jrb, << >>, b)
    BY <1>1, <2>1, <2>2 DEF Numbers
  <2> QED
    BY <1>2, <2>3 DEF Indexes
<1> QED
  BY <1>1, <1>2, <1>3 DEF FIFOInitGraph, IndexInv

\* What an insert makes of the index and of the queue.
LEMMA IndexPut ==
    ASSUME IndexInv, live, NEW x \in Entries, FIFOInsertEdgeCount(x[1], x[2], x[3])
    PROVE  /\ IndexInv' /\ live'
           /\ fifo' = Append(IF Len(fifo) < MaxSize THEN fifo ELSE Tail(fifo),
                             MakeEdgeCountKey(x[1], x[2], x[3]))
<1>1. PICK k : k = MakeEdgeCountKey(x[1], x[2], x[3])
  OBVIOUS
<1>2. k \in Keys /\ k \in Int /\ Keys \subseteq Int
  BY <1>1, KeysAreNumbers DEF Keys
<1>3. PICK t, q : /\ t = IF Full(fcount) THEN Dropped(findex, Head(fifo)) ELSE findex
                  /\ q = IF Full(fcount) THEN Tail(fifo) ELSE fifo
  OBVIOUS
<1>4. /\ findex' = IF t.exited THEN t ELSE Indexed(t, k)
      /\ fifo' = Append(q, k) /\ fcount' = (IF Full(fcount) THEN fcount - 1 ELSE fcount) + 1
      /\ live' = live
  BY <1>1, <1>3 DEF FIFOInsertEdgeCount
<1>5. /\ fifo \in Seq(Keys) /\ fifo \in Seq(Int) /\ Len(fifo) \in Nat /\ Len(fifo) <= MaxSize
      /\ fcount = Len(fifo) /\ MaxSize \in Nat /\ MaxSize >= 1
      /\ Indexes(findex, fifo) /\ ~findex.exited
  <2>1. /\ fifo \in Seq(Keys) /\ Len(fifo) <= MaxSize /\ fcount = Len(fifo)
        /\ Indexes(findex, fifo) /\ ~findex.exited
    BY DEF IndexInv
  <2>2. fifo \in Seq(Int)
    BY <1>2, <2>1, SeqWider
  <2> QED
    BY <2>1, <2>2, TabooAssumption
<1>6. Full(fcount) <=> Len(fifo) = MaxSize
  BY <1>5 DEF Full
<1>7. /\ Indexes(t, q) /\ ~t.exited /\ q \in Seq(Keys) /\ q \in Seq(Int)
      /\ Len(q) \in Nat /\ Len(q) = (IF Full(fcount) THEN fcount - 1 ELSE fcount) /\ Len(q) < MaxSize
  <2>1. CASE Full(fcount)
    <3>1. fifo # << >>
      BY <1>5, <1>6, <2>1
    <3>2. q = Tail(fifo) /\ t = Dropped(findex, Head(fifo))
      BY <1>3, <2>1
    <3>3. Indexes(t, q) /\ t.exited = findex.exited
      BY <1>5, <3>1, <3>2, IndexShrinks
    <3>4. q \in Seq(Keys) /\ q \in Seq(Int) /\ Len(q) = Len(fifo) - 1
      BY <1>5, <3>1, <3>2
    <3> QED
      BY <1>5, <1>6, <2>1, <3>3, <3>4
  <2>2. CASE ~Full(fcount)
    BY <1>3, <1>5, <1>6, <2>2
  <2> QED
    BY <2>1, <2>2
<1>8. PICK u : u = jrb_insert_dbl(t, k)
  OBVIOUS
<1>9. Indexes(u, Append(q, k)) /\ u.exited = t.exited
  <2>1. 2 * Len(q) + 1 < Cardinality(Node)
    <3>1. Cardinality(Node) \in Nat /\ Cardinality(Node) >= 2 * MaxSize
      BY NodeAssumption, TabooAssumption, FS_CardinalityType
    <3> QED
      BY <1>5, <1>7, <3>1
  <2> QED
    BY <1>2, <1>7, <1>8, <2>1, IndexGrows
<1>10. findex' = u
  BY <1>4, <1>7, <1>8 DEF Indexed
<1>11. u \in Tree
  BY <1>9, IndexHealthy
<1>12. Append(q, k) \in Seq(Keys) /\ Len(Append(q, k)) = Len(q) + 1
  BY <1>2, <1>7
<1>13. IndexInv'
  <2>1. /\ Append(q, k) \in Seq(Keys) /\ Len(Append(q, k)) <= MaxSize
        /\ fcount' = Len(Append(q, k))
    BY <1>4, <1>5, <1>7, <1>12
  <2> QED
    BY <1>4, <1>7, <1>9, <1>10, <1>11, <2>1 DEF IndexInv
<1>14. q = IF Len(fifo) < MaxSize THEN fifo ELSE Tail(fifo)
  BY <1>3, <1>5, <1>6
<1> QED
  BY <1>1, <1>4, <1>13, <1>14

\* Freeing the list leaves no node behind, and stops at no error (fifo.c:58-67).
LEMMA IndexEnd ==
    ASSUME IndexInv, FIFODelete
    PROVE  IndexInv'
<1>1. << >> \in Seq(Keys) /\ Len(<< >>) = 0 /\ 0 <= MaxSize
  BY TabooAssumption
<1>2. Healthy(findex) /\ ~findex.exited
  BY IndexHealthy DEF FIFODelete, IndexInv
<1>3. findex' \in Tree /\ findex'.used = {} /\ ~findex'.exited
  <2>1. findex' = jrb_free_tree(findex)
    BY DEF FIFODelete
  <2> QED
    BY <1>2, <2>1, FreeTree
<1> QED
  BY <1>1, <1>3 DEF FIFODelete, IndexInv

\* Each step keeps the invariant.
LEMMA IndexStep ==
    ASSUME IndexInv, [Next]_vars
    PROVE  IndexInv'
<1>1. CASE FIFOInitGraph
  BY <1>1, IndexBegin
<1>2. CASE FIFODelete
  BY <1>2, IndexEnd
<1>3. ASSUME NEW x \in Entries, FIFOInsertEdgeCount(x[1], x[2], x[3]) PROVE IndexInv'
  <2>1. live
    BY <1>3 DEF FIFOInsertEdgeCount
  <2> QED
    BY <1>3, <2>1, IndexPut
<1>4. CASE UNCHANGED vars
  BY <1>4 DEF vars, IndexInv
<1> QED
  BY <1>1, <1>2, <1>3, <1>4 DEF Next

\* With any memory that holds the list and any keys, the index of a running search is a
\* red-black tree whose leaves are the keys of the queue (fifo.c:426-487).
THEOREM IndexAlways == Spec => []IndexInv
  BY IndexInit, IndexStep, PTL DEF Spec

\* Values stay in their ranges, and the queue within MaxSize (fifo.c:450-476).
THEOREM TabooTypes == Spec => []TypeOK
<1>1. IndexInv => TypeOK
  <2> SUFFICES ASSUME IndexInv PROVE TypeOK
    OBVIOUS
  <2>1. fifo \in Seq(Nat)
    BY KeysAreNumbers, SeqWider DEF IndexInv
  <2> QED
    BY <2>1 DEF IndexInv, TypeOK
<1> QED
  BY <1>1, IndexAlways, PTL

\* No deletion meets a tree it calls wrong, and freeing the list leaves no node behind
\* (jrb.c:444, 481, 496, 602-613).
THEOREM TabooNeverStuck == Spec => []NeverStuck
<1>1. IndexInv => NeverStuck
  BY DEF IndexInv, NeverStuck
<1> QED
  BY <1>1, IndexAlways, PTL

\* An inner node remembers the leaf at the near end of each of its two halves.
LEMMA ExtBelow ==
    ASSUME NEW t, NEW pos, NEW lim, Shaped(t, pos, lim), Known(t, pos, lim),
           NEW n \in Inner(t), NEW s \in Side, NEW e, e = below(t, child(t, n, s), Other(s))
    PROVE  ext(t, n, s) = e /\ e \in Leaves(t) /\ lim[e][Other(s)] = pos[n]
<1>1. child(t, n, s) \in Nodes(t) /\ Other(s) \in Side
  BY ChildFacts, Sides
<1>2. e \in Leaves(t) /\ lim[e][Other(s)] = lim[child(t, n, s)][Other(s)]
  BY <1>1, BelowFacts
<1>3. lim[child(t, n, s)][Other(s)] = pos[n]
  BY DEF Shaped, Spans
<1>4. ext(t, n, s) \in Leaves(t) /\ lim[ext(t, n, s)][Other(s)] = pos[n]
  BY DEF Known
<1> QED
  BY <1>1, <1>2, <1>3, <1>4, LeafByEnd

\* The leaves that meet at an inner node are next to each other.
LEMMA Meeting ==
    ASSUME NEW t, NEW pos, NEW lim, Shaped(t, pos, lim), NEW n \in Inner(t), NEW s \in Side,
           NEW e \in Leaves(t), NEW a \in Leaves(t), lim[e][s] = pos[n], lim[a][Other(s)] = pos[n]
    PROVE  beside(t, e, s) = a
<1>1. t \in Tree /\ Linked(t) /\ Listed(t, pos) /\ Spans(t, pos, lim) /\ Other(s) \in Side
  BY Sides DEF Shaped
<1>2. n \in Nodes(t) /\ n \in Node /\ t.parent[Nil] \in Node /\ e \in Node
  BY <1>1, NodeKinds, TreeFields, NodeAssumption
<1>3. beside(t, e, s) # Nil
  <2> SUFFICES ASSUME beside(t, e, s) = Nil PROVE FALSE
    OBVIOUS
  <2>1. lim[e][s] = lim[t.parent[Nil]][s]
    BY <1>1 DEF Spans
  <2>2. Beyond(s, lim[n][s], pos[n]) /\ ~Beyond(s, lim[n][s], lim[t.parent[Nil]][s])
    BY <1>1, <1>2 DEF Spans
  <2> QED
    BY <2>1, <2>2
<1>4. beside(t, e, s) \in Leaves(t)
  BY <1>1, <1>3 DEF Listed
<1>5. lim[beside(t, e, s)][Other(s)] = lim[e][s]
  BY <1>1, <1>3 DEF Spans
<1> QED
  BY <1>1, <1>4, <1>5, LeafByEnd

\* The list of the tree is its leaves from left to right, and internal nodes remember the
\* leaves on either side of them (jrb.c:217-224, 291-301, 438-451).
THEOREM TabooNeighbours == Spec => []NeighboursKnown
<1>1. IndexInv => NeighboursKnown
  <2> SUFFICES ASSUME IndexInv, Running, fifo # << >>
               PROVE  /\ findex.flink[Nil] = FirstBelow(Root)
                      /\ findex.blink[Nil] = LastBelow(Root)
                      /\ \A n \in Internal :
                            LET before == LastBelow(findex.flink[n])
                                after == FirstBelow(findex.blink[n])
                            IN  /\ findex.lext[n] = before /\ findex.rext[n] = after
                                /\ findex.flink[before] = after /\ findex.blink[after] = before
    BY DEF NeighboursKnown
  <2>1. PICK t : t = findex
    OBVIOUS
  <2>2. PICK pos, lim : RedBlack(t, pos, lim)
    BY <2>1 DEF IndexInv, Running, Indexes
  <2>3. Shaped(t, pos, lim) /\ Known(t, pos, lim)
    BY <2>2 DEF RedBlack
  <2>4. /\ \A n : FirstBelow(n) = below(t, n, Left) /\ LastBelow(n) = below(t, n, Right)
        /\ Root = t.parent[Nil] /\ Internal = Inner(t)
        /\ Left \in Side /\ Right \in Side /\ Other(Left) = Right /\ Other(Right) = Left
    BY <2>1, Sides DEF FirstBelow, LastBelow, below, child, Root, Internal, Inner
  <2>5. /\ \A n : child(t, n, Left) = t.flink[n] /\ child(t, n, Right) = t.blink[n]
        /\ \A n : ext(t, n, Left) = t.lext[n] /\ ext(t, n, Right) = t.rext[n]
        /\ \A n : beside(t, n, Right) = t.flink[n] /\ beside(t, n, Left) = t.blink[n]
    BY <2>4, Sides DEF child, ext, beside
  <2>6. t.flink[Nil] = FirstBelow(Root) /\ t.blink[Nil] = LastBelow(Root)
    <3>1. \A s \in Side : beside(t, Nil, Other(s)) = below(t, t.parent[Nil], s)
      BY <2>3, EndFacts
    <3> QED
      BY <2>4, <2>5, <3>1
  <2>7. ASSUME NEW n \in Internal, NEW before, NEW after,
               before = LastBelow(t.flink[n]), after = FirstBelow(t.blink[n])
        PROVE  /\ t.lext[n] = before /\ t.rext[n] = after
               /\ t.flink[before] = after /\ t.blink[after] = before
    <3>1. /\ n \in Inner(t) /\ before = below(t, child(t, n, Left), Other(Left))
          /\ after = below(t, child(t, n, Right), Other(Right))
      BY <2>4, <2>5, <2>7
    <3>2. ext(t, n, Left) = before /\ before \in Leaves(t) /\ lim[before][Right] = pos[n]
      <4>1. ext(t, n, Left) = before /\ before \in Leaves(t) /\ lim[before][Other(Left)] = pos[n]
        BY <2>3, <2>4, <3>1, ExtBelow
      <4> QED
        BY <2>4, <4>1
    <3>3. ext(t, n, Right) = after /\ after \in Leaves(t) /\ lim[after][Left] = pos[n]
      <4>1. ext(t, n, Right) = after /\ after \in Leaves(t) /\ lim[after][Other(Right)] = pos[n]
        BY <2>3, <2>4, <3>1, ExtBelow
      <4> QED
        BY <2>4, <4>1
    <3>4. beside(t, before, Right) = after
      <4>1. lim[after][Other(Right)] = pos[n]
        BY <2>4, <3>3
      <4> QED
        BY <2>3, <2>4, <3>1, <3>2, <3>3, <4>1, Meeting
    <3>5. beside(t, after, Left) = before
      <4>1. lim[before][Other(Left)] = pos[n]
        BY <2>4, <3>2
      <4> QED
        BY <2>3, <2>4, <3>1, <3>2, <3>3, <4>1, Meeting
    <3> QED
      BY <2>5, <3>2, <3>3, <3>4, <3>5
  <2> QED
    BY <2>1, <2>6, <2>7
<1> QED
  BY <1>1, IndexAlways, PTL

-----------------------------------------------------------------------------
(* The window *)

\* A number has one quotient and one remainder.
LEMMA OneQuotient ==
    ASSUME NEW b \in Nat \ {0}, NEW p \in Nat, NEW q \in Nat,
           NEW r \in 0 .. b - 1, NEW s \in 0 .. b - 1,
           p * b + r = q * b + s
    PROVE  p = q /\ r = s
<1>1. ASSUME NEW m \in Nat, NEW n \in Nat, m < n PROVE m * b + b <= n * b
  <2>1. PICK d \in Nat : n = m + 1 + d
    <3>1. n - m - 1 \in Nat /\ n = m + 1 + (n - m - 1)
      BY <1>1
    <3> QED
      BY <3>1
  <2>2. n * b = m * b + b + d * b
    BY <2>1
  <2>3. d * b \in Nat /\ m * b \in Nat
    OBVIOUS
  <2> QED
    BY <2>2, <2>3
<1>2. ~(p < q)
  BY <1>1
<1>3. ~(q < p)
  BY <1>1
<1>4. p = q
  BY <1>2, <1>3
<1> QED
  BY <1>4

\* The keys of two entries differ, as long as a column is below RowBase and a count
\* below CountBase (fifo.c:412-424).
THEOREM KeysDiffer ==
    ASSUME NEW x \in Packable, NEW y \in Packable,
           MakeEdgeCountKey(x[1], x[2], x[3]) = MakeEdgeCountKey(y[1], y[2], y[3])
    PROVE  x = y
<1> USE KeyAssumption
<1> DEFINE D(z) == z[1] * RowBase + z[2]
<1>1. x = <<x[1], x[2], x[3]>> /\ y = <<y[1], y[2], y[3]>>
  BY DEF Packable
<1>2. D(x) \in Nat /\ D(y) \in Nat
  BY DEF Packable
<1>3. x[3] \in 0 .. CountBase - 1 /\ y[3] \in 0 .. CountBase - 1
  BY DEF Packable
<1>4. D(x) * CountBase + x[3] = D(y) * CountBase + y[3]
  BY DEF MakeEdgeCountKey
<1> HIDE DEF D
<1>5. D(x) = D(y) /\ x[3] = y[3]
  BY <1>2, <1>3, <1>4, OneQuotient
<1>6. /\ x[1] \in Nat /\ y[1] \in Nat
      /\ x[2] \in 0 .. RowBase - 1 /\ y[2] \in 0 .. RowBase - 1
  BY DEF Packable
<1>7. x[1] * RowBase + x[2] = y[1] * RowBase + y[2]
  BY <1>5 DEF D
<1>8. x[1] = y[1] /\ x[2] = y[2]
  <2> SUFFICES ASSUME NEW p, NEW q, NEW r, NEW t,
                      p \in Nat, q \in Nat,
                      r \in 0 .. RowBase - 1, t \in 0 .. RowBase - 1,
                      p * RowBase + r = q * RowBase + t
               PROVE  p = q /\ r = t
    BY <1>6, <1>7
  <2> QED
    BY OneQuotient
<1> QED
  BY <1>1, <1>5, <1>8

\* The entries of a queue of keys.
Entered(q) == [n \in DOMAIN q |-> Entry(q[n])]

\* An entry is found from its key.
LEMMA EntryOfKey ==
    /\ \A x \in Entries : Entry(MakeEdgeCountKey(x[1], x[2], x[3])) = x
    /\ \A k \in Keys : /\ Entry(k) \in Entries
                       /\ MakeEdgeCountKey(Entry(k)[1], Entry(k)[2], Entry(k)[3]) = k
<1>1. ASSUME NEW x \in Entries
      PROVE  Entry(MakeEdgeCountKey(x[1], x[2], x[3])) = x
  <2>1. PICK k : k = MakeEdgeCountKey(x[1], x[2], x[3])
    OBVIOUS
  <2>2. \E y \in Entries : MakeEdgeCountKey(y[1], y[2], y[3]) = k
    BY <2>1
  <2>3. PICK e : e = Entry(k)
    OBVIOUS
  <2>4. e \in Entries /\ MakeEdgeCountKey(e[1], e[2], e[3]) = k
    BY <2>2, <2>3 DEF Entry
  <2>5. e \in Packable /\ x \in Packable
    BY <2>4, TabooAssumption
  <2>6. e = x
    BY <2>1, <2>4, <2>5, KeysDiffer
  <2> QED
    BY <2>1, <2>3, <2>6
<1>2. ASSUME NEW k \in Keys
      PROVE  /\ Entry(k) \in Entries
             /\ MakeEdgeCountKey(Entry(k)[1], Entry(k)[2], Entry(k)[3]) = k
  <2>1. PICK x \in Entries : k = MakeEdgeCountKey(x[1], x[2], x[3])
    BY DEF Keys
  <2>2. Entry(k) = x
    BY <1>1, <2>1
  <2> QED
    BY <2>1, <2>2
<1> QED
  BY <1>1, <1>2

\* Entering a queue: its length, its end and its front.
LEMMA EnteredFacts ==
    ASSUME NEW q \in Seq(Keys)
    PROVE  /\ Entered(q) \in Seq(Entries) /\ Len(Entered(q)) = Len(q)
           /\ \A x \in Entries :
                 Entered(Append(q, MakeEdgeCountKey(x[1], x[2], x[3]))) = Append(Entered(q), x)
           /\ q # << >> => Entered(Tail(q)) = Tail(Entered(q))
<1>1. PICK l : l = Len(q)
  OBVIOUS
<1>2. l \in Nat /\ DOMAIN q = 1 .. l /\ \A n \in 1 .. l : q[n] \in Keys
  BY <1>1
<1>3. PICK e : e = [n \in 1 .. l |-> Entry(q[n])]
  OBVIOUS
<1>4. e \in [1 .. l -> Entries]
  BY <1>2, <1>3, EntryOfKey
<1>5. e \in Seq(Entries) /\ Len(e) = l
  BY <1>2, <1>4
<1>6. Entered(q) = e
  BY <1>2, <1>3 DEF Entered
<1>7. ASSUME NEW x \in Entries
      PROVE  Entered(Append(q, MakeEdgeCountKey(x[1], x[2], x[3]))) = Append(e, x)
  <2>1. PICK k : k = MakeEdgeCountKey(x[1], x[2], x[3])
    OBVIOUS
  <2>2. k \in Keys /\ Entry(k) = x
    BY <2>1, EntryOfKey DEF Keys
  <2>3. PICK w : w = Append(q, k)
    OBVIOUS
  <2>4. DOMAIN w = 1 .. l + 1 /\ w[l + 1] = k /\ \A n \in 1 .. l : w[n] = q[n]
    BY <1>1, <1>2, <2>2, <2>3
  <2>5. PICK a : a = Append(e, x)
    OBVIOUS
  <2>6. a \in [1 .. l + 1 -> Entries] /\ a[l + 1] = x /\ \A n \in 1 .. l : a[n] = e[n]
    <3>1. a \in Seq(Entries) /\ Len(a) = l + 1
      BY <1>5, <2>5
    <3>2. a \in [1 .. Len(a) -> Entries]
      BY <3>1
    <3>3. a[l + 1] = x /\ \A n \in 1 .. l : a[n] = e[n]
      BY <1>2, <1>5, <2>5
    <3> QED
      BY <3>1, <3>2, <3>3
  <2>7. Entered(w) = [n \in 1 .. l + 1 |-> Entry(w[n])]
    BY <2>4 DEF Entered
  <2>8. \A n \in 1 .. l + 1 : Entry(w[n]) = a[n]
    <3> SUFFICES ASSUME NEW n \in 1 .. l + 1 PROVE Entry(w[n]) = a[n]
      OBVIOUS
    <3>1. n = l + 1 \/ n \in 1 .. l
      BY <1>2
    <3> QED
      BY <1>2, <1>3, <2>2, <2>4, <2>6, <3>1
  <2>9. [n \in 1 .. l + 1 |-> Entry(w[n])] = a
    BY <2>6, <2>8
  <2> QED
    BY <2>1, <2>3, <2>5, <2>7, <2>9
<1>8. ASSUME q # << >> PROVE Entered(Tail(q)) = Tail(e)
  <2>1. l >= 1
    BY <1>1, <1>2, <1>8
  <2>2. PICK w : w = Tail(q)
    OBVIOUS
  <2>3. DOMAIN w = 1 .. l - 1 /\ \A n \in 1 .. l - 1 : w[n] = q[n + 1]
    BY <1>1, <1>2, <2>1, <2>2
  <2>4. PICK a : a = Tail(e)
    OBVIOUS
  <2>5. e # << >>
    BY <1>5, <2>1
  <2>6. a \in [1 .. l - 1 -> Entries] /\ \A n \in 1 .. l - 1 : a[n] = e[n + 1]
    <3>1. a \in Seq(Entries) /\ Len(a) = l - 1
      BY <1>5, <2>4, <2>5
    <3>2. a \in [1 .. Len(a) -> Entries]
      BY <3>1
    <3>3. \A n \in 1 .. l - 1 : a[n] = e[n + 1]
      BY <1>2, <1>5, <2>1, <2>4, <2>5
    <3> QED
      BY <3>1, <3>2, <3>3
  <2>7. Entered(w) = [n \in 1 .. l - 1 |-> Entry(w[n])]
    BY <2>3 DEF Entered
  <2>8. \A n \in 1 .. l - 1 : Entry(w[n]) = a[n]
    <3> SUFFICES ASSUME NEW n \in 1 .. l - 1 PROVE Entry(w[n]) = a[n]
      OBVIOUS
    <3>1. n + 1 \in 1 .. l
      BY <1>2
    <3> QED
      BY <1>2, <1>3, <2>3, <2>6, <3>1
  <2>9. [n \in 1 .. l - 1 |-> Entry(w[n])] = a
    BY <2>6, <2>8
  <2> QED
    BY <2>2, <2>4, <2>7, <2>9
<1> QED
  BY <1>1, <1>5, <1>6, <1>7, <1>8

\* What the tree of a queue answers is what is in the queue.
LEMMA AnswersQueue ==
    ASSUME IndexInv, live
    PROVE  {x \in Entries : FIFOFindEdgeCount(x[1], x[2], x[3])} = Window!Within(Entered(fifo))
<1>1. /\ fifo \in Seq(Keys) /\ Indexes(findex, fifo) /\ Keys \subseteq Int
      /\ DOMAIN fifo = 1 .. Len(fifo) /\ \A n \in 1 .. Len(fifo) : fifo[n] \in Keys
  BY KeysAreNumbers DEF IndexInv
<1>2. PICK b : Numbers(findex, fifo, b)
  BY <1>1 DEF Indexes
<1>3. ASSUME NEW k \in Int
      PROVE  jrb_find_gte_dbl(findex, k).fnd <=> \E n \in 1 .. Len(fifo) : fifo[n] = k
  <2>1. PICK r : r = jrb_find_gte_dbl(findex, k)
    OBVIOUS
  <2>2. CASE fifo = << >>
    <3>1. findex.parent[Nil] = Nil
      BY <1>1, <2>2 DEF Indexes, Bare
    <3>2. ~r.fnd
      BY <2>1, <3>1 DEF jrb_find_gte_dbl
    <3> QED
      BY <2>1, <2>2, <3>2
  <2>3. CASE fifo # << >>
    <3>1. PICK pos, lim : RedBlack(findex, pos, lim)
      BY <1>1, <2>3 DEF Indexes
    <3>2. r.fnd <=> \E m \in Leaves(findex) : findex.key[m] = k
      BY <2>1, <3>1, FindFacts
    <3>3. (\E m \in Leaves(findex) : findex.key[m] = k) <=> \E n \in 1 .. Len(fifo) : fifo[n] = k
      BY <1>2 DEF Numbers
    <3> QED
      BY <2>1, <3>2, <3>3
  <2> QED
    BY <2>2, <2>3
<1>4. ASSUME NEW x \in Entries
      PROVE  FIFOFindEdgeCount(x[1], x[2], x[3]) <=> x \in Window!Within(Entered(fifo))
  <2>1. PICK k : k = MakeEdgeCountKey(x[1], x[2], x[3])
    OBVIOUS
  <2>2. k \in Keys /\ k \in Int /\ Entry(k) = x
    BY <1>1, <2>1, EntryOfKey DEF Keys
  <2>3. FIFOFindEdgeCount(x[1], x[2], x[3]) <=> \E n \in 1 .. Len(fifo) : fifo[n] = k
    BY <1>3, <2>1, <2>2 DEF FIFOFindEdgeCount
  <2>4. \A n \in 1 .. Len(fifo) : fifo[n] = k <=> Entry(fifo[n]) = x
    BY <1>1, <2>1, <2>2, EntryOfKey
  <2>5. x \in Window!Within(Entered(fifo)) <=> \E n \in 1 .. Len(fifo) : Entry(fifo[n]) = x
    BY <1>1 DEF Window!Within, Entered
  <2> QED
    BY <2>3, <2>4, <2>5
<1>5. Window!Within(Entered(fifo)) \subseteq Entries
  BY <1>1, EntryOfKey DEF Window!Within, Entered
<1> QED
  BY <1>4, <1>5

\* The entries a search is told are taboo.
Answers == IF ~Running THEN {} ELSE {x \in Entries : FIFOFindEdgeCount(x[1], x[2], x[3])}

\* They are the entries of the queue, and there are none between two searches.
Answered ==
    /\ Answers = Window!Within(Entered(fifo))
    /\ ~live => Entered(fifo) = << >> /\ Answers = {}

\* The invariant gives both.
LEMMA WindowOfIndex ==
    ASSUME IndexInv
    PROVE  Answered
<1>1. CASE live
  BY <1>1, AnswersQueue DEF Answered, Answers, Running, IndexInv
<1>2. CASE ~live
  <2>1. fifo = << >>
    BY <1>2 DEF IndexInv
  <2>2. Entered(fifo) = << >>
    BY <2>1 DEF Entered
  <2>3. Window!Within(Entered(fifo)) = {}
    BY <2>2 DEF Window!Within
  <2> QED
    BY <1>2, <2>2, <2>3 DEF Answered, Answers, Running
<1> QED
  BY <1>1, <1>2

\* Every step of the list is one of the window, or leaves it as it is.
LEMMA WindowFollows ==
    ASSUME IndexInv, Answered, Answered', [Next]_vars
    PROVE  [Window!Next]_(Window!vars)
<1>1. Answers = Window!Within(Entered(fifo)) /\ Answers' = Window!Within(Entered(fifo'))
  BY DEF Answered, Entered, Window!Within
<1>2. /\ ~live => Entered(fifo) = << >> /\ Answers = {}
      /\ ~live' => Entered(fifo') = << >> /\ Answers' = {}
  BY DEF Answered, Entered
<1>3. CASE FIFOInitGraph
  <2>1. ~live /\ live' /\ fifo' = << >>
    BY <1>3 DEF FIFOInitGraph
  <2>2. Entered(fifo') = << >> /\ Answers' = {}
    BY <1>1, <2>1 DEF Entered, Window!Within
  <2>3. Window!Begin
    BY <1>2, <2>1, <2>2 DEF Window!Begin, Entered, Answers
  <2> QED
    BY <2>3 DEF Window!Next
<1>4. CASE FIFODelete
  <2>1. live /\ ~live' /\ fifo' = << >>
    BY <1>4 DEF FIFODelete
  <2>2. Window!End
    BY <1>2, <2>1 DEF Window!End, Entered, Answers
  <2> QED
    BY <2>2 DEF Window!Next
<1>5. ASSUME NEW x \in Entries, FIFOInsertEdgeCount(x[1], x[2], x[3])
      PROVE  Window!Next
  <2>1. live
    BY <1>5 DEF FIFOInsertEdgeCount
  <2>2. /\ live'
        /\ fifo' = Append(IF Len(fifo) < MaxSize THEN fifo ELSE Tail(fifo),
                          MakeEdgeCountKey(x[1], x[2], x[3]))
    BY <1>5, <2>1, IndexPut
  <2>3. /\ fifo \in Seq(Keys) /\ Len(fifo) \in Nat /\ Len(fifo) <= MaxSize
        /\ Len(fifo) >= MaxSize => fifo # << >> /\ Tail(fifo) \in Seq(Keys)
    BY TabooAssumption DEF IndexInv
  <2>4. Entered(fifo') = Window!Pushed(Entered(fifo), x)
    <3>1. CASE Len(fifo) < MaxSize
      BY <2>2, <2>3, <3>1, EnteredFacts DEF Window!Pushed
    <3>2. CASE ~(Len(fifo) < MaxSize)
      <4>1. PICK w : w = Tail(fifo)
        OBVIOUS
      <4>2. fifo # << >> /\ w \in Seq(Keys)
        BY <2>3, <3>2, <4>1, TabooAssumption
      <4>3. Entered(w) = Tail(Entered(fifo))
        BY <2>3, <4>1, <4>2, EnteredFacts
      <4>4. Entered(fifo') = Append(Entered(w), x)
        BY <2>2, <3>2, <4>1, <4>2, EnteredFacts
      <4>5. Len(Entered(fifo)) = Len(fifo)
        BY <2>3, EnteredFacts
      <4> QED
        BY <3>2, <4>3, <4>4, <4>5 DEF Window!Pushed
    <3> QED
      BY <3>1, <3>2
  <2>5. Window!Put(x)
    BY <1>1, <2>1, <2>2, <2>4 DEF Window!Put, Entered, Answers
  <2> QED
    BY <2>5 DEF Window!Next
<1>6. CASE UNCHANGED vars
  <2>1. UNCHANGED Window!vars
    BY <1>6 DEF vars, Window!vars, Running, FIFOFindEdgeCount
  <2> QED
    BY <2>1
<1> QED
  BY <1>3, <1>4, <1>5, <1>6 DEF Next

\* With any memory that holds the list, a lookup answers for exactly the entries of the
\* last MaxSize inserts (fifo.c:412-512).
THEOREM TabooWindowKept == Spec => ImplementsWindow
<1>1. Init => Window!Init
  <2> SUFFICES ASSUME Init PROVE Window!Init
    OBVIOUS
  <2>1. ~live /\ fifo = << >> /\ live = FALSE
    BY DEF Init
  <2>2. [n \in DOMAIN fifo |-> Entry(fifo[n])] = << >>
    BY <2>1
  <2> QED
    BY <2>1, <2>2 DEF Window!Init, Running
<1>2. IndexInv => Answered
  BY WindowOfIndex
<1>3. IndexInv /\ Answered /\ Answered' /\ [Next]_vars => [Window!Next]_(Window!vars)
  BY WindowFollows
<1> QED
  BY <1>1, <1>2, <1>3, IndexAlways, PTL DEF Spec, ImplementsWindow, Window!Spec

-----------------------------------------------------------------------------
(* The list of the leaves *)

\* The leaves up to n.
UpTo(t, pos, n) == {m \in Leaves(t) : pos[m] <= pos[n]}

\* The nodes that a walk along the list meets, the head first.
Passed(t, N) == [i \in 0 .. N + 1 |-> Turns(t.flink, Nil, i)]

\* The list passes each leaf in its order, and comes back to the head.
LEMMA ListOrder ==
    ASSUME NEW t, NEW pos, NEW lim, RedBlack(t, pos, lim),
           IsFiniteSet(Leaves(t)), NEW N \in Nat, N = Cardinality(Leaves(t)), N >= 1,
           NEW e, e = Passed(t, N)
    PROVE  /\ \A i \in 1 .. N : e[i] \in Leaves(t) /\ Cardinality(UpTo(t, pos, e[i])) = i
           /\ e[N + 1] = Nil
<1>1. Shaped(t, pos, lim) /\ Listed(t, pos) /\ t \in Tree /\ Linked(t) /\ Healthy(t)
  BY DEF RedBlack, Shaped, Healthy
<1>2. e[0] = Nil /\ \A i \in 0 .. N : e[i + 1] = t.flink[e[i]]
  <2>1. /\ Turns(t.flink, Nil, 0) = Nil
        /\ \A c \in Nat : Turns(t.flink, Nil, c + 1) = t.flink[Turns(t.flink, Nil, c)]
    BY ZenonT(60), TurnsStep
  <2>2. 0 \in 0 .. N + 1 /\ \A i \in 0 .. N : i \in Nat /\ i \in 0 .. N + 1 /\ i + 1 \in 0 .. N + 1
    OBVIOUS
  <2> QED
    BY <2>1, <2>2 DEF Passed
<1>3. \A m \in Leaves(t) : pos[m] \in Int
  BY <1>1, NodeKinds DEF Listed
<1>4. ASSUME NEW a \in Leaves(t), NEW c, c = t.flink[a]
      PROVE  /\ c # Nil => c \in Leaves(t) /\ pos[a] < pos[c] /\ c \notin UpTo(t, pos, a)
                           /\ UpTo(t, pos, c) = UpTo(t, pos, a) \union {c}
             /\ UpTo(t, pos, a) # Leaves(t) => c # Nil
  <2>1. c = beside(t, a, Right)
    BY <1>4, Sides DEF beside, child
  <2>2. c # Nil => c \in Leaves(t) /\ pos[a] < pos[c]
    BY <1>1, <2>1, Sides DEF Listed, Beyond
  <2>3. \A m \in Leaves(t) : pos[a] < pos[m] => c # Nil /\ ~(pos[m] < pos[c])
    BY <1>1, <2>1, Sides DEF Listed, Beyond
  <2>4. \A m, n \in Leaves(t) : pos[m] = pos[n] => m = n
    BY <1>1 DEF Listed
  <2>5. ASSUME c # Nil PROVE UpTo(t, pos, c) = UpTo(t, pos, a) \union {c}
    <3>1. ASSUME NEW m \in Leaves(t)
          PROVE  m \in UpTo(t, pos, c) <=> m \in UpTo(t, pos, a) \union {c}
      BY <1>3, <2>2, <2>3, <2>4, <2>5 DEF UpTo
    <3>2. UpTo(t, pos, c) \subseteq Leaves(t) /\ UpTo(t, pos, a) \union {c} \subseteq Leaves(t)
      BY <2>2, <2>5 DEF UpTo
    <3> QED
      BY <3>1, <3>2
  <2>6. c # Nil => c \notin UpTo(t, pos, a)
    BY <1>3, <2>2 DEF UpTo
  <2>7. UpTo(t, pos, a) # Leaves(t) => c # Nil
    BY <1>3, <2>3 DEF UpTo
  <2> QED
    BY <2>2, <2>5, <2>6, <2>7
<1>5. /\ e[1] \in Leaves(t) /\ Cardinality(UpTo(t, pos, e[1])) = 1
  <2>1. e[1] = t.flink[Nil]
    <3>1. 0 \in 0 .. N /\ 0 + 1 = 1
      OBVIOUS
    <3> QED
      BY <1>2, <3>1
  <2>2. ~Bare(t)
    BY <1>1, FirstLeaf, FS_EmptySet
  <2>3. e[1] \in Leaves(t)
    BY <1>1, <2>1, <2>2, FirstLeaf
  <2>4. beside(t, e[1], Left) = Nil
    <3>1. beside(t, Nil, Right) = e[1] /\ Other(Right) = Left
      BY <2>1, Sides DEF beside, child
    <3> QED
      BY <1>1, <3>1, Sides DEF Listed
  <2>5. \A m \in Leaves(t) : ~(pos[m] < pos[e[1]])
    BY <1>1, <2>3, <2>4, Sides DEF Listed, Beyond
  <2>6. UpTo(t, pos, e[1]) = {e[1]}
    <3>1. \A m \in Leaves(t) : pos[m] = pos[e[1]] => m = e[1]
      BY <1>1, <2>3 DEF Listed
    <3>2. PICK a : a = e[1]
      OBVIOUS
    <3>3. a \in Leaves(t)
      BY <2>3, <3>2
    <3>4. ASSUME NEW m \in Leaves(t) PROVE pos[m] <= pos[a] <=> m = a
      <4>1. pos[m] \in Int /\ pos[a] \in Int /\ ~(pos[m] < pos[a]) /\ (pos[m] = pos[a] => m = a)
        BY <1>3, <2>5, <3>1, <3>2, <3>3
      <4> QED
        BY <4>1
    <3>5. UpTo(t, pos, a) = {a}
      BY <3>3, <3>4 DEF UpTo
    <3> QED
      BY <3>2, <3>5
  <2> QED
    BY <2>3, <2>6, FS_Singleton
<1>6. \A i \in 1 .. N : e[i] \in Leaves(t) /\ Cardinality(UpTo(t, pos, e[i])) = i
  <2> DEFINE wrong == {i \in 1 .. N :
                         ~(e[i] \in Leaves(t) /\ Cardinality(UpTo(t, pos, e[i])) = i)}
  <2> SUFFICES ASSUME wrong # {} PROVE FALSE
    OBVIOUS
  <2>1. PICK m \in wrong : \A l \in wrong : m <= l
    <3>1. wrong \in SUBSET Nat
      OBVIOUS
    <3> HIDE DEF wrong
    <3> QED
      BY <3>1, LeastNat
  <2>2. m \in 1 .. N /\ m # 1
    BY <1>5, <2>1
  <2>3. PICK k \in 1 .. N : m = k + 1 /\ k \in 0 .. N
    <3>1. m - 1 \in 1 .. N /\ m = (m - 1) + 1 /\ m - 1 \in 0 .. N
      BY <2>2
    <3> QED
      BY <3>1
  <2>4. k \notin wrong
    <3>1. ~(m <= k)
      BY <2>3
    <3> HIDE DEF wrong
    <3> QED
      BY <2>1, <3>1
  <2>5. PICK a, c : a = e[k] /\ c = e[m]
    OBVIOUS
  <2>6. a \in Leaves(t) /\ Cardinality(UpTo(t, pos, a)) = k /\ c = t.flink[a]
    BY <1>2, <2>3, <2>4, <2>5
  <2>7. k < N
    BY <2>2, <2>3
  <2>8. UpTo(t, pos, a) # Leaves(t)
    BY <2>6, <2>7
  <2>9. /\ c \in Leaves(t) /\ c \notin UpTo(t, pos, a)
        /\ UpTo(t, pos, c) = UpTo(t, pos, a) \union {c}
    BY <1>4, <2>6, <2>8
  <2>10. PICK A : A = UpTo(t, pos, a)
    OBVIOUS
  <2>11. IsFiniteSet(A)
    <3>1. A \in SUBSET Leaves(t)
      BY <2>10 DEF UpTo
    <3> QED
      BY <3>1, FS_Subset
  <2>12. Cardinality(A \union {c}) = Cardinality(A) + 1
    BY <2>9, <2>10, <2>11, FS_AddElement
  <2>13. Cardinality(UpTo(t, pos, c)) = m
    BY <2>3, <2>6, <2>9, <2>10, <2>12
  <2> QED
    BY <2>1, <2>5, <2>9, <2>13
<1>7. e[N + 1] = Nil
  <2>1. N \in 1 .. N /\ N \in 0 .. N
    OBVIOUS
  <2>2. PICK a, c : a = e[N] /\ c = e[N + 1]
    OBVIOUS
  <2>3. a \in Leaves(t) /\ Cardinality(UpTo(t, pos, a)) = N /\ c = t.flink[a]
    BY <1>2, <1>6, <2>1, <2>2
  <2>4. UpTo(t, pos, a) = Leaves(t)
    <3>1. UpTo(t, pos, a) \in SUBSET Leaves(t)
      BY DEF UpTo
    <3> QED
      BY <2>3, <3>1, FS_Subset
  <2>5. c = Nil
    BY <1>4, <2>3, <2>4
  <2> QED
    BY <2>2, <2>5
<1> QED
  BY <1>6, <1>7

\* There are as many leaves as the queue is long.
LEMMA LeavesCounted ==
    ASSUME NEW t, NEW q \in Seq(Int), Indexes(t, q)
    PROVE  IsFiniteSet(Leaves(t)) /\ Cardinality(Leaves(t)) = Len(q)
<1>1. PICK A, l : A = Leaves(t) /\ l = Len(q)
  OBVIOUS
<1>2. IsFiniteSet(A)
  <2>1. A \in SUBSET t.used
    BY <1>1 DEF Leaves
  <2> QED
    BY <2>1, IndexHealthy, FS_Subset
<1>3. PICK b : Numbers(t, q, b)
  BY DEF Indexes
<1>4. b \in Bijection(A, 1 .. l)
  <2>1. /\ b \in [A -> 1 .. l] /\ \A m, n \in A : b[m] = b[n] => m = n
        /\ \A c \in 1 .. l : \E m \in A : b[m] = c
    BY <1>1, <1>3 DEF Numbers
  <2> QED
    BY <2>1 DEF Bijection, Injection, Surjection, IsInjective
<1>5. Cardinality(1 .. l) = Cardinality(A)
  BY <1>2, <1>4, FS_Bijection DEF ExistsBijection
<1>6. l \in Nat /\ Cardinality(1 .. l) = l
  <2>1. l \in Nat
    BY <1>1
  <2>2. Cardinality(1 .. l) = IF 1 > l THEN 0 ELSE l - 1 + 1
    BY <2>1, FS_Interval
  <2> QED
    BY <2>1, <2>2
<1> QED
  BY <1>1, <1>2, <1>5, <1>6

\* The keys on the way e.
KeysOf(t, e, N) == [i \in 1 .. N |-> t.key[e[i]]]

\* The list of the tree has each key as often as the queue, and in order.
LEMMA ListHoldsQueue ==
    ASSUME NEW t, NEW q \in Seq(Int), q # << >>, Indexes(t, q), NEW N, N = Len(q),
           NEW e, e = Passed(t, N),
           NEW keys, keys = KeysOf(t, e, N)
    PROVE  /\ e[N + 1] = Nil
           /\ \A i, j \in 1 .. N : i <= j => keys[i] <= keys[j]
           /\ \A x : Times(keys, x) = Times(q, x)
<1>1. PICK pos, lim : RedBlack(t, pos, lim)
  BY DEF Indexes
<1>2. PICK b : Numbers(t, q, b)
  BY DEF Indexes
<1>3. /\ N \in Nat /\ N >= 1 /\ DOMAIN q = 1 .. N
      /\ IsFiniteSet(Leaves(t)) /\ Cardinality(Leaves(t)) = N
  BY LeavesCounted
<1>4. /\ \A i \in 1 .. N : e[i] \in Leaves(t) /\ Cardinality(UpTo(t, pos, e[i])) = i
      /\ e[N + 1] = Nil
  BY <1>1, <1>3, ListOrder
<1>5. DOMAIN keys = 1 .. N /\ \A i \in 1 .. N : keys[i] = t.key[e[i]]
  BY DEF KeysOf
<1>6. /\ \A m \in Leaves(t) : pos[m] \in Int /\ t.key[m] \in Int
      /\ \A m, n \in Leaves(t) : pos[m] < pos[n] => t.key[m] <= t.key[n]
  <2>1. t \in Tree /\ Listed(t, pos) /\ Sorted(t, pos)
    BY <1>1 DEF RedBlack, Shaped
  <2>2. Leaves(t) \subseteq Node /\ t.key \in [Node -> Int]
    BY <2>1, NodeKinds, TreeFields
  <2> QED
    BY <2>1, <2>2 DEF Listed, Sorted
<1>7. ASSUME NEW i \in 1 .. N, NEW j \in 1 .. N, i < j PROVE pos[e[i]] < pos[e[j]]
  <2> SUFFICES ASSUME ~(pos[e[i]] < pos[e[j]]) PROVE FALSE
    OBVIOUS
  <2>1. PICK m, n : m = e[i] /\ n = e[j]
    OBVIOUS
  <2>2. /\ m \in Leaves(t) /\ n \in Leaves(t) /\ pos[n] <= pos[m]
        /\ Cardinality(UpTo(t, pos, m)) = i /\ Cardinality(UpTo(t, pos, n)) = j
    <3>1. m \in Leaves(t) /\ n \in Leaves(t)
      BY <1>4, <2>1
    <3>2. Cardinality(UpTo(t, pos, m)) = i /\ Cardinality(UpTo(t, pos, n)) = j
      BY <1>4, <2>1
    <3>3. pos[m] \in Int /\ pos[n] \in Int /\ ~(pos[m] < pos[n])
      BY <1>6, <2>1, <3>1
    <3> QED
      BY <3>1, <3>2, <3>3
  <2>3. UpTo(t, pos, n) \in SUBSET UpTo(t, pos, m)
    BY <1>6, <2>2 DEF UpTo
  <2>4. IsFiniteSet(UpTo(t, pos, m))
    <3>1. UpTo(t, pos, m) \in SUBSET Leaves(t)
      BY DEF UpTo
    <3> QED
      BY <1>3, <3>1, FS_Subset
  <2>5. Cardinality(UpTo(t, pos, n)) <= Cardinality(UpTo(t, pos, m))
    BY <2>3, <2>4, FS_Subset
  <2> QED
    BY <1>7, <2>2, <2>5
<1>8. ASSUME NEW i \in 1 .. N, NEW j \in 1 .. N, i <= j PROVE keys[i] <= keys[j]
  <2>1. CASE i = j
    <3>1. keys[i] \in Int
      BY <1>4, <1>5, <1>6
    <3> QED
      BY <2>1, <3>1
  <2>2. CASE i < j
    BY <1>4, <1>5, <1>6, <1>7, <2>2
  <2> QED
    BY <1>3, <1>8, <2>1, <2>2
<1>9. \A i, j \in 1 .. N : e[i] = e[j] => i = j
  BY <1>4
<1>10. \A m \in Leaves(t) : \E i \in 1 .. N : e[i] = m
  <2>1. PICK f : f = [i \in 1 .. N |-> e[i]]
    OBVIOUS
  <2>2. f \in Injection(1 .. N, Leaves(t))
    <3>1. f \in [1 .. N -> Leaves(t)]
      BY <1>4, <2>1
    <3>2. DOMAIN f = 1 .. N /\ \A i, j \in 1 .. N : f[i] = f[j] => i = j
      BY <1>9, <2>1
    <3> QED
      BY <3>1, <3>2 DEF Injection, IsInjective
  <2>3. Cardinality(1 .. N) = Cardinality(Leaves(t))
    <3>1. Cardinality(1 .. N) = IF 1 > N THEN 0 ELSE N - 1 + 1
      BY <1>3, FS_Interval
    <3> QED
      BY <1>3, <3>1
  <2>4. f \in Surjection(1 .. N, Leaves(t))
    BY <1>3, <2>2, <2>3, FS_Injection
  <2> QED
    BY <2>1, <2>4 DEF Surjection
<1>11. ASSUME NEW x PROVE Times(keys, x) = Times(q, x)
  <2>1. PICK S, T : S = {i \in 1 .. N : keys[i] = x} /\ T = {i \in 1 .. N : q[i] = x}
    OBVIOUS
  <2>2. Times(keys, x) = Cardinality(S) /\ Times(q, x) = Cardinality(T)
    BY <1>3, <1>5, <2>1 DEF Times
  <2>3. PICK g : g = [i \in S |-> b[e[i]]]
    OBVIOUS
  <2>4. ASSUME NEW i \in S PROVE g[i] \in T
    <3>1. i \in 1 .. N /\ t.key[e[i]] = x /\ e[i] \in Leaves(t)
      BY <1>4, <1>5, <2>1
    <3>2. b[e[i]] \in 1 .. N /\ q[b[e[i]]] = x
      BY <1>2, <3>1 DEF Numbers
    <3> QED
      BY <2>1, <2>3, <3>2
  <2>5. ASSUME NEW i \in S, NEW j \in S, g[i] = g[j] PROVE i = j
    <3>1. i \in 1 .. N /\ j \in 1 .. N /\ b[e[i]] = b[e[j]]
      BY <2>1, <2>3, <2>5
    <3>2. e[i] \in Leaves(t) /\ e[j] \in Leaves(t)
      BY <1>4, <3>1
    <3>3. e[i] = e[j]
      BY <1>2, <3>1, <3>2 DEF Numbers
    <3> QED
      BY <1>9, <3>1, <3>3
  <2>6. ASSUME NEW c \in T PROVE \E i \in S : g[i] = c
    <3>1. c \in 1 .. N /\ q[c] = x
      BY <2>1
    <3>2. PICK m \in Leaves(t) : b[m] = c
      BY <1>2, <3>1 DEF Numbers
    <3>3. PICK i \in 1 .. N : e[i] = m
      BY <1>10
    <3>4. t.key[m] = x
      BY <1>2, <3>1, <3>2 DEF Numbers
    <3>5. i \in S
      BY <1>5, <2>1, <3>3, <3>4
    <3> QED
      BY <2>3, <3>2, <3>3, <3>5
  <2>7. g \in Bijection(S, T)
    <3>1. g \in [S -> T]
      BY <2>3, <2>4
    <3> QED
      BY <2>5, <2>6, <3>1 DEF Bijection, Injection, Surjection, IsInjective
  <2>8. IsFiniteSet(S)
    <3>1. S \in SUBSET (1 .. N) /\ IsFiniteSet(1 .. N)
      BY <1>3, <2>1, FS_Interval
    <3> QED
      BY <3>1, FS_Subset
  <2>9. Cardinality(T) = Cardinality(S)
    BY <2>7, <2>8, FS_Bijection DEF ExistsBijection
  <2> QED
    BY <2>2, <2>9
<1> QED
  BY <1>4, <1>8, <1>11

\* The index has each key as often as the queue, in order, and no other node
\* (fifo.c:450-481).
THEOREM TabooHoldsQueue == Spec => []IndexHoldsQueue
<1>1. IndexInv => IndexHoldsQueue
  <2> SUFFICES ASSUME IndexInv, Running PROVE IndexHoldsQueue
    BY DEF IndexHoldsQueue
  <2>1. PICK t, q, N : t = findex /\ q = fifo /\ N = Len(q)
    OBVIOUS
  <2>2. /\ q \in Seq(Int) /\ Indexes(t, q) /\ fcount = N /\ N \in Nat
        /\ DOMAIN q = 1 .. N
    <3>1. fifo \in Seq(Int)
      <4>1. Keys \subseteq Int /\ fifo \in Seq(Keys)
        BY KeysAreNumbers DEF IndexInv
      <4> QED
        BY <4>1, SeqWider
    <3> QED
      BY <2>1, <3>1 DEF IndexInv, Running
  <2>3. PICK e : e = Passed(t, N)
    OBVIOUS
  <2>4. PICK keys : keys = KeysOf(t, e, N)
    OBVIOUS
  <2>5. /\ \A i \in 1 .. N : Leaf(i) = e[i]
        /\ Leaf(N + 1) = e[N + 1]
    BY <2>1, <2>2, <2>3 DEF Leaf, Passed
  <2>6. [i \in 1 .. fcount |-> findex.key[Leaf(i)]] = keys
    BY <2>1, <2>2, <2>4, <2>5 DEF KeysOf
  <2>7. /\ e[N + 1] = Nil
        /\ \A i, j \in 1 .. N : i <= j => keys[i] <= keys[j]
        /\ \A i \in 1 .. N : Times(keys, q[i]) = Times(q, q[i])
        /\ Cardinality(t.used) = IF q = << >> THEN 1 ELSE 2 * N
    <3>1. CASE q = << >>
      <4>1. N = 0 /\ Bare(t)
        BY <2>1, <2>2, <3>1 DEF Indexes
      <4>2. e[1] = t.flink[Nil]
        <5>1. /\ Turns(t.flink, Nil, 0) = Nil
              /\ \A c \in Nat : Turns(t.flink, Nil, c + 1) = t.flink[Turns(t.flink, Nil, c)]
          BY ZenonT(60), TurnsStep
        <5>2. 0 \in Nat /\ 0 + 1 = 1 /\ 1 \in 0 .. N + 1
          BY <4>1
        <5>3. Turns(t.flink, Nil, 1) = t.flink[Nil]
          BY <5>1, <5>2
        <5> QED
          BY <2>3, <5>2, <5>3 DEF Passed
      <4>3. Cardinality(t.used) = 1
        BY <4>1, FS_Singleton DEF Bare
      <4>4. e[N + 1] = Nil
        BY <4>1, <4>2 DEF Bare
      <4> QED
        BY <3>1, <4>1, <4>3, <4>4
    <3>2. CASE q # << >>
      <4>1. /\ e[N + 1] = Nil
            /\ \A i, j \in 1 .. N : i <= j => keys[i] <= keys[j]
            /\ \A x : Times(keys, x) = Times(q, x)
        BY <2>1, <2>2, <2>3, <2>4, <3>2, ListHoldsQueue
      <4>2. Cardinality(t.used) = 2 * N
        BY <2>1, <2>2, <3>2 DEF Indexes
      <4> QED
        BY <3>2, <4>1, <4>2
    <3> QED
      BY <3>1, <3>2
  <2> QED
    BY SMTT(60), <2>1, <2>2, <2>5, <2>6, <2>7 DEF IndexHoldsQueue
<1> QED
  BY <1>1, IndexAlways, PTL

-----------------------------------------------------------------------------
(* The way up from a node *)

\* The nodes some number of turns away from n, and the ones as many turns away as there
\* are nodes.
Ever(f, n) == {Turns(f, n, i) : i \in Nat}
Soon(f, n) == {Turns(f, n, i) : i \in 0 .. Cardinality(Node)}

\* A walk in the memory has met all it meets after as many turns as there are nodes.
LEMMA EverSoon ==
    ASSUME NEW f \in [Node -> Node], NEW n \in Node
    PROVE  Ever(f, n) = Soon(f, n) /\ Ever(f, n) \subseteq Node
<1> DEFINE e == [k \in Nat |-> Turns(f, n, k)]
<1>1. e[0] = n /\ \A k \in Nat : e[k + 1] = f[e[k]]
  BY TurnsStep
<1>2. Ever(f, n) = {e[k] : k \in Nat} /\ Soon(f, n) = {e[k] : k \in 0 .. Cardinality(Node)}
  <2>1. \A k \in Nat : e[k] = Turns(f, n, k)
    OBVIOUS
  <2>2. Cardinality(Node) \in Nat
    BY NodeAssumption, FS_CardinalityType
  <2>3. \A k \in 0 .. Cardinality(Node) : k \in Nat
    BY <2>2
  <2> HIDE DEF e
  <2> QED
    BY <2>1, <2>3 DEF Ever, Soon
<1> HIDE DEF e
<1>3. PICK N \in Nat : N = Cardinality(Node)
  BY NodeAssumption, FS_CardinalityType
<1>4. \A k \in Nat : e[k] \in Node
  <2> DEFINE wrong == {k \in Nat : e[k] \notin Node}
  <2> SUFFICES ASSUME wrong # {} PROVE FALSE
    OBVIOUS
  <2>1. PICK m \in wrong : \A l \in wrong : m <= l
    <3>1. wrong \in SUBSET Nat
      OBVIOUS
    <3> HIDE DEF wrong
    <3> QED
      BY <3>1, LeastNat
  <2>2. m \in Nat /\ m # 0
    BY <1>1, <2>1
  <2>3. m - 1 \in Nat /\ (m - 1) + 1 = m /\ ~(m <= m - 1)
    BY <2>2
  <2>4. e[m - 1] \in Node
    BY <2>1, <2>3
  <2> QED
    BY <1>1, <2>1, <2>3, <2>4
<1>5. PICK i, j \in 0 .. N : i < j /\ e[i] = e[j]
  <2>1. PICK w : w = [k \in 0 .. N |-> e[k]]
    OBVIOUS
  <2>2. w \in [0 .. N -> Node]
    BY <1>4, <2>1
  <2>3. IsFiniteSet(0 .. N) /\ Cardinality(0 .. N) = N + 1
    BY FS_Interval
  <2>4. Cardinality(Node) < Cardinality(0 .. N)
    BY <1>3, <2>3
  <2>5. PICK a, b \in 0 .. N : a # b /\ w[a] = w[b]
    BY <2>2, <2>3, <2>4, NodeAssumption, FS_PigeonHole
  <2>6. e[a] = e[b] /\ (a < b \/ b < a)
    BY <2>1, <2>5
  <2> QED
    BY <2>6
<1>6. \A k \in Nat : \E l \in 0 .. j - 1 : e[k] = e[l]
  <2> DEFINE wrong == {k \in Nat : ~\E l \in 0 .. j - 1 : e[k] = e[l]}
  <2> SUFFICES ASSUME wrong # {} PROVE FALSE
    OBVIOUS
  <2>1. PICK m \in wrong : \A l \in wrong : m <= l
    <3>1. wrong \in SUBSET Nat
      OBVIOUS
    <3> HIDE DEF wrong
    <3> QED
      BY <3>1, LeastNat
  <2>2. m \in Nat /\ ~(m \in 0 .. j - 1) /\ j \in Nat /\ i \in Nat /\ i <= j - 1
    BY <1>5, <2>1
  <2>3. m - 1 \in Nat /\ (m - 1) + 1 = m /\ ~(m <= m - 1)
    BY <1>5, <2>2
  <2>4. PICK l \in 0 .. j - 1 : e[m - 1] = e[l]
    BY <2>1, <2>3
  <2>5. l \in Nat /\ e[m] = e[l + 1]
    <3>1. l \in Nat
      BY <2>2
    <3> QED
      BY <1>1, <2>3, <2>4, <3>1
  <2>6. l + 1 \in 0 .. j - 1 \/ l + 1 = j
    BY <2>2
  <2>7. i \in 0 .. j - 1
    BY <2>2
  <2> QED
    BY <1>5, <2>1, <2>5, <2>6, <2>7
<1>7. Ever(f, n) \subseteq Soon(f, n)
  <2> SUFFICES ASSUME NEW k \in Nat PROVE e[k] \in Soon(f, n)
    BY <1>2
  <2>1. PICK l \in 0 .. j - 1 : e[k] = e[l]
    BY <1>6
  <2>2. l \in 0 .. N
    BY <1>5
  <2> QED
    BY <1>2, <1>3, <2>1, <2>2
<1>8. Soon(f, n) \subseteq Ever(f, n)
  <2>1. \A k \in 0 .. N : k \in Nat
    OBVIOUS
  <2> QED
    BY <1>2, <1>3, <2>1
<1> QED
  BY <1>2, <1>4, <1>7, <1>8

\* The first turn.
LEMMA EverFirst ==
    ASSUME NEW f, NEW n
    PROVE  Ever(f, n) = {n} \union Ever(f, f[n])
<1> DEFINE e == [k \in Nat |-> Turns(f, n, k)]
           d == [k \in Nat |-> Turns(f, f[n], k)]
<1>1. /\ e[0] = n /\ \A k \in Nat : e[k + 1] = f[e[k]]
      /\ d[0] = f[n] /\ \A k \in Nat : d[k + 1] = f[d[k]]
  BY TurnsStep
<1>2. Ever(f, n) = {e[k] : k \in Nat} /\ Ever(f, f[n]) = {d[k] : k \in Nat}
  BY DEF Ever
<1> HIDE DEF e, d
<1>3. \A k \in Nat : d[k] = e[k + 1]
  <2> DEFINE wrong == {k \in Nat : d[k] # e[k + 1]}
  <2> SUFFICES ASSUME wrong # {} PROVE FALSE
    OBVIOUS
  <2>1. PICK m \in wrong : \A l \in wrong : m <= l
    <3>1. wrong \in SUBSET Nat
      OBVIOUS
    <3> HIDE DEF wrong
    <3> QED
      BY <3>1, LeastNat
  <2>2. m \in Nat /\ m # 0
    <3>1. 0 \in Nat /\ e[0 + 1] = f[e[0]]
      BY <1>1
    <3>2. d[0] = e[0 + 1]
      BY <1>1, <3>1
    <3> QED
      BY <2>1, <3>2
  <2>3. m - 1 \in Nat /\ (m - 1) + 1 = m /\ ~(m <= m - 1)
    BY <2>2
  <2>4. d[m - 1] = e[m]
    BY <2>1, <2>3
  <2>5. d[m] = f[d[m - 1]] /\ e[m + 1] = f[e[m]]
    BY <1>1, <2>2, <2>3
  <2> QED
    BY <2>1, <2>4, <2>5
<1>4. ASSUME NEW k \in Nat PROVE e[k] \in {n} \union {d[l] : l \in Nat}
  <2>1. CASE k = 0
    BY <1>1, <2>1
  <2>2. CASE k # 0
    <3>1. k - 1 \in Nat /\ (k - 1) + 1 = k
      BY <2>2
    <3> QED
      BY <1>3, <3>1
  <2> QED
    BY <2>1, <2>2
<1>5. ASSUME NEW k \in Nat PROVE d[k] \in {e[l] : l \in Nat}
  BY <1>3
<1>6. n \in {e[l] : l \in Nat}
  BY <1>1
<1> QED
  BY <1>2, <1>4, <1>5, <1>6

\* A set that a walk does not leave holds all it meets.
LEMMA EverWithin ==
    ASSUME NEW f, NEW S, NEW n \in S, \A s \in S : f[s] \in S
    PROVE  Ever(f, n) \subseteq S
<1> DEFINE e == [k \in Nat |-> Turns(f, n, k)]
<1>1. e[0] = n /\ \A k \in Nat : e[k + 1] = f[e[k]]
  BY TurnsStep
<1>2. Ever(f, n) = {e[k] : k \in Nat}
  BY DEF Ever
<1> HIDE DEF e
<1> DEFINE wrong == {k \in Nat : e[k] \notin S}
<1> SUFFICES ASSUME wrong # {} PROVE FALSE
  BY <1>2
<1>3. PICK m \in wrong : \A l \in wrong : m <= l
  <2>1. wrong \in SUBSET Nat
    OBVIOUS
  <2> HIDE DEF wrong
  <2> QED
    BY <2>1, LeastNat
<1>4. m \in Nat /\ m # 0
  BY <1>1, <1>3
<1>5. m - 1 \in Nat /\ (m - 1) + 1 = m /\ ~(m <= m - 1)
  BY <1>4
<1>6. e[m - 1] \in S
  BY <1>3, <1>5
<1> QED
  BY <1>1, <1>3, <1>5, <1>6

\* The nodes from n up to the root, and the black ones of them.
Up(t, n) == Ever(t.parent, n) \ {Nil}
\* The black nodes on the way.
Blacks(t, n) == {m \in Up(t, n) : ~t.red[m]}

\* A node is not above itself: the way up from its parent does not come back.
LEMMA UpFacts ==
    ASSUME NEW t, NEW pos, NEW lim, Shaped(t, pos, lim), NEW n \in Nodes(t)
    PROVE  /\ Up(t, n) \subseteq Node /\ n \in Node
           /\ t.root[n] => Up(t, n) = {n}
           /\ ~t.root[n] => /\ Up(t, n) = {n} \union Up(t, t.parent[n])
                            /\ n \notin Up(t, t.parent[n])
<1>1. /\ t \in Tree /\ Linked(t) /\ Ranked(t, Width(lim)) /\ Width(lim) \in [Node -> Int]
      /\ Nodes(t) \subseteq Node \ {Nil} /\ Inner(t) \subseteq Nodes(t) /\ n # Nil
      /\ t.parent \in [Node -> Node]
  BY WidthRanks, NodeKinds, TreeFields DEF Shaped, Ranked
<1>2. /\ t.parent[Nil] \in Nodes(t) /\ t.root[t.parent[Nil]]
      /\ \A m \in Nodes(t) :
            /\ t.root[m] => t.parent[m] = Nil /\ t.parent[Nil] = m
            /\ ~t.root[m] => /\ t.parent[m] \in Inner(t)
                             /\ child(t, t.parent[m], t.side[m]) = m
  BY <1>1 DEF Linked, HasPlace
<1>3. Up(t, n) \subseteq Node /\ n \in Node
  <2>1. n \in Node
    BY <1>1
  <2> QED
    BY <1>1, <2>1, EverSoon DEF Up
<1>4. Ever(t.parent, n) = {n} \union Ever(t.parent, t.parent[n])
  BY EverFirst
<1>5. ASSUME t.root[n] PROVE Up(t, n) = {n}
  <2>1. t.parent[n] = Nil /\ t.parent[Nil] = n
    BY <1>2, <1>5
  <2>2. \A m \in {n, Nil} : t.parent[m] \in {n, Nil}
    BY <2>1
  <2>3. Ever(t.parent, n) \subseteq {n, Nil}
    BY <2>2, EverWithin
  <2> QED
    BY <1>1, <1>4, <2>3 DEF Up
<1>6. ASSUME ~t.root[n]
      PROVE  Up(t, n) = {n} \union Up(t, t.parent[n]) /\ n \notin Up(t, t.parent[n])
  <2>1. PICK p : p = t.parent[n]
    OBVIOUS
  <2>2. p \in Inner(t) /\ p \in Nodes(t) /\ p \in Node /\ child(t, p, t.side[n]) = n
    BY <1>1, <1>2, <1>6, <2>1
  <2>3. Up(t, n) = {n} \union Up(t, p)
    BY <1>1, <1>4, <2>1 DEF Up
  <2>4. PICK W : W = Width(lim)
    OBVIOUS
  <2>5. \A m \in Nodes(t) : ~t.root[m] => W[m] < W[t.parent[m]]
    <3> SUFFICES ASSUME NEW m \in Nodes(t), ~t.root[m] PROVE W[m] < W[t.parent[m]]
      OBVIOUS
    <3>1. PICK q, s : q = t.parent[m] /\ s = t.side[m]
      OBVIOUS
    <3>2. q \in Inner(t) /\ child(t, q, s) = m /\ s \in Side
      BY <1>1, <1>2, <3>1, TreeFields
    <3> QED
      BY <1>1, <2>4, <3>1, <3>2 DEF Ranked
  <2>6. W[n] < W[p] /\ W \in [Node -> Int]
    BY <1>1, <1>6, <2>1, <2>4, <2>5
  <2>7. W[p] <= W[t.parent[Nil]]
    <3>1. PICK r : r = t.parent[Nil]
      OBVIOUS
    <3>2. r \in Nodes(t) /\ r \in Node /\ lim \in [Node -> [Side -> Int]] /\ Spans(t, pos, lim)
      BY <1>1, <1>2, <3>1 DEF Shaped, Spans
    <3>3. /\ ~Beyond(Left, lim[p][Left], lim[r][Left])
          /\ ~Beyond(Right, lim[p][Right], lim[r][Right])
      BY <2>2, <3>1, <3>2, Sides DEF Spans
    <3>4. /\ lim[p][Left] \in Int /\ lim[r][Left] \in Int
          /\ lim[p][Right] \in Int /\ lim[r][Right] \in Int
      BY <2>2, <3>2, Sides
    <3>5. lim[r][Left] <= lim[p][Left] /\ lim[p][Right] <= lim[r][Right]
      BY <3>3, <3>4, Sides DEF Beyond
    <3>6. /\ W[p] = lim[p][Right] - lim[p][Left]
          /\ W[r] = lim[r][Right] - lim[r][Left]
      BY <2>2, <2>4, <3>2 DEF Width
    <3> QED
      BY <3>1, <3>4, <3>5, <3>6
  <2>8. PICK S : S = {Nil} \union {m \in Nodes(t) : W[p] <= W[m]}
    OBVIOUS
  <2>9. ASSUME NEW m \in S PROVE t.parent[m] \in S
    <3>1. CASE m = Nil
      BY <1>2, <2>7, <2>8, <3>1
    <3>2. CASE m # Nil /\ t.root[m]
      BY <1>2, <2>8, <3>2
    <3>3. CASE m # Nil /\ ~t.root[m]
      <4>1. PICK q : q = t.parent[m]
        OBVIOUS
      <4>2. m \in Nodes(t) /\ W[p] <= W[m] /\ W[m] < W[q] /\ q \in Nodes(t)
        BY <1>1, <1>2, <2>5, <2>8, <3>3, <4>1
      <4>3. W[p] \in Int /\ W[m] \in Int /\ W[q] \in Int
        BY <1>1, <2>2, <2>6, <4>2
      <4> QED
        BY <2>8, <4>1, <4>2, <4>3
    <3> QED
      BY <3>1, <3>2, <3>3
  <2>10. p \in S
    BY <2>2, <2>6, <2>8
  <2>11. Ever(t.parent, p) \subseteq S
    BY <2>9, <2>10, EverWithin
  <2>12. n \notin S
    BY <1>1, <1>3, <2>2, <2>6, <2>8
  <2> QED
    BY <2>1, <2>3, <2>11, <2>12 DEF Up
<1> QED
  BY <1>3, <1>5, <1>6

\* As many black nodes above a node as are missing below it.
LEMMA BlacksAbove ==
    ASSUME NEW t, NEW pos, NEW lim, Shaped(t, pos, lim), NEW h, Heights(t, Red(t), h, Nil)
    PROVE  \E c \in Int : \A n \in Nodes(t) :
              Cardinality(Blacks(t, n)) \in Nat /\ h[n] \in Nat
              /\ Cardinality(Blacks(t, n)) + h[n] = c
<1>1. /\ t \in Tree /\ Linked(t) /\ Ranked(t, Width(lim)) /\ Width(lim) \in [Node -> Int]
      /\ Nodes(t) \subseteq Node \ {Nil} /\ Inner(t) \subseteq Nodes(t)
      /\ t.parent[Nil] \in Nodes(t) /\ t.root[t.parent[Nil]]
  BY WidthRanks, NodeKinds DEF Shaped, Ranked, Linked
<1>2. PICK r : r = t.parent[Nil]
  OBVIOUS
<1>3. PICK B : B = [n \in Nodes(t) |-> Cardinality(Blacks(t, n))]
  OBVIOUS
<1>4. \A n \in Nodes(t) : /\ IsFiniteSet(Blacks(t, n)) /\ B[n] \in Nat /\ h[n] \in Nat
                          /\ B[n] = Cardinality(Blacks(t, n))
  <2> SUFFICES ASSUME NEW n \in Nodes(t)
               PROVE  IsFiniteSet(Blacks(t, n)) /\ B[n] \in Nat /\ h[n] \in Nat
                      /\ B[n] = Cardinality(Blacks(t, n))
    OBVIOUS
  <2>1. Blacks(t, n) \in SUBSET Node
    BY UpFacts DEF Blacks
  <2>2. IsFiniteSet(Blacks(t, n))
    BY <2>1, NodeAssumption, FS_Subset
  <2>3. Cardinality(Blacks(t, n)) \in Nat
    BY <2>2, FS_CardinalityType
  <2>4. h[n] \in Nat
    BY <1>1 DEF Heights
  <2> QED
    BY <1>3, <2>2, <2>3, <2>4
<1>5. ASSUME NEW n \in Nodes(t), ~t.root[n], NEW p, p = t.parent[n]
      PROVE  p \in Nodes(t) /\ B[n] + h[n] = B[p] + h[p]
             /\ Width(lim)[n] < Width(lim)[p]
  <2>1. PICK s : s = t.side[n]
    OBVIOUS
  <2>2. p \in Inner(t) /\ p \in Nodes(t) /\ child(t, p, s) = n /\ s \in Side /\ n # Nil
    BY <1>1, <1>5, <2>1, TreeFields DEF Linked, HasPlace
  <2>3. h[p] = h[n] + (IF n \in Red(t) THEN 0 ELSE 1)
    <3>1. h[p] = h[n] + (IF n \in Red(t) THEN 0 ELSE 1) + (IF n = Nil THEN 1 ELSE 0)
      BY <2>2 DEF Heights
    <3> QED
      BY <1>4, <2>2, <3>1
  <2>4. Up(t, n) = {n} \union Up(t, p) /\ n \notin Up(t, p)
    BY <1>5, UpFacts
  <2>5. PICK A : A = Blacks(t, p)
    OBVIOUS
  <2>6. B[n] = B[p] + (IF n \in Red(t) THEN 0 ELSE 1)
    <3>1. CASE t.red[n]
      <4>1. Blacks(t, n) = A
        BY <2>4, <2>5, <3>1 DEF Blacks
      <4> QED
        BY <1>4, <2>2, <2>5, <3>1, <4>1 DEF Red
    <3>2. CASE ~t.red[n]
      <4>1. Blacks(t, n) = A \union {n} /\ n \notin A
        BY <2>4, <2>5, <3>2 DEF Blacks
      <4>2. Cardinality(A \union {n}) = Cardinality(A) + 1
        BY <1>4, <2>2, <2>5, <4>1, FS_AddElement
      <4>3. n \notin Red(t)
        BY <3>2 DEF Red
      <4> QED
        BY <1>4, <2>2, <2>5, <4>1, <4>2, <4>3
    <3> QED
      BY <3>1, <3>2
  <2>7. Width(lim)[n] < Width(lim)[p]
    BY <1>1, <2>2 DEF Ranked
  <2>8. B[n] \in Nat /\ B[p] \in Nat /\ h[n] \in Nat /\ h[p] \in Nat
    BY <1>4, <2>2
  <2> QED
    BY <2>2, <2>3, <2>6, <2>7, <2>8
<1>6. PICK W : W = Width(lim)
  OBVIOUS
<1>7. \A n \in Nodes(t) : W[n] \in Int /\ W[n] <= W[r]
  <2> SUFFICES ASSUME NEW n \in Nodes(t) PROVE W[n] \in Int /\ W[n] <= W[r]
    OBVIOUS
  <2>1. /\ lim \in [Node -> [Side -> Int]] /\ n \in Node /\ r \in Node
        /\ ~Beyond(Left, lim[n][Left], lim[r][Left])
        /\ ~Beyond(Right, lim[n][Right], lim[r][Right])
    BY <1>1, <1>2, Sides DEF Shaped, Spans
  <2>2. /\ lim[n][Left] \in Int /\ lim[r][Left] \in Int
        /\ lim[n][Right] \in Int /\ lim[r][Right] \in Int
    BY <2>1, Sides
  <2>3. lim[r][Left] <= lim[n][Left] /\ lim[n][Right] <= lim[r][Right]
    BY <2>1, <2>2, Sides DEF Beyond
  <2>4. /\ W[n] = lim[n][Right] - lim[n][Left]
        /\ W[r] = lim[r][Right] - lim[r][Left]
    BY <1>6, <2>1 DEF Width
  <2> QED
    BY <2>2, <2>3, <2>4
<1>8. ASSUME NEW n \in Nodes(t) PROVE B[n] + h[n] = B[r] + h[r]
  <2> DEFINE wrong == {d \in Nat : \E m \in Nodes(t) : /\ d = W[r] - W[m]
                                                       /\ B[m] + h[m] # B[r] + h[r]}
  <2> SUFFICES ASSUME B[n] + h[n] # B[r] + h[r] PROVE FALSE
    OBVIOUS
  <2>1. wrong # {}
    <3>1. W[r] - W[n] \in Nat
      BY <1>1, <1>2, <1>7
    <3> QED
      BY <3>1
  <2>2. PICK d \in wrong : \A l \in wrong : d <= l
    <3>1. wrong \in SUBSET Nat
      OBVIOUS
    <3> HIDE DEF wrong
    <3> QED
      BY <2>1, <3>1, LeastNat
  <2>3. PICK m \in Nodes(t) : d = W[r] - W[m] /\ B[m] + h[m] # B[r] + h[r]
    BY <2>2
  <2>4. ~t.root[m]
    <3>1. t.root[m] => m = r
      BY <1>1, <1>2 DEF Linked, HasPlace
    <3> QED
      BY <2>3, <3>1
  <2>5. PICK p : p = t.parent[m]
    OBVIOUS
  <2>6. p \in Nodes(t) /\ B[m] + h[m] = B[p] + h[p] /\ W[m] < W[p]
    BY <1>5, <1>6, <2>4, <2>5
  <2>7. PICK l : l = W[r] - W[p]
    OBVIOUS
  <2>8. W[r] \in Int /\ W[p] \in Int /\ W[m] \in Int /\ W[p] <= W[r]
    BY <1>1, <1>2, <1>7, <2>6
  <2>9. l \in Nat /\ ~(d <= l)
    BY <2>3, <2>6, <2>7, <2>8
  <2>10. l \in wrong
    BY <2>3, <2>6, <2>7, <2>9
  <2> HIDE DEF wrong
  <2> QED
    BY <2>2, <2>9, <2>10
<1>9. B[r] + h[r] \in Int
  <2>1. B[r] \in Nat /\ h[r] \in Nat
    BY <1>1, <1>2, <1>4
  <2> QED
    BY <2>1
<1> QED
  BY <1>4, <1>8, <1>9

\* The tree stays balanced, with any memory that holds the list: equally many black nodes
\* above each leaf and no two red ones in a row, but for a red root above two leaves
\* (jrb.c:306-515).
THEOREM TabooBalanced == Spec => []Balanced
<1>1. IndexInv => Balanced
  <2> SUFFICES ASSUME IndexInv, Running, fifo # << >> PROVE Balanced
    BY DEF Balanced
  <2>1. PICK t, q : t = findex /\ q = fifo
    OBVIOUS
  <2>2. q \in Seq(Int) /\ Indexes(t, q) /\ fcount = Len(q) /\ q # << >>
    <3>1. Keys \subseteq Int /\ fifo \in Seq(Keys)
      BY KeysAreNumbers DEF IndexInv
    <3>2. fifo \in Seq(Int)
      BY <3>1, SeqWider
    <3> QED
      BY <2>1, <3>2 DEF IndexInv, Running
  <2>3. PICK pos, lim : RedBlack(t, pos, lim)
    BY <2>2 DEF Indexes
  <2>4. PICK h : Heights(t, Red(t), h, Nil)
    BY <2>3 DEF RedBlack
  <2>5. /\ Shaped(t, pos, lim) /\ Linked(t) /\ t \in Tree /\ Reds(t, Red(t), Nil)
        /\ t.parent[Nil] \in Red(t) => Inner(t) \subseteq {t.parent[Nil]}
    BY <2>3 DEF RedBlack, Shaped
  <2>6. External \subseteq Leaves(t)
    <3>1. PICK N : N = Len(q) /\ N \in Nat /\ N >= 1
      BY <2>2
    <3>2. PICK e : e = Passed(t, N)
      OBVIOUS
    <3>3. IsFiniteSet(Leaves(t)) /\ Cardinality(Leaves(t)) = N
      BY <2>2, <3>1, LeavesCounted
    <3>4. \A i \in 1 .. N : e[i] \in Leaves(t)
      BY <2>3, <3>1, <3>2, <3>3, ListOrder
    <3>5. \A i \in 1 .. N : Leaf(i) = e[i]
      BY <2>1, <3>1, <3>2 DEF Leaf, Passed
    <3> QED
      BY <2>2, <3>1, <3>4, <3>5 DEF External
  <2>7. ASSUME NEW m \in External, NEW n \in External PROVE jrb_nblack(m) = jrb_nblack(n)
    <3>a. Shaped(t, pos, lim) /\ Heights(t, Red(t), h, Nil)
      BY <2>4, <2>5
    <3>b. \E c \in Int : \A a \in Nodes(t) :
             /\ Cardinality(Blacks(t, a)) \in Nat /\ h[a] \in Nat
             /\ Cardinality(Blacks(t, a)) + h[a] = c
      BY SMTT(60), <3>a, BlacksAbove
    <3>1. PICK c \in Int : \A a \in Nodes(t) :
             /\ Cardinality(Blacks(t, a)) \in Nat /\ h[a] \in Nat
             /\ Cardinality(Blacks(t, a)) + h[a] = c
      BY <3>b
    <3>2. ASSUME NEW a \in Leaves(t) PROVE jrb_nblack(a) = c
      <4>1. a \in Nodes(t) /\ a \in Node /\ h[a] = 0 /\ t.parent \in [Node -> Node]
        BY <2>4, <2>5, NodeKinds, TreeFields DEF Heights
      <4>2. Path(a) = Up(t, a)
        <5>1. Ever(t.parent, a) = Soon(t.parent, a)
          BY <4>1, EverSoon
        <5> QED
          BY <2>1, <5>1 DEF Path, Up, Soon
      <4>3. jrb_nblack(a) = Cardinality(Blacks(t, a))
        BY <2>1, <4>2 DEF jrb_nblack, Blacks
      <4> QED
        BY <3>1, <4>1, <4>3
    <3> QED
      BY <2>6, <2>7, <3>2
  <2>8. ASSUME NEW n \in Internal, findex.red[n]
        PROVE  ~findex.red[findex.flink[n]] /\ ~findex.red[findex.blink[n]]
    <3>1. n \in Inner(t) /\ t.red[n] /\ n \in Red(t)
      BY <2>1, <2>8 DEF Internal, Inner, Red, Nodes
    <3>2. ASSUME NEW s \in Side PROVE ~t.red[child(t, n, s)]
      <4>1. PICK c : c = child(t, n, s)
        OBVIOUS
      <4>2. c \in Nodes(t) /\ t.parent[c] = n /\ ~t.root[c] /\ c # Nil
        BY <2>5, <3>1, <4>1, NodeKinds DEF Linked, IsChild
      <4>3. c \notin Red(t)
        BY <2>5, <3>1, <4>2 DEF Reds
      <4> QED
        BY <4>1, <4>2, <4>3 DEF Red
    <3>3. child(t, n, Left) = t.flink[n] /\ child(t, n, Right) = t.blink[n]
      BY Sides DEF child
    <3> QED
      BY <2>1, <3>2, <3>3, Sides
  <2>9. ASSUME findex.red[Root] PROVE fcount = 2
    <3>1. PICK r : r = t.parent[Nil]
      OBVIOUS
    <3>2. r \in Red(t) /\ r \in Inner(t)
      BY <2>1, <2>4, <2>5, <2>9, <3>1 DEF Linked, Red, Root, Heights
    <3>3. Inner(t) = {r}
      BY <2>5, <3>1, <3>2
    <3>4. PICK L : L = Leaves(t)
      OBVIOUS
    <3>5. /\ IsFiniteSet(L) /\ Cardinality(L) = Len(q) /\ Len(q) \in Nat
          /\ Cardinality(t.used) = 2 * Len(q)
      BY <2>2, <3>4, LeavesCounted DEF Indexes
    <3>6. PICK A : A = L \union {r}
      OBVIOUS
    <3>7. t.used = A \union {Nil} /\ Nil \notin A /\ r \notin L
      <4>1. Nodes(t) = Inner(t) \union Leaves(t) /\ Inner(t) \intersect Leaves(t) = {}
        BY <2>5, NodeKinds
      <4>2. Nil \in t.used /\ Nodes(t) = t.used \ {Nil}
        BY <2>5 DEF Linked, Nodes
      <4> QED
        BY <3>3, <3>4, <3>6, <4>1, <4>2
    <3>8. IsFiniteSet(A) /\ Cardinality(A) = Len(q) + 1
      BY <3>5, <3>6, <3>7, FS_AddElement
    <3>9. Cardinality(t.used) = Len(q) + 2
      <4>1. Cardinality(A \union {Nil}) = Cardinality(A) + 1
        BY <3>7, <3>8, FS_AddElement
      <4> QED
        BY <3>5, <3>7, <3>8, <4>1
    <3> QED
      BY <2>2, <3>5, <3>9
  <2> QED
    BY <2>7, <2>8, <2>9 DEF Balanced
<1> QED
  BY <1>1, IndexAlways, PTL
=============================================================================
