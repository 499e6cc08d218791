------------------------- MODULE CliqueCount_proofs -------------------------
(***************************************************************************)
(* Proofs of the counting: for any nodes and any clique size, the count    *)
(* that is computed from the caches is the count of the flipped graph, as  *)
(* long as no two cliques have one key.                                    *)
(***************************************************************************)
EXTENDS CliqueCountProps, FiniteSetTheorems, SequenceTheorems, WellFoundedInduction, TLAPS

Both(c, edg) == edg[1] \in c /\ edg[2] \in c

\* No two cliques share a key.
KeysDiffer ==
    \A c, d \in SUBSET Nodes :
        Cardinality(c) = K /\ Cardinality(d) = K /\ Key(c) = Key(d) => c = d

-----------------------------------------------------------------------------
(* Finite sets of nodes *)

LEMMA NodeSets ==
    ASSUME NEW c \in SUBSET Nodes
    PROVE  c \subseteq Nat /\ IsFiniteSet(c) /\ Cardinality(c) \in Nat
BY CountAssumption, FS_Subset, FS_CardinalityType

LEMMA CliqueSets ==
    ASSUME NEW k, NEW h
    PROVE  /\ IsFiniteSet(Cliques(k, h))
           /\ Cardinality(Cliques(k, h)) \in Nat
<1>1. IsFiniteSet(SUBSET Nodes)
  BY CountAssumption, FS_SUBSET
<1>2. Cliques(k, h) \subseteq SUBSET Nodes
  BY DEF Cliques
<1> QED BY <1>1, <1>2, FS_Subset, FS_CardinalityType

\* A set of nodes that is not empty has a last one: the node with the fewest nodes
\* above it.
LEMMA HasLast ==
    ASSUME NEW c \in SUBSET Nodes, c # {}
    PROVE  \E n \in c : \A m \in c : m <= n
<1> DEFINE Above_(n) == {m \in c : m > n}
           R == StrictSubsetOrdering(c)
           T == {Above_(n) : n \in c}
<1>1. c \subseteq Nat /\ IsFiniteSet(c)
  BY NodeSets
<1>2. IsWellFoundedOn(R, FiniteSubsetsOf(c))
  BY FS_StrictSubsetOrderingWellFounded
<1>3. T \subseteq FiniteSubsetsOf(c) /\ T # {}
  <2>1. ASSUME NEW n \in c PROVE Above_(n) \in FiniteSubsetsOf(c)
    <3>1. Above_(n) \in SUBSET c
      OBVIOUS
    <3>2. IsFiniteSet(Above_(n))
      BY <1>1, <3>1, FS_Subset
    <3> QED BY <3>1, <3>2 DEF FiniteSubsetsOf
  <2> QED BY <2>1
<1>4. PICK x \in T : \A y \in T : ~(<<y, x>> \in R)
  <2> HIDE DEF R, T
  <2> QED BY <1>2, <1>3, WFMin
<1>5. PICK n \in c : x = Above_(n)
  OBVIOUS
<1>6. SUFFICES ASSUME NEW m \in c, ~(m <= n) PROVE FALSE
  OBVIOUS
<1>7. m > n /\ m \in Nat /\ n \in Nat
  BY <1>1, <1>6
<1>8. Above_(m) \subseteq Above_(n) /\ m \in Above_(n) /\ m \notin Above_(m)
  <2>1. \A k \in c : k > m => k > n
    BY <1>1, <1>7
  <2>2. ~(m > m)
    BY <1>7
  <2> QED BY <1>7, <2>1, <2>2
<1>9. <<Above_(m), Above_(n)>> \in R
  BY <1>8 DEF StrictSubsetOrdering
<1> QED BY <1>4, <1>5, <1>9

\* A set of two nodes or more has two in order.
LEMMA TwoNodes ==
    ASSUME NEW c \in SUBSET Nodes, Cardinality(c) >= 2
    PROVE  \E m, n \in c : m < n
<1>1. c \subseteq Nat /\ IsFiniteSet(c) /\ Cardinality(c) \in Nat
  BY NodeSets
<1>2. c # {}
  BY <1>1, FS_EmptySet
<1>3. PICK a \in c : TRUE
  BY <1>2
<1>4. IsFiniteSet(c \ {a}) /\ Cardinality(c \ {a}) = Cardinality(c) - 1
  BY <1>1, <1>3, FS_RemoveElement
<1>5. c \ {a} # {}
  BY <1>1, <1>4, FS_EmptySet
<1>6. PICK b \in c : b # a
  BY <1>5
<1> QED BY <1>1, <1>3, <1>6

LEMMA OneMore ==
    ASSUME NEW c \in SUBSET Nodes, NEW o \in Nodes, o \notin c
    PROVE  c \cup {o} \in SUBSET Nodes /\ Cardinality(c \cup {o}) = Cardinality(c) + 1
BY NodeSets, FS_AddElement

LEMMA OneLess ==
    ASSUME NEW c \in SUBSET Nodes, NEW o \in c
    PROVE  c \ {o} \in SUBSET Nodes /\ Cardinality(c \ {o}) = Cardinality(c) - 1
BY NodeSets, FS_RemoveElement

-----------------------------------------------------------------------------
(* Flipping an edge *)

LEMMA EdgeEnds ==
    ASSUME NEW edg \in Edges
    PROVE  /\ edg[1] \in Nodes /\ edg[2] \in Nodes
           /\ edg[1] \in Nat /\ edg[2] \in Nat /\ edg[1] < edg[2]
           /\ edg = <<edg[1], edg[2]>>
<1>1. PICK a \in Nodes, b \in Nodes : edg = <<a, b>> /\ a < b
  BY DEF Edges
<1>2. a \in Nat /\ b \in Nat
  BY CountAssumption
<1> QED BY <1>1, <1>2

LEMMA FlipOnce ==
    ASSUME NEW h \in Graph, NEW edg \in Edges
    PROVE  /\ Flipped(h, edg) \in Graph
           /\ Flipped(Flipped(h, edg), edg) = h
           /\ \A other \in Edges \ {edg} : Flipped(h, edg)[other] = h[other]
<1>1. h[edg] \in {0, 1} /\ 1 - (1 - h[edg]) = h[edg] /\ 1 - h[edg] \in {0, 1}
  BY DEF Graph, Color
<1>2. Flipped(h, edg) \in Graph
  BY <1>1 DEF Graph, Color, Flipped
<1>3. Flipped(Flipped(h, edg), edg) = h
  <2>1. Flipped(Flipped(h, edg), edg) \in Graph
    BY <1>1 DEF Graph, Color, Flipped
  <2>2. \A x \in Edges : Flipped(Flipped(h, edg), edg)[x] = h[x]
    BY <1>1 DEF Graph, Flipped
  <2> QED BY <2>1, <2>2 DEF Graph
<1>4. \A other \in Edges \ {edg} : Flipped(h, edg)[other] = h[other]
  BY DEF Graph, Flipped
<1> QED BY <1>2, <1>3, <1>4

LEMMA PairInEdges ==
    ASSUME NEW c \in SUBSET Nodes, NEW m \in c, NEW n \in c, m < n
    PROVE  <<m, n>> \in Edges
BY DEF Edges

\* A flip leaves alone the cliques that do not contain the edge.
LEMMA FlipColoured ==
    ASSUME NEW h \in Graph, NEW edg \in Edges, NEW c \in SUBSET Nodes, ~Both(c, edg),
           NEW col
    PROVE  Coloured(c, col, h) <=> Coloured(c, col, Flipped(h, edg))
<1>1. ASSUME NEW m \in c, NEW n \in c, m < n
      PROVE  Flipped(h, edg)[<<m, n>>] = h[<<m, n>>]
  <2>1. <<m, n>> \in Edges /\ <<m, n>> # edg
    BY <1>1, PairInEdges DEF Both
  <2> QED BY <2>1, FlipOnce
<1> QED BY <1>1 DEF Coloured

LEMMA FlipCliques ==
    ASSUME NEW h \in Graph, NEW edg \in Edges, NEW k, NEW c, ~Both(c, edg)
    PROVE  c \in Cliques(k, h) <=> c \in Cliques(k, Flipped(h, edg))
BY FlipColoured DEF Cliques

\* A clique of two nodes or more has one colour.
LEMMA OneColour ==
    ASSUME NEW c \in SUBSET Nodes, Cardinality(c) >= 2, NEW h, NEW a, NEW b,
           Coloured(c, a, h), Coloured(c, b, h)
    PROVE  a = b
BY TwoNodes DEF Coloured

-----------------------------------------------------------------------------
(* Types *)

\* What the locals of a call hold when it does not use them.
Idle ==
    /\ pc \in {"cache", "ready", "search"} => p = 0 /\ root = {} /\ counter = 0
    /\ pc \in {"cache", "ready"} => s = 0 /\ e = 0

LEMMA CacheEntry ==
    ASSUME TypeOK, NEW q \in DOMAIN cache_6
    PROVE  /\ q \in 1 .. Len(cache_6)
           /\ cache_6[q].nodes \in SUBSET Nodes /\ cache_6[q].color \in Color
<1>1. q \in 1 .. Len(cache_6) /\ cache_6[q] \in Entry
  BY LenProperties DEF TypeOK
<1> QED BY <1>1 DEF Entry

LEMMA InitType == Init => TypeOK /\ Idle
<1> SUFFICES ASSUME Init PROVE TypeOK /\ Idle
  OBVIOUS
<1>1. g \in Graph
  BY CountAssumption DEF Init
<1>2. cache_6 \in Seq(Entry) /\ Len(cache_6) = 0
  BY EmptySeq DEF Init
<1> QED BY <1>1, <1>2 DEF Init, TypeOK, Idle, PCs

LEMMA NextType == TypeOK /\ Idle /\ [Next]_vars => TypeOK' /\ Idle'
<1> SUFFICES ASSUME TypeOK, Idle, [Next]_vars PROVE TypeOK' /\ Idle'
  OBVIOUS
<1>l. Len(cache_6) \in Nat /\ DOMAIN cache_6 = 1 .. Len(cache_6)
  BY LenProperties DEF TypeOK
<1>1. CASE AddClique
  <2>1. PICK c \in Upcoming, col \in Color :
          /\ cache_6' = Append(cache_6, [nodes |-> c, color |-> col])
          /\ cache_7' = cache_7 \cup {c \cup {o} : o \in Extending(c, col)}
          /\ length_7' = length_7 + Cardinality(Extending(c, col))
    BY <1>1 DEF AddClique
  <2>2. c \in SUBSET Nodes
    BY DEF Upcoming, Cliques
  <2>3. [nodes |-> c, color |-> col] \in Entry
    BY <2>2 DEF Entry
  <2>4. cache_6' \in Seq(Entry) /\ Len(cache_6') = Len(cache_6) + 1
    BY <2>1, <2>3 DEF TypeOK
  <2>5. Extending(c, col) \in SUBSET Nodes
    BY DEF Extending
  <2>6. cache_7' \subseteq SUBSET Nodes /\ length_7' \in Nat
    BY <2>1, <2>2, <2>5, NodeSets DEF TypeOK
  <2>7. /\ pc = "cache" /\ pc' = pc /\ g' = g /\ edge' = edge /\ stop' = stop
        /\ kept' = kept /\ s' = s /\ e' = e /\ p' = p /\ root' = root
        /\ counter' = counter /\ result' = result
    BY <1>1 DEF AddClique, call, scan
  <2>8. s = 0 /\ e = 0 /\ p = 0
    BY <2>7 DEF Idle
  <2> QED BY <1>l, <2>4, <2>6, <2>7, <2>8 DEF TypeOK, Idle
<1>2. CASE CacheCreated
  BY <1>2, <1>l DEF CacheCreated, TypeOK, Idle, PCs, caches, call, scan
<1>3. ASSUME NEW edg \in Edges, Flip(edg) PROVE TypeOK' /\ Idle'
  <2>1. g' \in Graph
    BY <1>3, FlipOnce DEF Flip, TypeOK
  <2>2. cache_6' \in Seq(Entry) /\ Len(cache_6') = 0 /\ cache_6' = << >>
    BY <1>3, EmptySeq DEF Flip
  <2> QED BY <1>3, <2>1, <2>2 DEF Flip, TypeOK, Idle, PCs, call, scan
<1>4. ASSUME NEW edg \in Edges, NEW st \in Stops, Call(edg, st) PROVE TypeOK' /\ Idle'
  <2>1. g' \in Graph
    BY <1>4, FlipOnce DEF Call, TypeOK
  <2>2. Broken(edg) \in SUBSET cache_7 /\ cache_6' = cache_6 /\ cache_7' = cache_7
        /\ length_7' = length_7
    BY <1>4 DEF Broken, Call, caches
  <2>3. kept' \in Int
    <3>1. cache_7 \in SUBSET SUBSET Nodes /\ IsFiniteSet(SUBSET Nodes)
      BY CountAssumption, FS_SUBSET DEF TypeOK
    <3>2. IsFiniteSet(cache_7)
      BY <3>1, FS_Subset
    <3>3. Cardinality(Broken(edg)) \in Nat
      BY <3>2, <2>2, FS_Subset, FS_CardinalityType
    <3> QED BY <1>4, <3>3 DEF Call, TypeOK
  <2>4. st \in Nat
    BY CountAssumption
  <2>5. cache_6 # << >> => Len(cache_6) > 0
    BY EmptySeq DEF TypeOK
  <2>6. /\ pc' \in {"search", "done"} /\ result' \in Int
        /\ s' = 0
        /\ e' \in {0, Len(cache_6) - 1}
    BY <1>4 DEF Call, TypeOK, Idle
  <2>7. s' \in 0 .. Len(cache_6') /\ e' \in -1 .. Len(cache_6')
        /\ (cache_6' # << >> => s' < Len(cache_6') /\ e' < Len(cache_6'))
    BY <1>l, <2>2, <2>5, <2>6
  <2>8. p' = 0 /\ root' = {} /\ counter' = 0
    BY <1>4 DEF Call, scan, Idle
  <2>9. edge' \in Edges /\ stop' \in Nat
    BY <1>4, <2>4 DEF Call
  <2> QED
    BY <2>1, <2>2, <2>3, <2>6, <2>7, <2>8, <2>9 DEF TypeOK, Idle, PCs
<1>5. CASE Bisect
  <2> DEFINE half == (s + e) \div 2
  <2>1. s \in Nat /\ e \in Int /\ s < e /\ e <= Len(cache_6)
        /\ pc = "search" /\ p = 0 /\ (cache_6 # << >> => e < Len(cache_6))
    BY <1>5, <1>l DEF Bisect, TypeOK, Idle
  <2>2. cache_6 # << >>
    BY <2>1, <1>l, EmptySeq
  <2>3. half \in s .. e - 1
    BY <2>1
  <2>4. (s' = half + 1 /\ e' = e) \/ (s' = s /\ e' = half)
    BY <1>5 DEF Bisect, Above
  <2>5. s' \in 0 .. Len(cache_6) - 1 /\ e' \in 0 .. Len(cache_6) - 1
    BY <2>1, <2>2, <2>3, <2>4, <1>l
  <2> QED BY <1>5, <1>l, <2>1, <2>5 DEF Bisect, TypeOK, Idle, PCs, caches, call, scan
<1>6. CASE Bisected
  BY <1>6, <1>l DEF Bisected, TypeOK, Idle, PCs, caches, call, scan
<1>7. CASE Scan
  <2>1. p' \in 0 .. s /\ counter' \in Nat
    BY <1>7, <1>l DEF Scan, TypeOK
  <2>2. root' \subseteq {Key(c) : c \in SUBSET Nodes}
    <3>1. CASE root' = root \cup {Key(Grown(p + 1))}
      <4>1. p + 1 \in DOMAIN cache_6
        BY <1>7, <1>l DEF Scan, TypeOK
      <4>2. cache_6[p + 1].nodes \in SUBSET Nodes
        BY <4>1, CacheEntry
      <4>3. Outer(cache_6[p + 1].nodes) \in Nodes
        BY <1>7, EdgeEnds DEF Outer, Scan, TypeOK
      <4>4. Grown(p + 1) \in SUBSET Nodes
        BY <4>2, <4>3 DEF Grown
      <4> QED BY <3>1, <4>4 DEF TypeOK
    <3> QED BY <1>7, <3>1 DEF Scan, TypeOK
  <2> QED BY <1>7, <1>l, <2>1, <2>2 DEF Scan, TypeOK, Idle, PCs, caches, call
<1>8. CASE Scanned
  <2>1. result' \in Int
    BY <1>8 DEF Scanned, TypeOK
  <2> QED BY <1>8, <2>1 DEF Scanned, TypeOK, Idle, PCs, caches, call, scan
<1>9. CASE Restore
  <2>1. edge \in Edges
    BY <1>9 DEF Restore, TypeOK
  <2>2. g' \in Graph
    BY <1>9, <2>1, FlipOnce DEF Restore, TypeOK
  <2>3. cache_6 # << >> => Len(cache_6) > 0
    BY EmptySeq DEF TypeOK
  <2> QED BY <1>9, <1>l, <2>2, <2>3 DEF Restore, TypeOK, Idle, PCs, caches
<1>10. CASE UNCHANGED vars
  BY <1>10 DEF vars, caches, call, scan, TypeOK, Idle
<1> QED
  BY <1>1, <1>2, <1>3, <1>4, <1>5, <1>6, <1>7, <1>8, <1>9, <1>10 DEF Next, Step

\* Every variable keeps its type, and the search and the scan stay within the cache
\* (list.c:89-184).
THEOREM TypeCorrect == Spec => [](TypeOK /\ Idle)
BY InitType, NextType, PTL DEF Spec

-----------------------------------------------------------------------------
(* The caches *)

\* The graph the caches were made of, or are being made of.
Base == IF pc \in {"cache", "ready"} THEN g ELSE Flipped(g, edge)

\* Clique x is clique c and a later node.
Continues(x, c, o) == (\A m \in c : m < o) /\ x = c \cup {o}

\* The cliques of the cache are cliques, in order, and none of those before them
\* is missing.
CacheInv ==
    /\ \A q \in DOMAIN cache_6 :
          /\ cache_6[q].nodes \in Cliques(K - 1, Base)
          /\ Coloured(cache_6[q].nodes, cache_6[q].color, Base)
    /\ \A q, r \in DOMAIN cache_6 :
          q < r => Before(cache_6[q].nodes, cache_6[r].nodes)
    /\ \A q \in DOMAIN cache_6, d \in Cliques(K - 1, Base) \ Cached :
          Before(cache_6[q].nodes, d)
    /\ \A x : x \in cache_7 <=>
          /\ x \in Cliques(K, Base)
          /\ \E c \in Cached, o \in Nodes : Continues(x, c, o)
    /\ length_7 = Cardinality(cache_7)
    /\ pc # "cache" => Cliques(K - 1, Base) \subseteq Cached

LEMMA BaseType == TypeOK => Base \in Graph
BY FlipOnce DEF TypeOK, Base, PCs

LEMMA SameEnd ==
    ASSUME NEW c \in SUBSET Nodes, NEW d \in SUBSET Nodes, NEW x,
           NEW o \in Nodes, NEW u \in Nodes, Continues(x, c, o), Continues(x, d, u)
    PROVE  o = u /\ c = d
<1>1. \A m \in c \cup d : m \in Nat
  BY CountAssumption
<1>2. o \in Nat /\ u \in Nat
  BY CountAssumption
<1>3. o = u
  BY <1>1, <1>2 DEF Continues
<1>4. o \notin c /\ o \notin d
  BY <1>1, <1>2, <1>3 DEF Continues
<1> QED BY <1>3, <1>4 DEF Continues

\* What AddClique adds for clique c are the cliques of K nodes that continue it.
LEMMA ExtendingCliques ==
    ASSUME TypeOK, NEW c \in Cliques(K - 1, g), NEW col \in Color, Coloured(c, col, g)
    PROVE  LET New == {c \cup {o} : o \in Extending(c, col)}
           IN  /\ \A x : x \in New <=>
                     x \in Cliques(K, g) /\ \E o \in Nodes : Continues(x, c, o)
               /\ IsFiniteSet(New) /\ Cardinality(New) = Cardinality(Extending(c, col))
<1> DEFINE Ext == Extending(c, col)
           New == {c \cup {o} : o \in Ext}
<1>c. c \in SUBSET Nodes /\ Cardinality(c) = K - 1 /\ K - 1 >= 2 /\ K \in Nat
  BY CountAssumption DEF Cliques
<1>n. c \subseteq Nat /\ Nodes \subseteq Nat
  BY <1>c, CountAssumption
<1>1. ASSUME NEW o \in Ext PROVE c \cup {o} \in Cliques(K, g) /\ Continues(c \cup {o}, c, o)
  <2>1. o \in Nodes /\ (\A m \in c : m < o) /\ Coloured(c \cup {o}, col, g)
    BY DEF Extending
  <2>2. o \notin c
    BY <1>n, <2>1
  <2>3. c \cup {o} \in SUBSET Nodes /\ Cardinality(c \cup {o}) = K
    BY <1>c, <2>1, <2>2, OneMore
  <2> QED BY <2>1, <2>3 DEF Cliques, Continues
<1>2. ASSUME NEW x \in Cliques(K, g), NEW o \in Nodes, Continues(x, c, o)
      PROVE  o \in Ext /\ x = c \cup {o}
  <2>1. PICK b \in Color : Coloured(x, b, g)
    BY DEF Cliques
  <2>2. Coloured(c, b, g)
    BY <1>2, <2>1 DEF Coloured, Continues
  <2>3. b = col
    BY <1>c, <2>2, OneColour
  <2> QED BY <1>2, <2>1, <2>3 DEF Continues, Extending
<1>3. IsFiniteSet(Ext) /\ IsFiniteSet(New) /\ Cardinality(New) = Cardinality(Ext)
  <2> DEFINE F == [o \in Ext |-> c \cup {o}]
  <2>1. IsFiniteSet(Ext) /\ Ext \in SUBSET Nodes
    BY NodeSets DEF Extending
  <2>2. \A o, u \in Ext : F[o] = F[u] => o = u
    <3> SUFFICES ASSUME NEW o \in Ext, NEW u \in Ext, c \cup {o} = c \cup {u} PROVE o = u
      OBVIOUS
    <3>1. Continues(c \cup {o}, c, o) /\ Continues(c \cup {o}, c, u) /\ o \in Nodes /\ u \in Nodes
      BY <1>1, <2>1
    <3> QED BY <1>c, <3>1, SameEnd
  <2>3. F \in [Ext -> New] /\ \A x \in New : \E o \in Ext : F[o] = x
    OBVIOUS
  <2>4. F \in Bijection(Ext, New)
    <3> HIDE DEF F, New, Ext
    <3> QED BY <2>2, <2>3 DEF Bijection, Injection, Surjection, IsInjective
  <2> HIDE DEF F, New, Ext
  <2> QED BY <2>1, <2>4, FS_Bijection DEF ExistsBijection
<1>4. Ext \subseteq Nodes
  BY DEF Extending
<1>5. ASSUME NEW x PROVE x \in New <=> x \in Cliques(K, g) /\ \E o \in Nodes : Continues(x, c, o)
  <2>1. x \in New => x \in Cliques(K, g) /\ \E o \in Nodes : Continues(x, c, o)
    BY <1>1, <1>4
  <2>2. ASSUME x \in Cliques(K, g), NEW o \in Nodes, Continues(x, c, o) PROVE x \in New
    BY <1>2, <2>2
  <2> QED BY <2>1, <2>2
<1> QED BY <1>3, <1>5

LEMMA InitCache == Init => CacheInv
<1> SUFFICES ASSUME Init PROVE CacheInv
  OBVIOUS
<1>1. DOMAIN cache_6 = {} /\ Cached = {} /\ cache_7 = {} /\ length_7 = 0 /\ pc = "cache"
  BY DEF Init, Cached
<1>2. Cardinality({}) = 0
  BY FS_EmptySet
<1> QED BY <1>1, <1>2 DEF CacheInv

LEMMA AddCliqueCache ==
    ASSUME TypeOK, CacheInv, AddClique
    PROVE  CacheInv'
<1>1. PICK c \in Upcoming, col \in Color :
        /\ Coloured(c, col, g)
        /\ cache_6' = Append(cache_6, [nodes |-> c, color |-> col])
        /\ cache_7' = cache_7 \cup {c \cup {o} : o \in Extending(c, col)}
        /\ length_7' = length_7 + Cardinality(Extending(c, col))
  BY DEF AddClique
<1> DEFINE L == Len(cache_6)
           New == {c \cup {o} : o \in Extending(c, col)}
<1>2. pc = "cache" /\ pc' = "cache" /\ g' = g /\ Base = g /\ Base' = g
  BY DEF AddClique, Base
<1>3. /\ c \in Cliques(K - 1, g) /\ c \notin Cached /\ c \in SUBSET Nodes
      /\ \A d \in (Cliques(K - 1, g) \ Cached) \ {c} : Before(c, d)
  BY DEF Upcoming, Cliques
<1>4. L \in Nat /\ DOMAIN cache_6 = 1 .. L /\ cache_6 \in Seq(Entry)
  BY LenProperties DEF TypeOK
<1>5. /\ DOMAIN cache_6' = 1 .. L + 1
      /\ \A q \in 1 .. L : cache_6'[q] = cache_6[q]
      /\ cache_6'[L + 1] = [nodes |-> c, color |-> col]
  <2>1. [nodes |-> c, color |-> col] \in Entry
    BY <1>3 DEF Entry
  <2> QED BY <1>1, <1>4, <2>1
<1>6. Cached' = Cached \cup {c}
  <2>1. 1 .. L + 1 = (1 .. L) \cup {L + 1}
    BY <1>4
  <2>2. Cached = {cache_6[q].nodes : q \in 1 .. L}
    BY <1>4 DEF Cached
  <2>3. Cached' = {cache_6'[q].nodes : q \in 1 .. L + 1}
    BY <1>5 DEF Cached
  <2> QED BY <1>5, <2>1, <2>2, <2>3
<1>7. \A q \in 1 .. L : cache_6[q].nodes \in Cached
  BY <1>4 DEF Cached
<1>8. \A q \in DOMAIN cache_6' :
         /\ cache_6'[q].nodes \in Cliques(K - 1, g)
         /\ Coloured(cache_6'[q].nodes, cache_6'[q].color, g)
  BY <1>1, <1>2, <1>3, <1>4, <1>5 DEF CacheInv
<1>9. \A q \in 1 .. L : Before(cache_6[q].nodes, c)
  BY <1>2, <1>3, <1>4 DEF CacheInv
<1>10. \A q, r \in DOMAIN cache_6' :
          q < r => Before(cache_6'[q].nodes, cache_6'[r].nodes)
  <2> SUFFICES ASSUME NEW q \in 1 .. L + 1, NEW r \in 1 .. L + 1, q < r
               PROVE  Before(cache_6'[q].nodes, cache_6'[r].nodes)
    BY <1>5
  <2>1. CASE r \in 1 .. L
    BY <1>4, <1>5, <2>1 DEF CacheInv
  <2>2. CASE r = L + 1
    BY <1>4, <1>5, <1>9, <2>2
  <2> QED BY <1>4, <2>1, <2>2
<1>11. \A q \in DOMAIN cache_6', d \in Cliques(K - 1, g) \ Cached' :
          Before(cache_6'[q].nodes, d)
  <2> SUFFICES ASSUME NEW q \in 1 .. L + 1, NEW d \in Cliques(K - 1, g), d \notin Cached, d # c
               PROVE  Before(cache_6'[q].nodes, d)
    BY <1>5, <1>6
  <2>1. CASE q \in 1 .. L
    BY <1>2, <1>4, <1>5, <2>1 DEF CacheInv
  <2>2. CASE q = L + 1
    BY <1>3, <1>5, <2>2
  <2> QED BY <1>4, <2>1, <2>2
<1>12. /\ \A x : x \in New <=>
             x \in Cliques(K, g) /\ \E o \in Nodes : Continues(x, c, o)
       /\ IsFiniteSet(New) /\ Cardinality(New) = Cardinality(Extending(c, col))
  BY <1>1, <1>3, ExtendingCliques
<1> HIDE DEF New
<1>13. \A x : x \in cache_7' <=>
          /\ x \in Cliques(K, g)
          /\ \E d \in Cached', o \in Nodes : Continues(x, d, o)
  <2>1. cache_7' = cache_7 \cup New
    BY <1>1 DEF New
  <2>2. \A x : x \in cache_7 <=>
          /\ x \in Cliques(K, g)
          /\ \E d \in Cached, o \in Nodes : Continues(x, d, o)
    BY <1>2 DEF CacheInv
  <2> QED BY <1>6, <1>12, <2>1, <2>2
<1>14. length_7' = Cardinality(cache_7')
  <2>1. cache_7 \in SUBSET Cliques(K, g) /\ IsFiniteSet(cache_7)
    <3>1. cache_7 \in SUBSET Cliques(K, g)
      BY <1>2 DEF CacheInv
    <3> QED BY <3>1, CliqueSets, FS_Subset
  <2>2. cache_7 \cap New = {}
    <3> SUFFICES ASSUME NEW x, x \in cache_7, x \in New PROVE FALSE
      OBVIOUS
    <3>1. PICK d \in Cached, u \in Nodes : Continues(x, d, u)
      BY DEF CacheInv
    <3>2. PICK o \in Nodes : Continues(x, c, o)
      BY <1>12
    <3>3. d \in SUBSET Nodes
      <4>1. PICK q \in DOMAIN cache_6 : d = cache_6[q].nodes
        BY DEF Cached
      <4> QED BY <4>1, CacheEntry
    <3> QED BY <1>3, <3>1, <3>2, <3>3, SameEnd
  <2>3. Cardinality(cache_7 \cup New) = Cardinality(cache_7) + Cardinality(New) - 0
    BY <1>12, <2>1, <2>2, FS_Union, FS_EmptySet
  <2>4. Cardinality(cache_7) \in Nat /\ Cardinality(New) \in Nat
    BY <1>12, <2>1, FS_CardinalityType
  <2>5. cache_7' = cache_7 \cup New
    BY <1>1 DEF New
  <2>6. length_7 = Cardinality(cache_7)
    BY DEF CacheInv
  <2>7. length_7' = length_7 + Cardinality(New)
    BY <1>1, <1>12
  <2> QED BY <2>3, <2>4, <2>5, <2>6, <2>7
<1> QED BY <1>2, <1>8, <1>10, <1>11, <1>13, <1>14 DEF CacheInv

LEMMA CacheNext == TypeOK /\ CacheInv /\ [Next]_vars => CacheInv'
<1> SUFFICES ASSUME TypeOK, CacheInv, [Next]_vars PROVE CacheInv'
  OBVIOUS
<1>1. CASE AddClique
  BY <1>1, AddCliqueCache
<1>2. CASE CacheCreated
  <2>1. /\ g' = g /\ cache_6' = cache_6 /\ cache_7' = cache_7 /\ length_7' = length_7
        /\ pc = "cache" /\ pc' = "ready" /\ Cliques(K - 1, g) \subseteq Cached
    BY <1>2 DEF CacheCreated, caches
  <2>2. Base = g /\ Base' = g /\ Cached' = Cached
    BY <2>1 DEF Base, Cached
  <2> QED BY <2>1, <2>2 DEF CacheInv
<1>3. ASSUME NEW edg \in Edges, Flip(edg) PROVE CacheInv'
  <2>1. DOMAIN cache_6' = {} /\ Cached' = {} /\ cache_7' = {} /\ length_7' = 0 /\ pc' = "cache"
    BY <1>3 DEF Flip, Cached
  <2>2. Cardinality({}) = 0
    BY FS_EmptySet
  <2> QED BY <2>1, <2>2 DEF CacheInv
\* A call does not change the caches, nor the graph they are about.
<1>4. ASSUME pc # "cache", pc' # "cache", UNCHANGED caches, Base' = Base PROVE CacheInv'
  <2>1. cache_6' = cache_6 /\ cache_7' = cache_7 /\ length_7' = length_7 /\ Cached' = Cached
    BY <1>4 DEF caches, Cached
  <2> QED BY <1>4, <2>1 DEF CacheInv
<1>5. ASSUME NEW edg \in Edges, NEW st \in Stops, Call(edg, st) PROVE CacheInv'
  <2>1. pc = "ready" /\ pc' \in {"search", "done"} /\ UNCHANGED caches
        /\ g' = Flipped(g, edg) /\ edge' = edg
    BY <1>5 DEF Call
  <2>2. Base = g /\ Base' = Flipped(g', edge')
    BY <2>1 DEF Base
  <2>3. g \in Graph
    BY DEF TypeOK
  <2> QED BY <1>4, <2>1, <2>2, <2>3, FlipOnce
<1>6. ASSUME pc \in {"search", "scan"}, pc' \in {"search", "scan", "done"},
             UNCHANGED <<g, edge, caches>>
      PROVE  CacheInv'
  BY <1>4, <1>6 DEF Base
<1>7. CASE Bisect
  BY <1>6, <1>7 DEF Bisect, call
<1>8. CASE Bisected
  BY <1>6, <1>8 DEF Bisected, call
<1>9. CASE Scan
  BY <1>6, <1>9 DEF Scan, call
<1>10. CASE Scanned
  BY <1>6, <1>10 DEF Scanned, call
<1>11. CASE Restore
  <2>1. pc = "done" /\ pc' = "ready" /\ UNCHANGED caches /\ g' = Flipped(g, edge)
    BY <1>11 DEF Restore
  <2> QED BY <1>4, <2>1 DEF Base
<1>12. CASE UNCHANGED vars
  BY <1>12 DEF vars, caches, call, CacheInv, Base, Cached
<1> QED
  BY <1>1, <1>2, <1>3, <1>5, <1>7, <1>8, <1>9, <1>10, <1>11, <1>12 DEF Next, Step

LEMMA CacheInvariant == Spec => [](TypeOK /\ Idle /\ CacheInv)
BY InitType, InitCache, NextType, CacheNext, PTL DEF Spec

\* A clique without one of its nodes is a clique.
LEMMA Subclique ==
    ASSUME NEW h, NEW x \in Cliques(K, h), NEW o \in x
    PROVE  x \ {o} \in Cliques(K - 1, h)
<1>1. x \in SUBSET Nodes /\ Cardinality(x) = K
  BY DEF Cliques
<1>2. PICK col \in Color : Coloured(x, col, h)
  BY DEF Cliques
<1>3. Coloured(x \ {o}, col, h)
  BY <1>2 DEF Coloured
<1> QED BY <1>1, <1>3, OneLess DEF Cliques

LEMMA CachedCliques ==
    ASSUME TypeOK, CacheInv, pc # "cache"
    PROVE  Cached = Cliques(K - 1, Base) /\ cache_7 = Cliques(K, Base)
<1>1. Cached = Cliques(K - 1, Base)
  <2>1. \A c \in Cached : c \in Cliques(K - 1, Base)
    BY DEF CacheInv, Cached
  <2> QED BY <2>1 DEF CacheInv
<1>2. ASSUME NEW x \in Cliques(K, Base) PROVE x \in cache_7
  <2>1. x \in SUBSET Nodes /\ Cardinality(x) = K
    BY DEF Cliques
  <2>2. x # {}
    BY <2>1, CountAssumption, FS_EmptySet
  <2>3. PICK o \in x : \A m \in x : m <= o
    BY <2>1, <2>2, HasLast
  <2>4. x \ {o} \in Cached
    BY <1>1, Subclique
  <2>5. Continues(x, x \ {o}, o)
    <3>1. \A m \in x : m \in Nat
      BY <2>1, CountAssumption
    <3> QED BY <2>3, <3>1 DEF Continues
  <2> QED BY <2>1, <2>4, <2>5 DEF CacheInv
<1>3. cache_7 \subseteq Cliques(K, Base)
  BY DEF CacheInv
<1> QED BY <1>1, <1>2, <1>3

LEMMA CacheDistinct ==
    ASSUME TypeOK, CacheInv
    PROVE  /\ \A q, r \in DOMAIN cache_6 : cache_6[q].nodes = cache_6[r].nodes => q = r
           /\ IsFiniteSet(Cached) /\ Cardinality(Cached) = Len(cache_6)
<1> DEFINE L == Len(cache_6)
           F == [q \in 1 .. L |-> cache_6[q].nodes]
<1>1. L \in Nat /\ DOMAIN cache_6 = 1 .. L
  BY LenProperties DEF TypeOK
<1>2. ASSUME NEW q \in 1 .. L, NEW r \in 1 .. L, cache_6[q].nodes = cache_6[r].nodes
      PROVE  q = r
  <2>1. ~(q < r) /\ ~(r < q)
    BY <1>1, <1>2 DEF CacheInv, Before
  <2> QED BY <1>1, <2>1
<1>3. Cached = {F[q] : q \in 1 .. L}
  BY <1>1 DEF Cached
<1>4. F \in Bijection(1 .. L, Cached)
  <2>1. \A q, r \in 1 .. L : F[q] = F[r] => q = r
    BY <1>2
  <2>2. F \in [1 .. L -> Cached] /\ \A x \in Cached : \E q \in 1 .. L : F[q] = x
    BY <1>3
  <2> HIDE DEF F, L
  <2>3. F \in Surjection(1 .. L, Cached)
    BY <2>2 DEF Surjection
  <2>4. F \in Injection(1 .. L, Cached)
    BY <2>1, <2>2 DEF Injection, IsInjective
  <2> QED BY <2>3, <2>4 DEF Bijection
<1>5. IsFiniteSet(1 .. L) /\ Cardinality(1 .. L) = L
  <2> HIDE DEF L
  <2>1. /\ IsFiniteSet(1 .. L)
        /\ Cardinality(1 .. L) = IF 1 > L THEN 0 ELSE L - 1 + 1
    BY <1>1, FS_Interval
  <2> QED BY <1>1, <2>1
<1> QED
  <2> HIDE DEF F, L
  <2>1. IsFiniteSet(Cached) /\ Cardinality(Cached) = L
    BY <1>4, <1>5, FS_Bijection DEF ExistsBijection
  <2> QED BY <1>1, <1>2, <2>1 DEF L

\* CachesExact, for any nodes and any size of clique: whatever calls were made, the
\* caches hold the cliques of the graph between calls (clique_count.c:131-184).
THEOREM CachesAreExact == Spec => []CachesExact
<1>1. TypeOK /\ CacheInv => CachesExact
  <2> SUFFICES ASSUME TypeOK, CacheInv, pc = "ready" PROVE CachesExact
    BY DEF CachesExact
  <2>1. Base = g
    BY DEF Base
  <2>2. Cached = Cliques(K - 1, g) /\ cache_7 = Cliques(K, g)
    BY <2>1, CachedCliques
  <2>3. Cardinality(Cached) = Len(cache_6)
    BY CacheDistinct
  <2>4. length_7 = Cardinality(cache_7)
    BY DEF CacheInv
  <2> QED BY <2>2, <2>3, <2>4 DEF CachesExact
<1> QED BY <1>1, CacheInvariant, PTL

-----------------------------------------------------------------------------
(* The count *)

Untouched(h, edg) == {x \in Cliques(K, h) : ~Both(x, edg)}
Through(h, edg) == {x \in Cliques(K, h) : Both(x, edg)}

LEMMA Split ==
    ASSUME NEW h, NEW edg
    PROVE  /\ IsFiniteSet(Untouched(h, edg)) /\ IsFiniteSet(Through(h, edg))
           /\ Cardinality(Untouched(h, edg)) \in Nat /\ Cardinality(Through(h, edg)) \in Nat
           /\ Cardinality(Cliques(K, h))
                = Cardinality(Untouched(h, edg)) + Cardinality(Through(h, edg))
<1> DEFINE U == Untouched(h, edg)
           T == Through(h, edg)
<1>1. U \subseteq Cliques(K, h) /\ T \subseteq Cliques(K, h)
      /\ U \cup T = Cliques(K, h) /\ U \cap T = {}
  BY DEF Untouched, Through
<1> HIDE DEF U, T
<1>2. IsFiniteSet(U) /\ IsFiniteSet(T) /\ Cardinality(U) \in Nat /\ Cardinality(T) \in Nat
  BY <1>1, CliqueSets, FS_Subset, FS_CardinalityType
<1>3. Cardinality(U \cup T) = Cardinality(U) + Cardinality(T) - Cardinality({})
  BY <1>1, <1>2, FS_Union
<1>4. Cardinality({}) = 0
  BY FS_EmptySet
<1>5. Cardinality(Cliques(K, h)) = Cardinality(U) + Cardinality(T)
  <2>1. Cardinality(Cliques(K, h)) = Cardinality(U \cup T)
    BY <1>1
  <2> QED BY <1>2, <1>3, <1>4, <2>1
<1> QED BY <1>2, <1>5 DEF U, T

\* A flip leaves the cliques without the edge, takes those with it and makes others.
LEMMA FlipCount ==
    ASSUME NEW h \in Graph, NEW edg \in Edges
    PROVE  Cardinality(Cliques(K, Flipped(h, edg)))
             = Cardinality(Untouched(h, edg)) + Cardinality(Through(Flipped(h, edg), edg))
<1>1. Untouched(Flipped(h, edg), edg) = Untouched(h, edg)
  BY FlipCliques DEF Untouched
<1> QED BY <1>1, Split

\* The new cliques that the first n cliques of the cache grow to.
Seen(n) == {Grown(q) : q \in {r \in 1 .. n : Grows(r)}}

\* What a call knows when it searches and when it scans.
CountInv ==
    /\ pc \in {"search", "scan"} =>
          kept = Cardinality(Untouched(Base, edge)) /\ kept <= stop
    /\ pc = "search" =>
          \A q \in DOMAIN cache_6 :
              e < q /\ q < Len(cache_6) => \A n \in cache_6[q].nodes : n > edge[2]
    /\ pc = "scan" =>
          /\ \A q \in DOMAIN cache_6 :
                s < q /\ q < Len(cache_6) => \A n \in cache_6[q].nodes : n > edge[2]
          /\ root = {Key(x) : x \in Seen(p)}
          /\ IsFiniteSet(root) /\ counter = Cardinality(root)

LEMMA GrownCliques ==
    ASSUME TypeOK, CacheInv, pc \in {"search", "scan"}, NEW q \in DOMAIN cache_6, Grows(q)
    PROVE  Grown(q) \in Through(g, edge)
<1> DEFINE c == cache_6[q].nodes
           col == cache_6[q].color
           o == Outer(c)
<1>1. c \in SUBSET Nodes /\ col \in Color /\ c \in Cliques(K - 1, Base)
      /\ Coloured(c, col, Base) /\ Cardinality(c) = K - 1
  BY CacheEntry DEF CacheInv, Cliques
<1>2. edge \in Edges /\ g \in Graph /\ Base = Flipped(g, edge)
  BY DEF TypeOK, Base
<1>3. o \in Nodes /\ o \notin c /\ ~Both(c, edge) /\ Both(c \cup {o}, edge)
  BY <1>2, EdgeEnds DEF Grows, Outer, Both
<1>4. Coloured(c, col, g)
  BY <1>1, <1>2, <1>3, FlipColoured
<1>5. \A n \in c : g[Edge(n, o)] = col
  BY DEF Grows
<1>6. Coloured(c \cup {o}, col, g)
  <2> SUFFICES ASSUME NEW m \in c \cup {o}, NEW n \in c \cup {o}, m < n
               PROVE  g[<<m, n>>] = col
    BY DEF Coloured
  <2>1. m \in Nat /\ n \in Nat
    BY <1>1, <1>3, CountAssumption
  <2>2. CASE m \in c /\ n \in c
    BY <1>4, <2>2 DEF Coloured
  <2>3. CASE m \in c /\ n = o
    BY <1>5, <2>3 DEF Edge
  <2>4. CASE m = o /\ n \in c
    <3>1. ~(n < o)
      BY <2>1, <2>4
    <3> QED BY <1>5, <2>4, <3>1 DEF Edge
  <2> QED BY <2>1, <2>2, <2>3, <2>4
<1>7. c \cup {o} \in SUBSET Nodes /\ Cardinality(c \cup {o}) = K
  <2> HIDE DEF c, o
  <2>1. c \cup {o} \in SUBSET Nodes /\ Cardinality(c \cup {o}) = Cardinality(c) + 1
    BY <1>1, <1>3, OneMore
  <2> QED BY <1>1, <2>1, CountAssumption
<1> QED BY <1>1, <1>3, <1>6, <1>7 DEF Grown, Through, Cliques

\* A clique through the edge is what either of its two parts without one end grows to.
LEMMA PartGrows ==
    ASSUME TypeOK, CacheInv, pc \in {"search", "scan"}, NEW x \in Through(g, edge),
           NEW o \in {edge[1], edge[2]}, NEW q \in DOMAIN cache_6,
           cache_6[q].nodes = x \ {o}
    PROVE  Grows(q) /\ Grown(q) = x
<1> DEFINE c == cache_6[q].nodes
           col == cache_6[q].color
<1>1. edge \in Edges /\ g \in Graph /\ Base = Flipped(g, edge)
  BY DEF TypeOK, Base
<1>2. edge[1] \in Nat /\ edge[2] \in Nat /\ edge[1] < edge[2]
  BY <1>1, EdgeEnds
<1>3. x \in SUBSET Nodes /\ x \in Cliques(K, g) /\ Both(x, edge)
  BY DEF Through, Cliques
<1>4. Outer(c) = o /\ (edge[1] \in c) # (edge[2] \in c) /\ ~Both(c, edge) /\ o \in x
  BY <1>2, <1>3 DEF Outer, Both
<1>5. \E n \in c : n >= edge[1]
  <2>1. edge[1] \in c \/ edge[2] \in c
    BY <1>4
  <2> QED BY <1>2, <2>1
<1>6. PICK b \in Color : Coloured(x, b, g)
  BY <1>3 DEF Cliques
<1>7. c \in SUBSET Nodes /\ Cardinality(c) >= 2 /\ Coloured(c, col, Base)
  <2>1. c \in Cliques(K - 1, Base)
    BY DEF CacheInv
  <2>2. c \in SUBSET Nodes /\ Cardinality(c) = K - 1
    BY <2>1 DEF Cliques
  <2>3. Coloured(c, col, Base)
    BY DEF CacheInv
  <2>4. K \in Nat /\ K >= 3
    BY CountAssumption
  <2> QED
    <3> HIDE DEF c
    <3> QED BY <2>2, <2>3, <2>4
<1>8. Coloured(c, col, g)
  BY <1>1, <1>4, <1>7, FlipColoured
<1>9. Coloured(c, b, g)
  BY <1>6 DEF Coloured
<1>10. b = col
  BY <1>7, <1>8, <1>9, OneColour
<1>11. ASSUME NEW n \in c PROVE g[Edge(n, o)] = col
  <2>1. n \in x /\ n # o /\ n \in Nat /\ o \in Nat
    BY <1>2, <1>3, CountAssumption
  <2>2. n < o \/ o < n
    BY <2>1
  <2> QED BY <1>4, <1>6, <1>10, <2>1, <2>2 DEF Coloured, Edge
<1>12. c \cup {o} = x
  BY <1>4
<1> QED BY <1>4, <1>5, <1>11, <1>12 DEF Grows, Grown

\* The clique that binary_search_first does not look at is never missed: each new
\* clique has two parts in the cache, and both hold a node that is no later than the
\* edge.
LEMMA AllFound ==
    ASSUME TypeOK, CacheInv, CountInv, pc = "scan", NEW x \in Through(g, edge)
    PROVE  x \in Seen(s)
<1> DEFINE L == Len(cache_6)
           i == edge[1]
           j == edge[2]
<1>1. L \in Nat /\ DOMAIN cache_6 = 1 .. L /\ s \in 0 .. L
  BY LenProperties DEF TypeOK
<1>2. edge \in Edges /\ g \in Graph /\ Base = Flipped(g, edge) /\ Flipped(Base, edge) = g
  BY FlipOnce DEF TypeOK, Base
<1>3. i \in Nat /\ j \in Nat /\ i < j /\ i \in x /\ j \in x /\ x \in Cliques(K, g)
  BY <1>2, EdgeEnds DEF Through, Both
<1>4. ASSUME NEW o \in {i, j} PROVE \E q \in DOMAIN cache_6 : cache_6[q].nodes = x \ {o}
  <2>1. x \ {o} \in Cliques(K - 1, g) /\ ~Both(x \ {o}, edge)
    BY <1>3, Subclique DEF Both
  <2>2. x \ {o} \in Cliques(K - 1, Base)
    BY <1>2, <2>1, FlipCliques
  <2>3. x \ {o} \in Cached
    BY <2>2, CachedCliques
  <2> QED BY <2>3 DEF Cached
<1>5. PICK q \in DOMAIN cache_6 : cache_6[q].nodes = x \ {i}
  BY <1>4
<1>6. PICK r \in DOMAIN cache_6 : cache_6[r].nodes = x \ {j}
  BY <1>4
<1>7. q # r
  BY <1>3, <1>5, <1>6
<1>8. (q \in 1 .. L /\ q < L) \/ (r \in 1 .. L /\ r < L)
  BY <1>1, <1>7
<1>9. ASSUME NEW t \in DOMAIN cache_6, t < L, \E n \in cache_6[t].nodes : n <= j,
             NEW o \in {i, j}, cache_6[t].nodes = x \ {o}
      PROVE  x \in Seen(s)
  <2>1. t \in 1 .. L /\ cache_6[t].nodes \in SUBSET Nodes
    BY <1>1, CacheEntry
  <2>2. \A n \in cache_6[t].nodes : n \in Nat
    BY <2>1, CountAssumption
  <2>3. ~(s < t)
    BY <1>3, <1>9, <2>2 DEF CountInv
  <2>4. t \in 1 .. s
    BY <1>1, <2>1, <2>3
  <2>5. Grows(t) /\ Grown(t) = x
    BY <1>9, PartGrows
  <2> QED BY <2>4, <2>5 DEF Seen
<1>10. CASE q < L
  <2>1. j \in cache_6[q].nodes /\ j <= j
    BY <1>3, <1>5
  <2> QED BY <1>5, <1>9, <1>10, <2>1
<1>11. CASE r < L
  <2>1. i \in cache_6[r].nodes /\ i <= j
    BY <1>3, <1>6
  <2> QED BY <1>6, <1>9, <1>11, <2>1
<1> QED BY <1>8, <1>10, <1>11

\* After a clique whose nodes are all later than a node, so are those of the next.
LEMMA LaterStays ==
    ASSUME NEW c \in SUBSET Nodes, NEW d \in SUBSET Nodes, Before(c, d), NEW j \in Nat,
           \A n \in c : n > j
    PROVE  \A n \in d : n > j
<1>1. PICK n \in c \ d : \A m \in d \ c : n < m
  BY DEF Before
<1>2. n > j /\ n \in Nat
  BY <1>1, CountAssumption
<1> SUFFICES ASSUME NEW m \in d PROVE m > j
  OBVIOUS
<1>3. CASE m \in c
  BY <1>3
<1>4. CASE m \notin c
  <2>1. n < m /\ m \in Nat
    BY <1>1, <1>4, CountAssumption
  <2> QED BY <1>2, <2>1
<1> QED BY <1>3, <1>4

LEMMA BisectCount ==
    ASSUME TypeOK, CacheInv, CountInv, Bisect
    PROVE  CountInv'
<1> DEFINE half == (s + e) \div 2
           L == Len(cache_6)
<1>1. L \in Nat /\ DOMAIN cache_6 = 1 .. L
  BY LenProperties DEF TypeOK
<1>2. /\ pc = "search" /\ pc' = "search" /\ cache_6' = cache_6 /\ edge' = edge
      /\ kept' = kept /\ stop' = stop /\ g' = g
  BY DEF Bisect, caches, call
<1>3. Base' = Base
  BY <1>2 DEF Base
<1>4. s \in Nat /\ e \in Nat /\ s < e /\ e <= L
  BY <1>1 DEF Bisect, TypeOK
<1>5. half \in s .. e - 1
  BY <1>4
<1>6. ASSUME NEW q \in 1 .. L, e' < q, q < L PROVE \A n \in cache_6[q].nodes : n > edge[2]
  <2>j. edge[2] \in Nat
    BY <1>2, EdgeEnds DEF TypeOK
  <2>1. CASE e' = e
    BY <1>1, <1>2, <1>6, <2>1 DEF CountInv
  <2>2. CASE e' # e
    <3>1. e' = half /\ \A n \in cache_6[half + 1].nodes : ~(n <= edge[2])
      BY <2>2 DEF Bisect
    <3>2. half + 1 \in 1 .. L /\ half + 1 <= q
      BY <1>4, <1>5, <1>6, <3>1
    <3>3. half + 1 \in DOMAIN cache_6 /\ q \in DOMAIN cache_6
      BY <1>1, <3>2
    <3>4. cache_6[half + 1].nodes \in SUBSET Nodes /\ cache_6[q].nodes \in SUBSET Nodes
      BY <3>3, CacheEntry
    <3>5. \A n \in cache_6[half + 1].nodes : n > edge[2]
      <4>1. \A n \in cache_6[half + 1].nodes : n \in Nat
        BY <3>4, CountAssumption
      <4> QED BY <2>j, <3>1, <4>1
    <3>6. CASE q = half + 1
      BY <3>5, <3>6
    <3>7. CASE half + 1 < q
      <4>1. Before(cache_6[half + 1].nodes, cache_6[q].nodes)
        BY <3>3, <3>7 DEF CacheInv
      <4> QED
        <5> HIDE DEF half
        <5> QED BY <2>j, <3>4, <3>5, <4>1, LaterStays
    <3> QED BY <1>4, <1>5, <3>2, <3>6, <3>7
  <2> QED BY <2>1, <2>2
<1> QED BY <1>1, <1>2, <1>3, <1>6 DEF CountInv

LEMMA CallCount ==
    ASSUME TypeOK, Idle, CacheInv, NEW edg \in Edges, NEW st \in Stops, Call(edg, st)
    PROVE  CountInv' /\ FlipCountExact'
<1>1. /\ pc = "ready" /\ g' = Flipped(g, edg) /\ edge' = edg /\ stop' = st
      /\ kept' = length_7 - Cardinality(Broken(edg))
      /\ cache_6' = cache_6 /\ pc' \in {"search", "done"}
  BY DEF Call, caches
<1>2. Base = g /\ Base' = g /\ g \in Graph
  BY <1>1, FlipOnce DEF Base, TypeOK
<1>3. cache_7 = Cliques(K, g) /\ length_7 = Cardinality(Cliques(K, g))
  BY <1>1, <1>2, CachedCliques DEF CacheInv
<1>4. Broken(edg) = Through(g, edg)
  BY <1>3 DEF Broken, Through, Both
<1>5. kept' = Cardinality(Untouched(g, edg)) /\ kept' \in Nat
  BY <1>1, <1>3, <1>4, Split
<1>6. st \in Nat
  BY CountAssumption
<1>7. CASE pc' = "search"
  <2>1. kept' <= st /\ e' = Len(cache_6) - 1
    <3>1. ~(kept' > st)
      BY <1>7 DEF Call
    <3> QED BY <1>5, <1>6, <1>7, <3>1 DEF Call
  <2>2. Len(cache_6) \in Nat /\ DOMAIN cache_6 = 1 .. Len(cache_6)
    BY LenProperties DEF TypeOK
  <2>3. \A q \in DOMAIN cache_6 : ~(e' < q /\ q < Len(cache_6))
    BY <2>1, <2>2
  <2> QED BY <1>1, <1>2, <1>5, <1>7, <2>1, <2>3 DEF CountInv, FlipCountExact
<1>8. CASE pc' = "done"
  <2>1. kept' > st /\ result' = -1
    BY <1>8 DEF Call
  <2>2. Cardinality(Cliques(K, g')) = kept' + Cardinality(Through(g', edg))
    BY <1>1, <1>2, <1>5, FlipCount
  <2>3. Cardinality(Through(g', edg)) \in Nat
    BY Split
  <2>4. ~(Cardinality(Cliques(K, g')) <= stop')
    BY <1>1, <1>5, <1>6, <2>1, <2>2, <2>3
  <2> QED BY <1>8, <2>1, <2>4 DEF CountInv, FlipCountExact
<1> QED BY <1>1, <1>7, <1>8

LEMMA ScanCount ==
    ASSUME TypeOK, CountInv, Scan
    PROVE  CountInv'
<1>1. /\ pc = "scan" /\ pc' = "scan" /\ p' = p + 1 /\ p < s /\ s' = s /\ g' = g
      /\ cache_6' = cache_6 /\ edge' = edge /\ stop' = stop /\ kept' = kept
  BY DEF Scan, caches, call
<1>2. p \in Nat /\ 1 .. p + 1 = (1 .. p) \cup {p + 1}
  BY DEF TypeOK
<1>3. \A q : (Grows(q)' <=> Grows(q)) /\ Grown(q)' = Grown(q)
  BY <1>1 DEF Grows, Grown, Outer
<1>4. Seen(p)' = {Grown(q) : q \in {r \in 1 .. p + 1 : Grows(r)}}
  BY <1>1, <1>3 DEF Seen
<1>5. Seen(p)' = Seen(p) \cup (IF Grows(p + 1) THEN {Grown(p + 1)} ELSE {})
  BY <1>2, <1>4 DEF Seen
<1>6. root = {Key(x) : x \in Seen(p)} /\ IsFiniteSet(root) /\ counter = Cardinality(root)
  BY <1>1 DEF CountInv
<1>7. Base' = Base
  BY <1>1 DEF Base
<1>8. /\ root' = {Key(x) : x \in Seen(p)'}
      /\ IsFiniteSet(root') /\ counter' = Cardinality(root')
  <2> DEFINE k == Key(Grown(p + 1))
  <2>1. CASE Grows(p + 1) /\ k \notin root
    <3>1. root' = root \cup {k} /\ counter' = counter + 1
      BY <2>1 DEF Scan, NotFound
    <3>2. Seen(p)' = Seen(p) \cup {Grown(p + 1)}
      BY <1>5, <2>1
    <3>3. IsFiniteSet(root \cup {k}) /\ Cardinality(root \cup {k}) = Cardinality(root) + 1
      BY <1>6, <2>1, FS_AddElement
    <3>4. {Key(x) : x \in Seen(p)'} = {Key(x) : x \in Seen(p)} \cup {k}
      BY <3>2
    <3> QED
      <4> HIDE DEF k
      <4> QED BY <1>6, <3>1, <3>3, <3>4
  <2>2. CASE Grows(p + 1) /\ k \in root
    <3>1. root' = root /\ counter' = counter
      BY <2>2 DEF Scan, NotFound
    <3>2. Seen(p)' = Seen(p) \cup {Grown(p + 1)}
      BY <1>5, <2>2
    <3>3. {Key(x) : x \in Seen(p)'} = {Key(x) : x \in Seen(p)} \cup {k}
      BY <3>2
    <3> QED
      <4> HIDE DEF k
      <4> QED BY <1>6, <2>2, <3>1, <3>3
  <2>3. CASE ~Grows(p + 1)
    <3>1. root' = root /\ counter' = counter /\ Seen(p)' = Seen(p)
      BY <1>5, <2>3 DEF Scan
    <3> QED BY <1>6, <3>1
  <2> QED BY <2>1, <2>2, <2>3
<1> QED BY <1>1, <1>7, <1>8 DEF CountInv

LEMMA ScannedCount ==
    ASSUME KeysDiffer, TypeOK, CacheInv, CountInv, Scanned
    PROVE  CountInv' /\ FlipCountExact'
<1>1. /\ pc = "scan" /\ pc' = "done" /\ g' = g /\ stop' = stop
      /\ result' = IF counter > stop - kept THEN -1 ELSE counter + kept
      /\ ~(p < s /\ counter <= stop - kept)
  BY DEF Scanned, call
<1>2. edge \in Edges /\ g \in Graph /\ Base \in Graph /\ Flipped(Base, edge) = g
  BY <1>1, FlipOnce DEF TypeOK, Base
<1> DEFINE T == Through(g, edge)
<1>3. kept = Cardinality(Untouched(Base, edge)) /\ kept <= stop /\ kept \in Nat /\ stop \in Nat
  BY <1>1, Split DEF CountInv, TypeOK
<1>4. Cardinality(Cliques(K, g)) = kept + Cardinality(T)
  BY <1>2, <1>3, FlipCount
<1>5. IsFiniteSet(T) /\ Cardinality(T) \in Nat
  BY Split
<1>6. p \in 0 .. s /\ s \in 0 .. Len(cache_6) /\ DOMAIN cache_6 = 1 .. Len(cache_6)
      /\ Len(cache_6) \in Nat
  BY LenProperties DEF TypeOK
<1>7. Seen(p) \subseteq T
  <2>1. \A q \in 1 .. p : q \in DOMAIN cache_6
    BY <1>6
  <2> QED BY <1>1, <2>1, GrownCliques DEF Seen
<1>8. IsFiniteSet(Seen(p)) /\ Cardinality(Seen(p)) \in Nat /\ Cardinality(Seen(p)) <= Cardinality(T)
  <2> HIDE DEF T
  <2> QED BY <1>5, <1>7, FS_Subset, FS_CardinalityType
<1>9. counter = Cardinality(Seen(p))
  <2> DEFINE S == Seen(p)
             F == [x \in S |-> Key(x)]
  <2>1. \A x \in S : x \in SUBSET Nodes /\ Cardinality(x) = K
    BY <1>7 DEF Through, Cliques
  <2>2. root = {Key(x) : x \in S} /\ counter = Cardinality(root)
    BY <1>1 DEF CountInv
  <2>3. \A x, y \in S : F[x] = F[y] => x = y
    BY <2>1 DEF KeysDiffer
  <2>4. F \in [S -> root] /\ \A k \in root : \E x \in S : F[x] = k
    BY <2>2
  <2>5. F \in Bijection(S, root)
    <3> HIDE DEF F, S
    <3>1. F \in Surjection(S, root)
      BY <2>4 DEF Surjection
    <3>2. F \in Injection(S, root)
      BY <2>3, <2>4 DEF Injection, IsInjective
    <3> QED BY <3>1, <3>2 DEF Bijection
  <2> HIDE DEF F, S
  <2>6. IsFiniteSet(S)
    BY <1>8 DEF S
  <2>7. Cardinality(root) = Cardinality(S)
    BY <2>5, <2>6, FS_Bijection DEF ExistsBijection
  <2> QED BY <2>2, <2>7 DEF S
<1>10. CASE counter > stop - kept
  <2>1. ~(Cardinality(Cliques(K, g)) <= stop) /\ result' = -1
    <3> HIDE DEF T
    <3> QED BY <1>1, <1>3, <1>4, <1>5, <1>8, <1>9, <1>10
  <2> QED BY <1>1, <2>1 DEF CountInv, FlipCountExact
<1>11. CASE ~(counter > stop - kept)
  <2>1. p = s
    BY <1>1, <1>3, <1>6, <1>8, <1>9, <1>11
  <2>2. Seen(p) = T
    BY <1>1, <1>7, <2>1, AllFound
  <2>3. result' = Cardinality(Cliques(K, g)) /\ Cardinality(Cliques(K, g)) <= stop
    <3> HIDE DEF T
    <3> QED BY <1>1, <1>3, <1>4, <1>8, <1>9, <1>11, <2>2
  <2> QED BY <1>1, <2>3 DEF CountInv, FlipCountExact
<1> QED BY <1>10, <1>11

LEMMA CountNext ==
    ASSUME KeysDiffer, TypeOK, Idle, CacheInv, CountInv, FlipCountExact, [Next]_vars
    PROVE  CountInv' /\ FlipCountExact'
<1>1. ASSUME pc' \in {"cache", "ready"} PROVE CountInv' /\ FlipCountExact'
  BY <1>1 DEF CountInv, FlipCountExact
<1>2. CASE AddClique \/ CacheCreated \/ Restore
  BY <1>1, <1>2 DEF AddClique, CacheCreated, Restore
<1>3. ASSUME NEW edg \in Edges, Flip(edg) PROVE CountInv' /\ FlipCountExact'
  BY <1>1, <1>3 DEF Flip
<1>4. ASSUME NEW edg \in Edges, NEW st \in Stops, Call(edg, st)
      PROVE  CountInv' /\ FlipCountExact'
  BY <1>4, CallCount
<1>5. CASE Bisect
  <2>1. pc' = "search"
    BY <1>5 DEF Bisect
  <2> QED BY <1>5, <2>1, BisectCount DEF FlipCountExact
<1>6. CASE Bisected
  <2>1. /\ pc = "search" /\ pc' = "scan" /\ g' = g /\ cache_6' = cache_6 /\ edge' = edge
        /\ kept' = kept /\ stop' = stop /\ s' = s /\ root' = root /\ p' = p
        /\ counter' = counter /\ s >= e
    BY <1>6 DEF Bisected, caches, call, scan
  <2>2. Base' = Base
    BY <2>1 DEF Base
  <2>3. p = 0 /\ root = {} /\ counter = 0
    BY <2>1 DEF Idle
  <2>4. s \in Nat /\ e \in Int /\ \A q \in DOMAIN cache_6 : q \in Nat
    BY LenProperties DEF TypeOK
  <2>5. \A q \in DOMAIN cache_6 : s < q => e < q
    BY <2>1, <2>4
  <2>6. \A q \in DOMAIN cache_6 :
          s < q /\ q < Len(cache_6) => \A n \in cache_6[q].nodes : n > edge[2]
    BY <2>1, <2>5 DEF CountInv
  <2>7. Seen(p)' = {}
    BY <2>1, <2>3 DEF Seen
  <2>8. IsFiniteSet({}) /\ Cardinality({}) = 0
    BY FS_EmptySet
  <2>9. root' = {Key(x) : x \in Seen(p)'} /\ IsFiniteSet(root') /\ counter' = Cardinality(root')
    BY <2>1, <2>3, <2>7, <2>8
  <2> QED BY <2>1, <2>2, <2>6, <2>9 DEF CountInv, FlipCountExact
<1>7. CASE Scan
  <2>1. pc' = "scan"
    BY <1>7 DEF Scan
  <2> QED BY <1>7, <2>1, ScanCount DEF FlipCountExact
<1>8. CASE Scanned
  BY <1>8, ScannedCount
<1>9. CASE UNCHANGED vars
  <2>1. CountInv' <=> CountInv
    BY <1>9 DEF vars, caches, call, scan, CountInv, Base, Seen, Grown, Grows, Outer
  <2>2. FlipCountExact' <=> FlipCountExact
    BY <1>9 DEF vars, caches, call, scan, FlipCountExact
  <2> QED BY <2>1, <2>2
<1> QED
  BY <1>2, <1>3, <1>4, <1>5, <1>6, <1>7, <1>8, <1>9 DEF Next, Step

\* FlipCountExact, for any nodes and any size of clique: if no two cliques have one
\* key, what CliqueCountUseCache returns is right (clique_count.c:114-129).
THEOREM FlipCountIsExact == KeysDiffer => (Spec => []FlipCountExact)
<1> SUFFICES ASSUME KeysDiffer PROVE Spec => []FlipCountExact
  OBVIOUS
<1>1. Init => CountInv /\ FlipCountExact
  BY DEF Init, CountInv, FlipCountExact
<1>2. TypeOK /\ Idle /\ CacheInv /\ CountInv /\ FlipCountExact /\ [Next]_vars
        => CountInv' /\ FlipCountExact'
  BY CountNext
<1> QED BY <1>1, <1>2, CacheInvariant, PTL DEF Spec
=============================================================================
