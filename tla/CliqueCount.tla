---------------------------- MODULE CliqueCount ----------------------------
(***************************************************************************)
(* Clique counting of the search: CliqueCountCreateCache collects the      *)
(* one-coloured cliques of K - 1 and of K nodes, and CliqueCountUseCache   *)
(* computes from them how many cliques of K nodes the graph has after one  *)
(* edge was flipped.  K is 7 in the code.  A loop is an action, one turn a *)
(* step.                                                                   *)
(***************************************************************************)
EXTENDS Integers, Sequences, FiniteSets, FiniteSetsExt

CONSTANTS
    Nodes,   \* the nodes that may be in a clique, of 0 .. gsize - 1
    K,       \* nodes of a clique
    Starts,  \* graphs a search starts with
    Stops    \* limits callers pass: the lowest count so far, or BIGCOUNT

Color == {0, 1}
\* A graph is read above the diagonal only.
Edges == {e \in Nodes \X Nodes : e[1] < e[2]}
Edge(a, b) == IF a < b THEN <<a, b>> ELSE <<b, a>>
Graph == [Edges -> Color]

ASSUME CountAssumption ==
    /\ Nodes \subseteq Nat /\ IsFiniteSet(Nodes)
    /\ K \in Nat /\ K >= 3
    /\ Starts \subseteq Graph
    /\ Stops \subseteq Nat

VARIABLES
    g,        \* the graph
    cache_6,  \* cliques of K - 1 nodes, in the order of the nested loops
    cache_7, length_7,  \* cliques of K nodes, and how many were added
    pc,       \* the loop that runs, or "ready" and "done" between calls
    edge,     \* the flipped edge <<i, j>>
    stop,
    kept,     \* clique_7to7_count
    s, e,     \* binary_search_first
    p, root, counter,  \* search_6
    result    \* of CliqueCountUseCache

caches == <<cache_6, cache_7, length_7>>
call == <<edge, stop, kept>>
scan == <<p, root, counter>>
vars == <<g, caches, pc, call, s, e, scan, result>>

NoEdge == <<0, 0>>

Init ==
    /\ g \in Starts
    /\ cache_6 = << >> /\ cache_7 = {} /\ length_7 = 0
    /\ pc = "cache"
    /\ edge = NoEdge /\ stop = 0 /\ kept = 0
    /\ s = 0 /\ e = 0
    /\ p = 0 /\ root = {} /\ counter = 0
    /\ result = 0

-----------------------------------------------------------------------------
(* Cliques *)

Coloured(c, col, h) == \A m, n \in c : m < n => h[<<m, n>>] = col

\* What CliqueCount counts, and the loops of CliqueCountCreateCache go through.
Cliques(k, h) ==
    {c \in SUBSET Nodes : Cardinality(c) = k /\ \E col \in Color : Coloured(c, col, h)}

\* The loops reach c before d: c has the lower node where they first differ.
Before(c, d) == \E n \in c \ d : \A m \in d \ c : n < m

Flipped(h, edg) == [h EXCEPT ![edg] = 1 - @]

-----------------------------------------------------------------------------
(* CliqueCountCreateCache *)

Cached == {cache_6[q].nodes : q \in DOMAIN cache_6}

\* The next clique of K - 1 nodes.
Upcoming ==
    LET left == Cliques(K - 1, g) \ Cached
    IN  {c \in left : \A d \in left \ {c} : Before(c, d)}

ExtendingShort(c, col) ==  \* mutant
    {n \in Nodes \ {Max(Nodes)} : (\A m \in c : m < n) /\ Coloured(c \cup {n}, col, g)}

\* The last node of a clique of K nodes that begins with c.
Extending(c, col) ==
    {n \in Nodes : (\A m \in c : m < n) /\ Coloured(c \cup {n}, col, g)}

\* It is added with the cliques it begins.
AddClique ==
    /\ pc = "cache"
    /\ \E c \in Upcoming, col \in Color :
          /\ Coloured(c, col, g)
          /\ cache_6' = Append(cache_6, [nodes |-> c, color |-> col])
          /\ cache_7' = cache_7 \cup {c \cup {o} : o \in Extending(c, col)}
          /\ length_7' = length_7 + Cardinality(Extending(c, col))
    /\ UNCHANGED <<g, pc, call, s, e, scan, result>>

CacheCreated ==
    /\ pc = "cache"
    /\ Cliques(K - 1, g) \subseteq Cached
    /\ pc' = "ready"
    /\ UNCHANGED <<g, caches, call, s, e, scan, result>>

\* The caller flips an edge for good and makes the caches anew.
Flip(edg) ==
    /\ pc = "ready"
    /\ g' = Flipped(g, edg)
    /\ cache_6' = << >> /\ cache_7' = {} /\ length_7' = 0
    /\ pc' = "cache"
    /\ UNCHANGED <<call, s, e, scan, result>>

-----------------------------------------------------------------------------
(* CliqueCountUseCache *)

\* search_7: the cliques that contain both nodes go.
Broken(edg) == {c \in cache_7 : edg[1] \in c /\ edg[2] \in c}

\* The caller flips the edge, calls, and the count of what is left is taken.
Call(edg, st) ==
    /\ pc = "ready"
    /\ g' = Flipped(g, edg)
    /\ edge' = edg /\ stop' = st
    /\ kept' = length_7 - Cardinality(Broken(edg))
    /\ IF kept' > st
       THEN /\ result' = -1
            /\ pc' = "done"
            /\ UNCHANGED <<s, e>>
       ELSE /\ s' = 0 /\ e' = Len(cache_6) - 1
            /\ pc' = "search"
            /\ UNCHANGED result
    /\ UNCHANGED <<caches, scan>>

AboveFar(half) == half + 2  \* mutant
AboveSame(half) == half  \* mutant
Above(half) == half + 1

\* binary_search_first, which does not look at the last clique.
Bisect ==
    /\ pc = "search" /\ s < e
    /\ LET half == (s + e) \div 2
       IN  IF \E n \in cache_6[half + 1].nodes : n <= edge[2]
           THEN s' = Above(half) /\ UNCHANGED e
           ELSE e' = half /\ UNCHANGED s
    /\ UNCHANGED <<g, caches, pc, call, scan, result>>

Bisected ==
    /\ pc = "search" /\ s >= e
    /\ pc' = "scan"
    /\ UNCHANGED <<g, caches, call, s, e, scan, result>>

\* The digits of MAKE_KEY at places lo .. hi, in radix 211.
Digits(c, lo, hi) ==
    LET Place(n) == Cardinality({m \in c : m > n})
    IN  MapThenSumSet(LAMBDA n : n * 211 ^ (Place(n) - lo),
                      {n \in c : Place(n) \in lo .. hi})

\* A double from 2^53 on has lost its lowest bit: an odd number goes to a
\* multiple of 4.
Rounding(mod4) == IF mod4 = 1 THEN -1 ELSE IF mod4 = 3 THEN 1 ELSE 0

\* MAKE_KEY, as its upper and its lower three digits: 2^53 is 958831745 * 211^3 +
\* 1601397.  The highest digit is rounded before and after it is added.
Key(c) ==
    LET low == Digits(c, 0, 2)
        high == Digits(c, 3, 6)
        lead == Digits(c, 6, 6)
        first == IF lead >= 103 THEN Rounding(lead % 4) ELSE 0
        big == high > 958831745 \/ (high = 958831745 /\ low + first >= 1601397)
        second == IF big THEN Rounding(((high % 4) * 3 + low + first) % 4) ELSE 0
    IN  <<high, low + first + second>>

\* The end of edge <<i, j>> that is not in the clique.
Outer(c) == IF edge[2] \in c THEN edge[1] ELSE edge[2]

\* Clique q of the cache holds one end of the edge and, with the other, is a new
\* clique of K nodes.
Grows(q) ==
    LET c == cache_6[q].nodes
    IN  /\ \E n \in c : n >= edge[1]
        /\ (edge[1] \in c) # (edge[2] \in c)
        /\ \A n \in c : g[Edge(n, Outer(c))] = cache_6[q].color

Grown(q) == cache_6[q].nodes \cup {Outer(cache_6[q].nodes)}

Unseen(key) == TRUE  \* mutant
NotFound(key) == key \notin root

Scan ==
    /\ pc = "scan" /\ p < s /\ counter <= stop - kept
    /\ p' = p + 1
    /\ IF Grows(p + 1) /\ NotFound(Key(Grown(p + 1)))
       THEN /\ counter' = counter + 1
            /\ root' = root \cup {Key(Grown(p + 1))}
       ELSE UNCHANGED <<counter, root>>
    /\ UNCHANGED <<g, caches, pc, call, s, e, result>>

Scanned ==
    /\ pc = "scan" /\ ~(p < s /\ counter <= stop - kept)
    /\ result' = IF counter > stop - kept THEN -1 ELSE counter + kept
    /\ pc' = "done"
    /\ UNCHANGED <<g, caches, call, s, e, scan>>

\* The caller flips the edge back.
Restore ==
    /\ pc = "done"
    /\ g' = Flipped(g, edge)
    /\ pc' = "ready"
    /\ edge' = NoEdge /\ stop' = 0 /\ kept' = 0
    /\ s' = 0 /\ e' = 0
    /\ p' = 0 /\ root' = {} /\ counter' = 0
    /\ result' = 0
    /\ UNCHANGED caches

-----------------------------------------------------------------------------
Step ==
    \/ AddClique \/ CacheCreated
    \/ Bisect \/ Bisected \/ Scan \/ Scanned
    \/ Restore

Next ==
    \/ Step
    \/ \E edg \in Edges : Flip(edg) \/ \E st \in Stops : Call(edg, st)

Spec == Init /\ [][Next]_vars
FairSpec == Spec /\ WF_vars(Step)
=============================================================================
