-------------------------- MODULE CliqueCountProps --------------------------
(***************************************************************************)
(* What the search relies on when it counts with the caches.               *)
(***************************************************************************)
EXTENDS CliqueCount

PCs == {"cache", "ready", "search", "scan", "done"}
Entry == [nodes : SUBSET Nodes, color : Color]

\* Every variable has its type, and the binary search and the scan stay within the
\* cache (list.c:89-166).
TypeOK ==
    /\ g \in Graph
    /\ cache_6 \in Seq(Entry)
    /\ cache_7 \subseteq SUBSET Nodes
    /\ length_7 \in Nat
    /\ pc \in PCs
    /\ pc \in {"search", "scan", "done"} => edge \in Edges
    /\ stop \in Nat /\ kept \in Int
    /\ s \in 0 .. Len(cache_6) /\ e \in -1 .. Len(cache_6)
    /\ cache_6 # << >> => s < Len(cache_6) /\ e < Len(cache_6)
    /\ p \in 0 .. s
    /\ root \subseteq {Key(c) : c \in SUBSET Nodes}
    /\ counter \in Nat
    /\ result \in Int

\* Between calls the caches hold exactly the cliques of the graph, each once: the
\* graph is back as it was when they were made (clique_count.c:131-184).
CachesExact ==
    pc = "ready" =>
        /\ Cached = Cliques(K - 1, g)
        /\ Len(cache_6) = Cardinality(Cliques(K - 1, g))
        /\ cache_7 = Cliques(K, g)
        /\ length_7 = Cardinality(Cliques(K, g))

\* CliqueCountUseCache says how many cliques the flipped graph has, or that there
\* are more than the limit (clique_count.c:114-129), although the scan skips the
\* last clique and finds each new one twice.
FlipCountExact ==
    pc = "done" =>
        LET n == Cardinality(Cliques(K, g))
        IN  result = IF n <= stop THEN n ELSE -1

\* A call returns: the binary search ends (list.c:168-184).
CallReturns == pc = "search" ~> pc = "done"
=============================================================================
