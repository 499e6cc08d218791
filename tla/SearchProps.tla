---------------------------- MODULE SearchProps ----------------------------
(***************************************************************************)
(* What the search keeps true of its graph, its caches and its file.       *)
(***************************************************************************)
EXTENDS Search

PCs == {"wait", "begin", "clean", "keep", "seek", "offer", "send", "scan", "lucky",
        "enter", "judge", "spread", "descend", "return", "exited"}

\* The variables have their types; the calls of the recursion are one level apart.
TypeOK ==
    /\ pc \in PCs /\ mode \in {"BF", "DF"}
    /\ Len(taboo) <= TABOOSIZE
    /\ best_ever \in Nat /\ goal \in Nat /\ recv_flag \in BOOLEAN
    /\ late \in Nat
    /\ \A k \in DOMAIN stack : stack[k].level = RECURSION_DEPTH + 1 - k
    /\ Len(stack) <= RECURSION_DEPTH + 1

\* Whenever cliques are counted with the caches, they are those of the graph: this is
\* what CliqueCountUseCache takes for granted (search.c:57, 81, 118, 146, 153,
\* recursion.c:109).
CachesFresh ==
    pc \in {"clean", "offer", "scan", "judge", "spread"} => cached = g

\* When the recursion flips a neighbour, the count by which it was chosen is the
\* count it will have: every return of the calls before it, of a success, a failure
\* or a prune, restored the graph (recursion.c:106-129, 169-194).
CountsStillTrue ==
    pc = "descend" =>
        \A k \in DOMAIN Top.near :
            Top.near[k].count = Cliques(Flipped(g, Top.near[k].edge))

\* The graph that the server will read in the uploaded file meets the target, although
\* the caches were tested and the matrix printed (search.c:87-90, 156-160,
\* recursion.c:117-128, graph.c:33-156).
UploadsMeetTarget == pc = "send" => Cliques(ReadGraph(new_graph)) <= goal

\* A graph that met the target and was not uploaded is at most two edges from the
\* one in new_graph, whatever a client that was killed left there
\* (search.c:199-218).
NoneIsSkipped ==
    pc \in {"scan", "spread"} /\ Cliques(g) <= goal =>
        /\ Readable(new_graph) /\ new_graph.size = g.n
        /\ Near(g, ReadGraph(new_graph))

\* At most one graph is uploaded after the flag rose (search.c:72, 121, 152,
\* recursion.c:106, 120).
FlagStopsUploads == late <= 1

\* The graph printed into new_graph is the one ReadGraph returns (graph.c:30-156).
ReadsBack ==
    pc = "send" => /\ Readable(new_graph)
                   /\ ReadGraph(new_graph) = g

\* A search ends when the flag is up, whatever it is at (search.c:72, 121, 152,
\* recursion.c:106-192).
FlagEndsSearch == recv_flag ~> pc \in {"wait", "exited"}

\* The recursion ends without a flag (recursion.c:101-195).
RecursionEnds == pc = "enter" ~> pc \in {"wait", "exited"}
=============================================================================
