------------------------------- MODULE Search -------------------------------
(***************************************************************************)
(* The tabu search of a client: BFsearch with its recursion, and DFsearch  *)
(* (search.c, recursion.c), next to the listening thread, which may raise  *)
(* recv_flag and change best_ever between any two steps.  A scan over all  *)
(* edges is one step: it leaves the graph as it was.                       *)
(***************************************************************************)
EXTENDS GraphFile, SequencesExt

CONSTANTS
    Cliques(_),      \* cliques of a graph: cache_7.length when its caches are made
    Starts,          \* <<mode, graph>>: what old_graph and its header may hold
    Targets,         \* values of best_ever
    Held,            \* what unassigned variables for an edge and a count may hold
    LeftFiles,       \* what new_graph may hold when the client starts
    TABOOSIZE,       \* 500
    BIGCOUNT,        \* 1000
    Stop,            \* 10 more cliques than the best are still counted
    Luck,            \* 9: fewer than best_ever + 9 cliques may be taken by rand()
    Slack,           \* 5 cliques above the target are pursued by the recursion
    FarCount,        \* 100000
    NEIGHBOR_SIZE,   \* 2
    RECURSION_DEPTH  \* 6

ASSUME SearchAssumption ==
    /\ \A s \in Starts : s[1] \in {"BF", "DF"}
    /\ Targets \subseteq Nat
    /\ TABOOSIZE \in Nat \ {0} /\ BIGCOUNT \in Nat /\ FarCount \in Nat
    /\ Stop \in Nat /\ Luck \in Nat /\ Slack \in Nat
    /\ NEIGHBOR_SIZE \in Nat \ {0} /\ RECURSION_DEPTH \in Nat

VARIABLES
    pc,          \* "wait" is the loop of main
    mode,
    g,
    cached,      \* the graph the caches were made of
    best,        \* best_i, best_j and best_count
    last,        \* last_i and last_j of DFsearch
    taboo,       \* the window of the taboo list
    goal,        \* the target of the last test; the parameter of the recursion
    stack,       \* the calls of recursiveSearch: edge, level, neighbours, k
    quit,        \* the last one returned RECURSION_RETURN_TERMINATION
    best_ever, recv_flag,
    new_graph,   \* the file
    late         \* uploads since the flag rose; 2 stands for more

shared == <<best_ever, recv_flag>>
round == <<best, last, taboo>>
calls == <<stack, quit>>
vars == <<pc, mode, g, cached, round, goal, calls, shared, new_graph, late>>

Outside == <<-1, -1>>  \* indices that are not in the matrix
NoBest == [edge |-> Outside, count |-> BIGCOUNT]
Nothing == [n |-> 0, at |-> << >>]

Init ==
    /\ pc = "wait" /\ mode = "BF"
    /\ g = Nothing /\ cached = Nothing
    /\ best = NoBest /\ last = Outside /\ taboo = << >>
    /\ goal = 0 /\ stack = << >> /\ quit = FALSE
    /\ best_ever = 0 /\ recv_flag = FALSE
    /\ new_graph \in LeftFiles
    /\ late = 0

-----------------------------------------------------------------------------
(* Counting and choosing *)

\* CliqueCountUseCache on the graph with edge e flipped.
UseCache(e, stop) ==
    LET n == Cliques(Flipped(cached, e)) IN IF n <= stop THEN n ELSE -1

IsTaboo(x) == \E n \in DOMAIN taboo : taboo[n] = x
Inserted(x) == Append(IF Len(taboo) < TABOOSIZE THEN taboo ELSE Tail(taboo), x)

InRows(n) == [p \in 1 .. n * n |-> <<(p - 1) \div n, (p - 1) % n>>]
AllEdges == SelectSeq(InRows(g.n), LAMBDA c : c[1] < c[2])

\* What best may be after it was offered the edges one after the other.
Scanned(Takes(_, _)) ==
    LET edges == AllEdges
        after[k \in 0 .. Len(edges)] ==
            IF k = 0 THEN {best} ELSE UNION {Takes(b, edges[k]) : b \in after[k - 1]}
    IN  after[Len(edges)]

\* BFsearch, and the first phase of DFsearch.
TakesLower(b, e) ==
    LET x == [edge |-> e, count |-> UseCache(e, b.count)] IN
    IF x.count # -1 /\ ~IsTaboo(x) THEN {x} ELSE {b}

\* The second phase: not the row or the column of the last flip, and sometimes a
\* higher count.
TakesLucky(b, e) ==
    LET x == [edge |-> e, count |-> UseCache(e, b.count + Stop)] IN
    IF x.count = -1 \/ last[1] = e[1] \/ last[2] = e[2] \/ IsTaboo(x) THEN {b}
    ELSE IF x.count <= b.count THEN {x}
    ELSE IF x.count < best_ever + Luck THEN {x, b}
    ELSE {b}

\* The edge to flip; best_i and best_j are not assigned before the first is taken.
Chosen(b) == IF b.edge = Outside THEN {x.edge : x \in Held} ELSE {b.edge}

\* The edges that findNeighbours tries from e on.
Follows(c, e) ==
    \/ c[1] = e[1] /\ c[2] > e[2]
    \/ c[1] > e[1] /\ c[1] < c[2]

Worst(near) == IF Len(near) < NEIGHBOR_SIZE THEN FarCount ELSE Last(near).count

Nearer(near, e) ==
    LET x == [edge |-> e, count |-> UseCache(e, Worst(near))]
        place == Cardinality({k \in DOMAIN near : near[k].count <= x.count}) + 1
        longer == InsertAt(near, place, x)
    IN  IF x.count = -1 \/ x.count >= Worst(near) \/ IsTaboo(x) THEN near
        ELSE IF Len(longer) > NEIGHBOR_SIZE THEN Front(longer) ELSE longer

\* The NEIGHBOR_SIZE lowest of them, in the order of the loops.
findNeighbours(e) ==
    LET near[k \in 0 .. g.n * g.n] ==
            IF k = 0 THEN << >>
            ELSE LET c == InRows(g.n)[k] IN
                 IF Follows(c, e) THEN Nearer(near[k - 1], c) ELSE near[k - 1]
    IN  near[g.n * g.n]

-----------------------------------------------------------------------------
(* The rounds *)

\* main lowers the flag and loads old_graph.
Start ==
    /\ pc = "wait" /\ recv_flag
    /\ recv_flag' = FALSE
    /\ \E s \in Starts : mode' = s[1] /\ g' = s[2]
    /\ pc' = "begin" /\ late' = 0
    /\ UNCHANGED <<cached, round, goal, calls, best_ever, new_graph>>

\* BFsearch lets a counter-example grow by a node and then cleans it.
Begin ==
    /\ pc = "begin"
    /\ \/ /\ mode = "BF" /\ Cliques(g) = 0
          /\ \E column \in [0 .. g.n -> Color] : g' = CopyGraph(g, column)
          /\ pc' = "clean" /\ last' = Outside
       \/ /\ mode = "BF" /\ Cliques(g) > 0
          /\ pc' = "offer" /\ last' = Outside /\ UNCHANGED g
       \/ /\ mode = "DF"
          /\ pc' = "clean" /\ last' \in {x.edge : x \in Held} /\ UNCHANGED g
    /\ cached' = g'
    /\ UNCHANGED <<mode, best, taboo, goal, calls, shared, new_graph, late>>

Clean ==
    /\ pc = "clean"
    /\ \/ /\ Cliques(cached) > best_ever /\ (mode = "DF" => ~recv_flag)
          /\ best' \in Scanned(TakesLower)
          /\ pc' = "keep"
       \/ /\ mode = "BF" /\ Cliques(cached) <= best_ever
          /\ pc' = "offer" /\ UNCHANGED best
       \/ /\ mode = "DF" /\ (recv_flag \/ Cliques(cached) <= best_ever)
          /\ pc' = "seek" /\ UNCHANGED best
    /\ UNCHANGED <<mode, g, cached, last, taboo, goal, calls, shared, new_graph, late>>

\* The edge stays in best_i and best_j, for a round that takes none.
Keep(e) ==
    /\ g' = Flipped(g, e)
    /\ taboo' = Inserted([best EXCEPT !.edge = e])
    /\ best' = [edge |-> e, count |-> BIGCOUNT]

KeepClean ==
    /\ pc = "keep" /\ (mode = "BF" => ~recv_flag)
    /\ \E e \in Chosen(best) : Keep(e)
    /\ cached' = g'
    /\ pc' = "clean"
    /\ UNCHANGED <<mode, last, goal, calls, shared, new_graph, late>>

SeekRunsOn == TRUE  \* mutant
SeekRuns == ~recv_flag
SeekCachesOld == cached  \* mutant
SeekCaches == g

\* DFsearch makes the caches at the head of its second phase.
Seek ==
    /\ pc = "seek" /\ SeekRuns
    /\ cached' = SeekCaches
    /\ pc' = "offer"
    /\ UNCHANGED <<mode, g, round, goal, calls, shared, new_graph, late>>

MeetsNearly(target) == Cliques(cached) <= target + Slack  \* mutant
Meets(target) == Cliques(cached) <= target

\* A graph that meets the target is printed, unless it resembles the last one.
Offered(target, otherwise) ==
    \/ /\ Meets(target) /\ ~compare_graph(g, new_graph)
       /\ new_graph' = PrintGraph(g)
       /\ pc' = "send"
    \/ /\ ~Meets(target) \/ compare_graph(g, new_graph)
       /\ pc' = otherwise /\ UNCHANGED new_graph

Offer ==
    /\ pc = "offer"
    /\ Offered(best_ever, "scan")
    /\ goal' = best_ever
    /\ UNCHANGED <<mode, g, cached, round, calls, shared, late>>

\* send_file: no caller acts on a failure, and a refused connection ends the client.
Send ==
    /\ pc = "send"
    /\ \/ /\ pc' = IF stack = << >> THEN "scan" ELSE "spread"
          /\ late' \in {late, IF recv_flag /\ late < 2 THEN late + 1 ELSE late}
       \/ pc' = "exited" /\ UNCHANGED late
    /\ UNCHANGED <<mode, g, cached, round, goal, calls, shared, new_graph>>

Call(e, level) == [edge |-> e, level |-> level, near |-> << >>, k |-> 1]

Scan ==
    /\ pc = "scan"
    /\ \/ /\ mode = "BF"
          /\ best' \in Scanned(TakesLower)
          /\ \E e \in Chosen(best') : stack' = <<Call(e, RECURSION_DEPTH)>>
          /\ goal' = best_ever
          /\ pc' = "enter"
       \/ /\ mode = "DF"
          /\ best' \in Scanned(TakesLucky)
          /\ pc' = "lucky"
          /\ UNCHANGED <<goal, stack>>
    /\ UNCHANGED <<mode, g, cached, last, taboo, quit, shared, new_graph, late>>

KeepLucky ==
    /\ pc = "lucky"
    /\ \E e \in Chosen(best) : Keep(e) /\ last' = e
    /\ pc' = "seek"
    /\ UNCHANGED <<mode, cached, goal, calls, shared, new_graph, late>>

\* The search returns: BFsearch looks at the flag after a round, DFsearch before it.
End ==
    /\ \/ pc = "keep" /\ mode = "BF" /\ recv_flag
       \/ pc = "seek" /\ recv_flag
       \/ pc = "return" /\ stack = << >>
    /\ pc' = "wait"
    /\ g' = Nothing /\ cached' = Nothing
    /\ best' = NoBest /\ last' = Outside /\ taboo' = << >> /\ quit' = FALSE
    /\ UNCHANGED <<mode, goal, stack, shared, new_graph, late>>

-----------------------------------------------------------------------------
(* recursiveSearch *)

Top == Last(stack)
Restored == Flipped(g, Top.edge)

PrunedFlipped == Restored  \* mutant
Pruned == g  \* flipped, and back

Leave(termination) ==
    /\ stack' = Front(stack) /\ quit' = termination
    /\ pc' = "return"

Enter ==
    /\ pc = "enter"
    /\ \/ /\ recv_flag
          /\ Leave(TRUE) /\ UNCHANGED <<g, cached>>
       \/ /\ ~recv_flag
          /\ cached' = Restored
          /\ \/ /\ Cliques(cached') > goal + Slack
                /\ g' = Pruned /\ Leave(FALSE)
             \/ /\ Cliques(cached') <= goal + Slack
                /\ g' = Restored /\ pc' = "judge" /\ UNCHANGED calls
    /\ UNCHANGED <<mode, round, goal, shared, new_graph, late>>

\* The taboo entry of a success is made of variables that are not assigned yet.
Judge ==
    /\ pc = "judge"
    /\ \/ /\ Cliques(cached) > goal
          /\ pc' = "spread" /\ UNCHANGED <<g, taboo, calls, new_graph>>
       \/ /\ Cliques(cached) <= goal
          /\ \E x \in Held : taboo' = Inserted(x)
          /\ \/ /\ recv_flag
                /\ g' = Restored /\ Leave(TRUE) /\ UNCHANGED new_graph
             \/ /\ ~recv_flag
                /\ Offered(goal, "spread") /\ UNCHANGED <<g, calls>>
    /\ UNCHANGED <<mode, cached, best, last, goal, shared, late>>

Spread ==
    /\ pc = "spread"
    /\ \/ /\ Top.level = 0
          /\ g' = Restored /\ Leave(FALSE)
       \/ /\ Top.level > 0
          /\ stack' = [stack EXCEPT ![Len(stack)].near = findNeighbours(Top.edge)]
          /\ pc' = "descend" /\ UNCHANGED <<g, quit>>
    /\ UNCHANGED <<mode, cached, round, goal, shared, new_graph, late>>

BelowSame(level) == level  \* mutant
Below(level) == level - 1

Descend ==
    /\ pc = "descend"
    /\ \/ /\ Top.k <= Len(Top.near)
          /\ stack' = Append(stack, Call(Top.near[Top.k].edge, Below(Top.level)))
          /\ pc' = "enter" /\ UNCHANGED <<g, quit>>
       \/ /\ Top.k > Len(Top.near)
          /\ g' = Restored /\ Leave(FALSE)
    /\ UNCHANGED <<mode, cached, round, goal, shared, new_graph, late>>

FollowingSame(k) == k  \* mutant
Following(k) == k + 1

Return ==
    /\ pc = "return" /\ stack # << >>
    /\ \/ /\ quit
          /\ g' = Restored /\ Leave(TRUE)
       \/ /\ ~quit
          /\ stack' = [stack EXCEPT ![Len(stack)].k = Following(@)]
          /\ pc' = "descend" /\ UNCHANGED <<g, quit>>
    /\ UNCHANGED <<mode, cached, round, goal, shared, new_graph, late>>

-----------------------------------------------------------------------------
(* The listening thread, and a client that was started again *)

Listen ==
    /\ pc # "exited"
    /\ best_ever' \in Targets
    /\ recv_flag' \in {recv_flag, TRUE}
    /\ UNCHANGED <<pc, mode, g, cached, round, goal, calls, new_graph, late>>

Restart ==
    /\ pc = "exited"
    /\ pc' = "wait"
    /\ g' = Nothing /\ cached' = Nothing
    /\ best' = NoBest /\ last' = Outside /\ taboo' = << >>
    /\ stack' = << >> /\ quit' = FALSE
    /\ best_ever' = 0 /\ recv_flag' = FALSE
    /\ UNCHANGED <<mode, goal, new_graph, late>>

Step ==
    \/ Start \/ Begin \/ Clean \/ KeepClean \/ Seek \/ Offer \/ Send \/ Scan
    \/ KeepLucky \/ End
    \/ Enter \/ Judge \/ Spread \/ Descend \/ Return

Next == Step \/ Listen \/ Restart

\* The searching thread runs when it can: weak fairness of Step, with its condition
\* for being enabled written out.
Ready == pc # "exited" /\ (pc = "wait" => recv_flag)
Fairness == []<>~Ready \/ []<><<pc' # pc \/ stack' # stack>>_vars

Spec == Init /\ [][Next]_vars /\ Fairness
=============================================================================
