-------------------------- MODULE SeedServerProps --------------------------
(***************************************************************************)
(* What makes the server correct.  The hazards are the directories that    *)
(* change roles by the parity of clique_count, the counters three handlers *)
(* compare, files that a reply opens long after they were written, and the *)
(* two copies of a counterexample, each of which a crash may cut short.    *)
(***************************************************************************)
EXTENDS SeedServer

\* Where main is between the judgement of a graph and the end of its last copy.
Copying == {"saveCE", "writeCE", "keep", "writeSeed"}
PCs == {"accept", "receive", "reply", "judge", "round", "broadcast", "down"} \cup Copying
Slots == [ip : Clients, active : BOOLEAN]
Messages == [to : Clients, mode : Modes, target : Nat, file : Content]

\* Every variable has its type; the counters stay in the range the code indexes
\* directories with (server.c:157-183).
TypeOK ==
    /\ pc \in PCs
    /\ peer \in Clients \cup {NoPeer}
    /\ pc \in {"receive", "reply"} => peer \in Clients
    /\ mode \in Modes \cup {NoMode}
    /\ pc = "reply" => mode \in Modes
    /\ broadcast_list \in Seq(Slots)
    /\ next \in Nat \ {0}
    /\ send_count \in Nat
    /\ collect_count \in 0 .. GRAPH_COLLECT_NO
    /\ clique_count \in 0 .. RECURSION_THRESHOLD - 1
    /\ gsize \in Nat
    /\ g \in Graph \cup {Garbage}
    /\ temp \in Content
    /\ pc \in {"judge"} \cup Copying => temp \in Graph \cup {Broken}
    /\ seed \in [Dirs -> [Index -> Content]]
    /\ DOMAIN ce \subseteq Nat
    /\ ce = [n \in DOMAIN ce |-> ce[n]]
    /\ \A n \in DOMAIN ce : ce[n] \in [Index -> Content]
    /\ torn \subseteq Nat \X Index
    /\ reply \in Messages \cup {NoReply}

\* The graphs the round has collected: the one main is still copying is counted
\* already, and a process that has died has none.
Kept ==
    CASE pc = "writeSeed" -> collect_count - 1
      [] pc = "down" -> 0
      [] OTHER -> collect_count

\* "the clique count of the seeds we are currently waiting for" (server.c:23):
\* each graph the round has collected has at most clique_count cliques.
SeedsMeetTarget ==
    \A k \in 0 .. Kept - 1 :
        seed[CurDir][k] \in Graph /\ seed[CurDir][k].cliques <= clique_count

\* The directory a round starts from is complete until the round ends, whatever
\* delete_graph and copy do to the other one, and its graphs met the last target.
PoolComplete ==
    \A k \in Index :
        /\ seed[PrevDir][k] \in Graph
        /\ clique_count < RECURSION_THRESHOLD - 1 =>
              seed[PrevDir][k].cliques <= clique_count + 1

\* What send_file opens is there: no client is handed an empty or unusable file,
\* and one told to go on depth first gets a graph that meets the target.
RepliesAreGraphs ==
    reply # NoReply =>
        /\ reply.file \in Graph
        /\ reply.mode = "continue" => reply.file.cliques <= reply.target

\* Whatever clients upload and however rounds end, the file a reply opens exists:
\* delete_graph never takes the directory the next replies come from.
RepliesExist == reply # NoReply => reply.file # NoFile

\* One slot per address: reconnecting clients do not use up broadcast_list, and a
\* broadcast reaches none twice (server.c:110-137).
OneSlotPerClient ==
    \A i, j \in DOMAIN broadcast_list :
        broadcast_list[i].ip = broadcast_list[j].ip => i = j

\* receive_file tests send_count == GRAPH_COLLECT_NO: the count may not jump over
\* it, or clients would never be switched to depth first.
SendCountStops == send_count <= GRAPH_COLLECT_NO

\* main leaves no full round behind when it goes back to accept, so rand() %
\* collect_count and the files of a round stay in range.
RoundNotFull ==
    pc \in {"accept", "receive", "reply", "judge", "saveCE", "writeCE", "keep"}
        => collect_count < GRAPH_COLLECT_NO

BeingCopied(n, k) == pc = "writeCE" /\ n = gsize /\ k = collect_count
Torn(n, k) == <<n, k>> \in torn
IsCounterexample(f, n) == f \in Graph /\ f.gsize = n /\ f.cliques = 0

\* ce_<n> holds graphs of n nodes without a clique, and what is neither such a graph
\* nor absent is a file main is copying now, or one a process died copying and no
\* later copy has completed: ce_<n> outlives the process and nothing repairs it
\* (server.c:159-161, server_transfer.c:335-347).
CEWholeOrTorn ==
    \A n \in DOMAIN ce : \A k \in Index :
        \/ ce[n][k] = NoFile
        \/ IsCounterexample(ce[n][k], n)
        \/ ce[n][k] = Broken /\ (BeingCopied(n, k) \/ Torn(n, k))

\* A collected counterexample whose directory exists is in both places, under the
\* same number (server.c:159-164).
CEComplete ==
    \A k \in 0 .. Kept - 1 :
        LET f == seed[CurDir][k] IN
        f \in Graph /\ f.cliques = 0 /\ f.gsize \in DOMAIN ce => ce[f.gsize][k] = f

-----------------------------------------------------------------------------
\* Once depth first, a round stays depth first: only its end (or the end of the
\* process) makes the server hand out graphs in order again.
DepthFirstStable ==
    [][send_count = GRAPH_COLLECT_NO /\ pc \notin {"round", "down"}
         => send_count' = GRAPH_COLLECT_NO]_vars

\* The server goes through rounds as SeedRounds promises.
Rounds == INSTANCE SeedRounds WITH
    Quota <- GRAPH_COLLECT_NO,
    TopTarget <- RECURSION_THRESHOLD - 1,
    Finds <- Uploads \cap Graph,
    target <- clique_count,
    collected <- [k \in 1 .. Kept |-> seed[CurDir][k - 1]],
    pool <- [k \in 1 .. GRAPH_COLLECT_NO |-> seed[PrevDir][k - 1]],
    up <- pc # "down",
    Nothing <- NoReply,
    handed <- IF reply = NoReply THEN NoReply ELSE reply.file

ImplementsRounds == Rounds!RoundsSpec

\* main always gets back to accept: a broadcast ends, whoever has retreated.
BackToAccept == pc # "accept" ~> pc = "accept"

\* If the process stays up and graphs keep coming, the target goes down to 0 and
\* starts again from the top, for ever.
RoundsGoOn == <>[](pc # "down") =>
    []<>(clique_count = 0) /\ []<>(clique_count = RECURSION_THRESHOLD - 1)
=============================================================================
