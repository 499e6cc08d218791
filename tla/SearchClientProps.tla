------------------------- MODULE SearchClientProps -------------------------
(***************************************************************************)
(* What makes a client correct although its threads share a flag, a file   *)
(* and two globals without a lock, and what they cannot guarantee so.      *)
(***************************************************************************)
EXTENDS SearchClient

Places == {"none", "mode", "target", "open", "file", "flag"}
PCs == Modes \cup
       {"check", "await", "poll", "load", "rest", "choose", "test", "request", "exited"}

Remainder == [mode : Modes \cup {"none"}, target : Target, units : Seq(Unit)]

\* A file as a stream writes it: a graph's, or one buffer longer.
Length == {Units, Units + 1}

\* What a connection still has to deliver, by how far receive_file is.
ConnOK(t) ==
    /\ at[t] = "mode" => conn[t] \in Message
    /\ at[t] \in {"target", "open"} => Len(conn[t].units) \in Length
    /\ at[t] = "file" =>
         Len(conn[t].units) > 0 /\ fp[t] + Len(conn[t].units) \in Length

\* Every variable has its type; wherever the two threads' streams are, old_graph is at
\* most one stdio buffer longer than a graph, the one a short header read can add
\* (client_transfer.c:88-136).
TypeOK ==
    /\ recv_flag \in BOOLEAN
    /\ search_mode \in Modes
    /\ best_ever \in Target /\ target \in Target
    /\ old_graph \in Seq(Unit) /\ Len(old_graph) <= Units + 1
    /\ g \in Seq(Unit)
    /\ pc \in PCs
    /\ at \in [Threads -> Places]
    /\ fp \in [Threads -> Nat]
    /\ conn \in [Threads -> Remainder] /\ \A t \in Threads : ConnOK(t)
    /\ queue \in Seq(Message)
    /\ gaveUp \in BOOLEAN

\* No thread is between fopen and recv_flag = true.
FileAtRest == \A t \in Threads : at[t] \notin {"file", "flag"}

\* No graph is forgotten: when recv_flag is down and the file at rest, main works
\* on what the file holds.  Clearing the flag after load_graph instead of before
\* (client.c:41-42), or setting it before fclose, would lose one.
LoadedIsFile ==
    ~recv_flag /\ FileAtRest /\ pc \in {"choose"} \cup Modes => g = old_graph

\* The search that runs undisturbed is of the kind the last header asked for, though
\* the header and the flag are set by two threads at different times
\* (client_transfer.c:97-104, client.c:43).
RunsAsTold ==
    pc \in Modes /\ ~recv_flag /\ ~gaveUp
    /\ (\A t \in Threads : at[t] \in {"none", "mode"})
    => pc = search_mode

\* "reads a graph of the correct format" (graph.c:57): what an undisturbed search
\* works on is one message's graph.  With two receptions at once it may not be.
LoadsWhole == pc \in Modes /\ ~recv_flag /\ FileAtRest => Whole(g)

\* "Current searching target" (client_transfer.c:109): when all that was sent has
\* been received and loaded, the client aims at the server's target.
AimsAtTarget ==
    pc \in Modes /\ ~recv_flag /\ queue = << >> /\ (\A t \in Threads : at[t] = "none")
    => best_ever = target

-----------------------------------------------------------------------------
\* A graph that has come is loaded, whatever search is running (search.c:121-193,
\* client.c:39-52).
FlagNoticed == recv_flag ~> pc \in {"load", "exited"}

\* A client goes on searching for ever unless a connection broke before its graph:
\* then it sleeps until a broadcast comes (client_transfer.c:96, client.c:51).
NeverIdle == []<>(pc \in Modes \cup {"exited"} \/ gaveUp)
=============================================================================
