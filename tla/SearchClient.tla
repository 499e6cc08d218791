---------------------------- MODULE SearchClient ----------------------------
(***************************************************************************)
(* The client of src/client: the thread main, which loads graphs, searches *)
(* and asks for more, and the thread listener, which the server's          *)
(* broadcasts reach.  Both run receive_file, on recv_flag, search_mode,    *)
(* best_ever and the file old_graph, without a lock: an action is one      *)
(* access to these by one thread.                                          *)
(*                                                                         *)
(* The server is an input: it answers requests and broadcasts, both with   *)
(* its current target.  A search is its start and its end (its inside is   *)
(* modelled on its own).                                                   *)
(***************************************************************************)
EXTENDS Naturals, Sequences

CONSTANTS
    Graphs,     \* the graphs the server hands out
    TopTarget,  \* the server's first target
    Units,      \* stdio buffers a graph file takes
    Backlog,    \* connections that wait for the listener (1)
    Faults,     \* what may go wrong, of "cut", "short" and "refuse"
    Junk        \* a unit of a file received out of step or in part, or a hole in it

Threads == {"main", "listener"}
Modes == {"bf", "df"}  \* SEARCH_MODE_BREADTH_FIRST, SEARCH_MODE_DEPTH_FIRST
Target == 0 .. TopTarget
Unit == [graph : Graphs, part : 1 .. Units] \cup {Junk}
File == {units \in Seq(Unit) : Len(units) = Units}
Message == [mode : Modes, target : Target, units : File]
\* A connection with nothing to deliver; what is received is replaced by its parts.
Nothing == [mode |-> "none", target |-> 0, units |-> << >>]

ASSUME ClientAssumption ==
    /\ TopTarget \in Nat
    /\ Units \in Nat \ {0}
    /\ Backlog \in Nat
    /\ Faults \subseteq {"cut", "short", "refuse"}
    /\ Junk \notin [graph : Graphs, part : 1 .. Units]

VARIABLES
    recv_flag, search_mode, best_ever,
    old_graph,  \* the file, a sequence of units
    pc,         \* where main is: searching in one of the Modes, or elsewhere;
                \* "exited" is the end of both threads
    at,         \* where a thread is in receive_file
    conn,       \* what a thread's connection has not delivered yet
    fp,         \* how many units a thread's stream has written to old_graph
    g,          \* what load_graph has read of old_graph, until it is freed
    queue,      \* broadcasts that wait for the listener
    target,     \* the server's clique_count
    gaveUp      \* the last receive_file to return did so without recv_flag

shared == <<recv_flag, search_mode, best_ever, old_graph>>
receiving == <<at, conn, fp, gaveUp>>
server == <<queue, target>>
vars == <<shared, pc, receiving, g, server>>

Init ==
    /\ recv_flag = FALSE
    /\ search_mode = "df"  \* a zero
    /\ best_ever = 0
    /\ old_graph = << >>
    /\ pc = "check"
    /\ at = [t \in Threads |-> "none"]
    /\ conn = [t \in Threads |-> Nothing]
    /\ fp = [t \in Threads |-> 0]
    /\ g = << >>
    /\ queue = << >>
    /\ target = TopTarget
    /\ gaveUp = FALSE

Up == pc # "exited"

-----------------------------------------------------------------------------
(* The server, as a client sees it *)

FileOf(f) == [k \in 1 .. Units |-> [graph |-> f, part |-> k]]

\* The answer to 'c' or 'r', in either mode.
ServerReplies(f, m) ==
    /\ pc = "await" /\ at["main"] = "none"
    /\ conn' = [conn EXCEPT !["main"] =
                  [mode |-> m, target |-> target, units |-> FileOf(f)]]
    /\ at' = [at EXCEPT !["main"] = "mode"]
    /\ UNCHANGED <<shared, pc, fp, gaveUp, g, server>>

\* A round ends; the server connects to the listener.
ServerBroadcasts(f) ==
    /\ Up /\ Len(queue) < Backlog
    /\ target' = IF target = 0 THEN TopTarget ELSE target - 1
    /\ queue' = Append(queue, [mode |-> "bf", target |-> target', units |-> FileOf(f)])
    /\ UNCHANGED <<shared, pc, receiving, g>>

ListenerAccepts ==
    /\ Up /\ at["listener"] = "none" /\ queue # << >>
    /\ conn' = [conn EXCEPT !["listener"] = Head(queue)]
    /\ at' = [at EXCEPT !["listener"] = "mode"]
    /\ queue' = Tail(queue)
    /\ UNCHANGED <<shared, pc, fp, gaveUp, g, target>>

-----------------------------------------------------------------------------
(* receive_file in thread t *)

\* Back to main's loop, or to the listener's accept.
Return(t) ==
    /\ at' = [at EXCEPT ![t] = "none"]
    /\ conn' = [conn EXCEPT ![t] = Nothing]
    /\ pc' = IF t = "main" THEN "poll" ELSE pc

\* recv returns nothing, or the file cannot be opened.
GiveUp(t) ==
    /\ Up /\ "cut" \in Faults
    /\ at[t] \in {"mode", "target", "open"}
    /\ Return(t)
    /\ gaveUp' = TRUE
    /\ UNCHANGED <<shared, fp, g, server>>

\* A short read leaves zeros of its block to the next recv: atoi makes 0 of them,
\* and the file gets the rest of the header's blocks in front of the graph.  They are
\* less than a stdio buffer, which may or may not take one buffer more.
OutOfStep == {[k \in 1 .. n |-> Junk] : n \in {Units, Units + 1}}

FileAfter(t, short) == IF short THEN OutOfStep ELSE {conn[t].units}

RecvMode(t, short) ==
    /\ Up /\ at[t] = "mode"
    /\ short => "short" \in Faults
    /\ search_mode' = conn[t].mode
    /\ \E units \in FileAfter(t, short) :
         conn' = [conn EXCEPT ![t] =
                    [Nothing EXCEPT !.target = IF short THEN 0 ELSE conn[t].target,
                                    !.units = units]]
    /\ at' = [at EXCEPT ![t] = "target"]
    /\ UNCHANGED <<recv_flag, best_ever, old_graph, pc, fp, gaveUp, g, server>>

RecvTarget(t, short) ==
    /\ Up /\ at[t] = "target"
    /\ short => "short" \in Faults
    /\ best_ever' = conn[t].target
    /\ \E units \in FileAfter(t, short) :
         conn' = [conn EXCEPT ![t] = [Nothing EXCEPT !.units = units]]
    /\ at' = [at EXCEPT ![t] = "open"]
    /\ UNCHANGED <<recv_flag, search_mode, old_graph, pc, fp, gaveUp, g, server>>

OpenOldGraph(t) ==
    /\ Up /\ at[t] = "open"
    /\ old_graph' = << >>
    /\ fp' = [fp EXCEPT ![t] = 0]
    /\ at' = [at EXCEPT ![t] = "file"]
    /\ UNCHANGED <<recv_flag, search_mode, best_ever, pc, conn, gaveUp, g, server>>

WriteAtNext(file, k, unit) ==  \* mutant
    [j \in 1 .. k + 1 |->
        IF j = k + 1 THEN unit ELSE IF j <= Len(file) THEN file[j] ELSE Junk]

\* A write of the k-th unit of a file the other thread may have truncated.
WriteAt(file, k, unit) ==
    [j \in 1 .. (IF k > Len(file) THEN k ELSE Len(file)) |->
        IF j = k THEN unit ELSE IF j <= Len(file) THEN file[j] ELSE Junk]

\* fwrite hands a full buffer to the file; the last one stays with the stream.
RecvUnit(t) ==
    /\ Up /\ at[t] = "file" /\ Len(conn[t].units) > 1
    /\ old_graph' = WriteAt(old_graph, fp[t] + 1, Head(conn[t].units))
    /\ fp' = [fp EXCEPT ![t] = fp[t] + 1]
    /\ conn' = [conn EXCEPT ![t].units = Tail(@)]
    /\ UNCHANGED <<recv_flag, search_mode, best_ever, pc, at, gaveUp, g, server>>

\* The connection ends, at the end of the file or before; fclose writes what the
\* stream still holds: the last unit, or a part of the next one, or nothing.
CloseOldGraph(t) ==
    /\ Up /\ at[t] = "file"
    /\ \/ /\ Len(conn[t].units) = 1
          /\ old_graph' = WriteAt(old_graph, fp[t] + 1, Head(conn[t].units))
       \/ /\ "cut" \in Faults
          /\ old_graph' \in {old_graph, WriteAt(old_graph, fp[t] + 1, Junk)}
    /\ fp' = [fp EXCEPT ![t] = 0]
    /\ conn' = [conn EXCEPT ![t] = Nothing]
    /\ at' = [at EXCEPT ![t] = "flag"]
    /\ UNCHANGED <<recv_flag, search_mode, best_ever, pc, gaveUp, g, server>>

SetFlag(t) ==
    /\ Up /\ at[t] = "flag"
    /\ recv_flag' = TRUE
    /\ gaveUp' = FALSE
    /\ Return(t)
    /\ UNCHANGED <<search_mode, best_ever, old_graph, fp, g, server>>

-----------------------------------------------------------------------------
(* main *)

\* send_check, and later send_request, connect and send their letter.
Connect ==
    /\ pc \in {"check", "request"}
    /\ pc' = "await"
    /\ UNCHANGED <<shared, receiving, g, server>>

\* create_connection exits when the server is not there, also for an upload.
Refused ==
    /\ "refuse" \in Faults
    /\ pc \in {"check", "request"} \cup Modes
    /\ pc' = "exited"
    /\ UNCHANGED <<shared, receiving, g, server>>

Poll ==
    /\ pc = "poll" /\ recv_flag
    /\ recv_flag' = FALSE
    /\ pc' = "load"
    /\ UNCHANGED <<search_mode, best_ever, old_graph, receiving, g, server>>

Sleep ==
    /\ pc = "poll" /\ ~recv_flag
    /\ UNCHANGED vars

\* load_graph fills one buffer, then the rest; on an empty file it gives up.
LoadFirst ==
    /\ pc = "load"
    /\ g' = IF old_graph = << >> THEN << >> ELSE <<Head(old_graph)>>
    /\ pc' = "rest"
    /\ UNCHANGED <<shared, receiving, server>>

LoadRestAndClear ==  \* mutant
    /\ pc = "rest"
    /\ g' = IF g = << >> \/ old_graph = << >> THEN g ELSE g \o Tail(old_graph)
    /\ recv_flag' = FALSE
    /\ pc' = "choose"
    /\ UNCHANGED <<search_mode, best_ever, old_graph, receiving, server>>

LoadRest ==
    /\ pc = "rest"
    /\ g' = IF g = << >> \/ old_graph = << >> THEN g ELSE g \o Tail(old_graph)
    /\ pc' = "choose"
    /\ UNCHANGED <<shared, receiving, server>>

ChooseDF ==  \* mutant
    /\ pc = "choose"
    /\ pc' = "df"
    /\ UNCHANGED <<shared, receiving, g, server>>

Choose ==
    /\ pc = "choose"
    /\ pc' = search_mode
    /\ UNCHANGED <<shared, receiving, g, server>>

\* A graph as it was sent.
Whole(units) ==
    \E f \in Graphs : units = FileOf(f)

\* ReadGraph may reject what is not one graph, and load_graph returns a pointer
\* nobody has set; or ReadGraph takes it, and the search goes on.
SearchGarbage ==
    /\ pc \in Modes /\ ~Whole(g)
    /\ pc' = "exited"
    /\ UNCHANGED <<shared, receiving, g, server>>

DFsearchDeaf ==  \* mutant
    /\ pc = "df" /\ recv_flag /\ search_mode = "bf"
    /\ pc' = "poll"
    /\ g' = << >>
    /\ UNCHANGED <<shared, receiving, server>>

\* Depth first ends when a graph has come, only then.
DFsearch ==
    /\ pc = "df" /\ recv_flag
    /\ pc' = "poll"
    /\ g' = << >>
    /\ UNCHANGED <<shared, receiving, server>>

\* Breadth first ends by itself or when a graph has come.
BFsearch ==
    /\ pc = "bf"
    /\ pc' = "test"
    /\ g' = << >>
    /\ UNCHANGED <<shared, receiving, server>>

AsksWhenFlagged(flag) == flag  \* mutant
AsksFor(flag) == ~flag

Test ==
    /\ pc = "test"
    /\ pc' = IF AsksFor(recv_flag) THEN "request" ELSE "poll"
    /\ UNCHANGED <<shared, receiving, g, server>>

\* The client is started again, beside the file the last process left.
Restart ==
    /\ pc = "exited"
    /\ recv_flag' = FALSE
    /\ search_mode' = "df"
    /\ best_ever' = 0
    /\ pc' = "check"
    /\ at' = [t \in Threads |-> "none"]
    /\ conn' = [t \in Threads |-> Nothing]
    /\ fp' = [t \in Threads |-> 0]
    /\ g' = << >>
    /\ queue' = << >>
    /\ gaveUp' = FALSE
    /\ UNCHANGED <<old_graph, target>>

-----------------------------------------------------------------------------
Receive(t) ==
    \/ GiveUp(t)
    \/ \E short \in BOOLEAN : RecvMode(t, short) \/ RecvTarget(t, short)
    \/ OpenOldGraph(t) \/ RecvUnit(t) \/ CloseOldGraph(t) \/ SetFlag(t)

Main ==
    \/ Connect \/ Poll \/ LoadFirst \/ LoadRest \/ Choose \/ DFsearch \/ Test
    \/ recv_flag /\ BFsearch

Next ==
    \/ \E t \in Threads : Receive(t)
    \/ Connect \/ Refused \/ Poll \/ Sleep \/ LoadFirst \/ LoadRest \/ Choose
    \/ SearchGarbage \/ DFsearch \/ BFsearch \/ Test \/ Restart
    \/ \E f \in Graphs : ServerBroadcasts(f) \/ \E m \in Modes : ServerReplies(f, m)
    \/ ListenerAccepts

Spec == Init /\ [][Next]_vars

\* Both threads run; a search notices the flag (a breadth-first one need not end
\* before); the server answers; a connection delivers or breaks.
Fairness ==
    /\ WF_vars(Main)
    /\ \A t \in Threads : WF_vars(Receive(t))
    /\ WF_vars(\E f \in Graphs, m \in Modes : ServerReplies(f, m))
    /\ WF_vars(ListenerAccepts)

FairSpec == Spec /\ Fairness
=============================================================================
