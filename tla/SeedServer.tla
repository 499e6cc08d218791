----------------------------- MODULE SeedServer -----------------------------
(***************************************************************************)
(* The server of src/server: main's accept loop, receive_file, send_file,  *)
(* broadcast_graph and the directories file/server/seed_0, seed_1, ce_<n>. *)
(*                                                                         *)
(* main is one thread and serves one connection at a time; pc is its place *)
(* in the loop.  What clients and the network do is an input: who connects,*)
(* what the connection carries, whether it breaks, whether a client can be *)
(* reached by a broadcast.  The process may die between any two steps and  *)
(* be started again.                                                       *)
(*                                                                         *)
(* A graph is its size and its number of 7-cliques, the only things the    *)
(* server looks at (CliqueCount is modelled on its own).                   *)
(***************************************************************************)
EXTENDS Naturals, Sequences, FiniteSets

CONSTANTS
    Clients,             \* the addresses clients connect from
    GRAPH_COLLECT_NO,    \* graphs per round (1000)
    RECURSION_THRESHOLD, \* one above the top target (70)
    MAX_DES,             \* slots of broadcast_list (100)
    MaxCliques,          \* bound on the cliques of a graph clients upload
    MaxGsize,            \* bound on the size no graph was read for: gsize at
                         \* the start, and a gsize that unread files are judged by
    Uploads,             \* file contents clients upload: graphs, perhaps Broken
    Seeds,               \* graphs an operator puts into seed_0
    CEDirs,              \* the ce_<n> that exist when the server is installed
    NoPeer,              \* connectedSocket is closed
    Broken,              \* content ReadGraph rejects: empty or cut off
    NoReply,             \* nothing was handed out
    NoFile,              \* there is no file of that name
    Garbage              \* memory CliqueCount may not read: g before a graph
                         \* is read, or g smaller than gsize says

Graph == [gsize : Nat, cliques : Nat]
Index == 0 .. GRAPH_COLLECT_NO - 1
Content == Graph \cup {Broken, NoFile}
Dirs == {0, 1}

ASSUME SizesAssumption ==
    /\ GRAPH_COLLECT_NO \in Nat \ {0}
    /\ MaxCliques \in Nat
    /\ MaxGsize \in Nat
\* 70: the wrap from target 0 to the top target keeps alternating the two
\* directories, and seed_0 is the first source, only if this is even.
ASSUME ThresholdAssumption ==
    RECURSION_THRESHOLD \in Nat \ {0} /\ RECURSION_THRESHOLD % 2 = 0
ASSUME ContentAssumption ==
    /\ Broken \notin Graph /\ NoFile \notin Graph /\ Garbage \notin Graph
    /\ Broken # NoFile
    /\ Seeds \subseteq Graph /\ Seeds # {}
    /\ Uploads \subseteq Graph \cup {Broken}
    /\ CEDirs \subseteq Nat
\* The program checks neither: a 101st address is written past broadcast_list.
ASSUME ClientsAssumption ==
    /\ IsFiniteSet(Clients) /\ NoPeer \notin Clients
    /\ MAX_DES \in Nat
    /\ Cardinality(Clients) <= MAX_DES
    /\ MAX_DES <= GRAPH_COLLECT_NO

VARIABLES
    pc,              \* where main is, "down" when there is no process
    peer,            \* whom connectedSocket is connected to
    mode,            \* send_mode of the reply main is about to send
    broadcast_list,  \* the clients seen so far, [ip, active], in order
    next,            \* i of broadcast_graph's loop
    send_count, collect_count, clique_count,
    gsize, g,        \* main's locals, as the last ReadGraph left them
    temp,            \* file/server/temp/temp
    seed,            \* file/server/seed_<d>/<k>
    ce,              \* file/server/ce_<n>/<k>, for the n whose directory exists
    torn,            \* history: the <<n, k>> of ce that a process died writing,
                     \* and that no copy has completed since
    reply            \* the message the last step handed out, if any

memory == <<broadcast_list, send_count, collect_count, clique_count, gsize, g>>
disk == <<seed, ce, torn>>
vars == <<pc, peer, mode, next, memory, temp, disk, reply>>

Modes == {"restart", "continue", "order"}
NoMode == "none"
EmptyDir == [k \in Index |-> NoFile]
DirOf(count) == count % 2
CurDir == DirOf(clique_count)       \* what the round has collected
PrevDir == DirOf(clique_count + 1)  \* what the round starts from

-----------------------------------------------------------------------------
(* main, receive_file *)

\* The globals, main's uninitialized locals, and empty counters.
InitMemory ==
    /\ broadcast_list = << >>
    /\ send_count = 0
    /\ collect_count = 0
    /\ clique_count = RECURSION_THRESHOLD - 1
    /\ gsize \in 0 .. MaxGsize
    /\ g = Garbage

Init ==
    /\ pc = "accept"
    /\ peer = NoPeer
    /\ mode = NoMode
    /\ next = 1
    /\ InitMemory
    /\ temp = NoFile
    /\ seed \in [Dirs -> [Index -> Seeds \cup {NoFile}]]
    /\ \A k \in Index : seed[0][k] \in Seeds
    /\ ce = [n \in CEDirs |-> EmptyDir]
    /\ torn = {}
    /\ reply = NoReply

RegisterAnew(ip) == Append(broadcast_list, [ip |-> ip, active |-> TRUE])  \* mutant

\* A known address becomes active again, a new one gets the next slot.
Register(ip) ==
    IF \E i \in DOMAIN broadcast_list : broadcast_list[i].ip = ip
    THEN [i \in DOMAIN broadcast_list |->
            IF broadcast_list[i].ip = ip
            THEN [broadcast_list[i] EXCEPT !.active = TRUE]
            ELSE broadcast_list[i]]
    ELSE Append(broadcast_list, [ip |-> ip, active |-> TRUE])

Accept(ip) ==
    /\ pc = "accept"
    /\ peer' = ip
    /\ broadcast_list' = Register(ip)
    /\ pc' = "receive"
    /\ reply' = NoReply
    /\ UNCHANGED <<mode, next, send_count, collect_count, clique_count, gsize, g,
                   temp, disk>>

\* recv fails, or the log is asked for: nothing of the search changes.
ReceiveOther ==
    /\ pc = "receive"
    /\ pc' = "accept"
    /\ peer' = NoPeer
    /\ UNCHANGED <<mode, next, memory, temp, disk, reply>>

DepthFirstLate == send_count > GRAPH_COLLECT_NO  \* mutant

\* Once GRAPH_COLLECT_NO graphs of the pool are out, clients search depth first.
DepthFirst == send_count = GRAPH_COLLECT_NO /\ collect_count # GRAPH_COLLECT_NO

\* 'c' or 'r': a client asks for a graph.
ReceiveRequest ==
    /\ pc = "receive"
    /\ mode' = IF ~DepthFirst THEN "order"
               ELSE IF collect_count = 0 THEN "restart" ELSE "continue"
    /\ pc' = "reply"
    /\ UNCHANGED <<peer, next, memory, temp, disk, reply>>

\* Anything else, the empty message of a closed connection too, is a graph.
ReceiveGraph(f) ==
    /\ pc = "receive"
    /\ f = Broken => gsize < MaxGsize
    /\ temp' = f
    /\ pc' = "judge"
    /\ UNCHANGED <<peer, mode, next, memory, disk, reply>>

-----------------------------------------------------------------------------
(* send_file *)

SourceDirOfTarget(m) == CurDir  \* mutant

SourceDir(m) == IF m = "continue" THEN CurDir ELSE PrevDir

SendNoOneMore(m) == IF m = "continue" THEN 0 .. collect_count ELSE Index  \* mutant

\* The indices the random choices of send_file can give.
SendNo(m) ==
    CASE m = "restart"  -> Index
      [] m = "continue" -> 0 .. collect_count - 1
      [] m = "order"    -> {(send_count * 25 + r) % GRAPH_COLLECT_NO : r \in 0 .. 99}

\* What the client gets: the search mode, the target and the file, which is
\* NoFile if send_file could not open it.
Message(to, m, n) ==
    [to |-> to, mode |-> m, target |-> clique_count, file |-> seed[SourceDir(m)][n]]

CountedAll(m) == TRUE  \* mutant

Counted(m) == m = "order"

\* The header cannot be sent and send_file returns; or a file is chosen and
\* counted, which the client gets unless the connection breaks.
SendFile(to, m) ==
    \/ /\ reply' = NoReply
       /\ UNCHANGED send_count
    \/ /\ reply' = NoReply \/ \E n \in SendNo(m) : reply' = Message(to, m, n)
       /\ send_count' = IF Counted(m) THEN send_count + 1 ELSE send_count

Reply ==
    /\ pc = "reply"
    /\ SendFile(peer, mode)
    /\ mode' = NoMode
    /\ peer' = NoPeer
    /\ pc' = "accept"
    /\ UNCHANGED <<next, broadcast_list, collect_count, clique_count, gsize, g, temp,
                   disk>>

-----------------------------------------------------------------------------
(* An uploaded graph: ReadGraph, CliqueCount, copy() to ce_<n> and to seed_<d> *)

\* CliqueCount of what ReadGraph left in g: a rejected file leaves g as it was.
Counts(content, memg) ==
    IF content \in Graph THEN {content.cliques}
    ELSE IF memg = Garbage THEN 0 .. MaxCliques
    ELSE {memg.cliques}

PassesOneOver(count) == count <= clique_count + 1  \* mutant

Passes(count) == count <= clique_count

RoundOverLate(n) == n > GRAPH_COLLECT_NO  \* mutant

RoundOver(n) == n >= GRAPH_COLLECT_NO

IsCE(count) == count = 0

SaveCEShifted(size, k, content) ==  \* mutant
    [n \in DOMAIN ce |-> IF n = size THEN [ce[n] EXCEPT ![(k + 1) % GRAPH_COLLECT_NO] = content] ELSE ce[n]]

\* What copy() has made of ce_<size>/<k>: nothing, if there is no such directory
\* and fopen fails.
SaveCE(size, k, content) ==
    [n \in DOMAIN ce |-> IF n = size THEN [ce[n] EXCEPT ![k] = content] ELSE ce[n]]

\* The test for the end of the round, after which temp is rewritten before it is
\* read again.
EndOfUpload ==
    /\ pc' = IF RoundOver(collect_count) THEN "round" ELSE "accept"
    /\ peer' = IF RoundOver(collect_count) THEN peer ELSE NoPeer
    /\ temp' = NoFile

\* An obsolete graph stays in temp.
Judge ==
    /\ pc = "judge"
    /\ g' = IF temp \in Graph THEN temp ELSE g
    /\ gsize' = IF temp \in Graph THEN temp.gsize ELSE gsize
    /\ \E count \in Counts(temp, g) :
          \/ IsCE(count) /\ pc' = "saveCE" /\ UNCHANGED <<temp, peer>>
          \/ ~IsCE(count) /\ Passes(count) /\ pc' = "keep" /\ UNCHANGED <<temp, peer>>
          \/ ~IsCE(count) /\ ~Passes(count) /\ EndOfUpload
    /\ UNCHANGED <<mode, next, broadcast_list, send_count, collect_count,
                   clique_count, disk, reply>>

\* copy() empties the file when it opens it, and it is whole only once closed.
OpenCE ==
    /\ pc = "saveCE"
    /\ ce' = SaveCE(gsize, collect_count, Broken)
    /\ pc' = IF gsize \in DOMAIN ce THEN "writeCE" ELSE "keep"
    /\ UNCHANGED <<peer, mode, next, memory, temp, seed, torn, reply>>

CloseCEUnflushed ==  \* mutant
    /\ pc = "writeCE"
    /\ pc' = "keep"
    /\ UNCHANGED <<peer, mode, next, memory, temp, disk, reply>>

CloseCE ==
    /\ pc = "writeCE"
    /\ ce' = SaveCE(gsize, collect_count, temp)
    /\ torn' = torn \ {<<gsize, collect_count>>}
    /\ pc' = "keep"
    /\ UNCHANGED <<peer, mode, next, memory, temp, seed, reply>>

OpenSeed ==
    /\ pc = "keep"
    /\ seed' = [seed EXCEPT ![CurDir][collect_count] = Broken]
    /\ collect_count' = collect_count + 1
    /\ pc' = "writeSeed"
    /\ UNCHANGED <<peer, mode, next, broadcast_list, send_count, clique_count, gsize,
                   g, temp, ce, torn, reply>>

CloseSeed ==
    /\ pc = "writeSeed"
    /\ seed' = [seed EXCEPT ![CurDir][collect_count - 1] = temp]
    /\ EndOfUpload
    /\ UNCHANGED <<mode, next, memory, ce, torn, reply>>

-----------------------------------------------------------------------------
(* The end of a round: the next target, delete_graph, broadcast_graph *)

NextTargetNoWrap == IF clique_count = 0 THEN 0 ELSE clique_count - 1  \* mutant
NextTargetUnbounded == clique_count - 1  \* mutant

NextTarget == IF clique_count = 0 THEN RECURSION_THRESHOLD - 1 ELSE clique_count - 1

CleanedOther(target) == DirOf(target + 1)  \* mutant

Cleaned(target) == DirOf(target)

MakeCEDir(n) ==
    [m \in DOMAIN ce \cup {n} |-> IF m \in DOMAIN ce THEN ce[m] ELSE EmptyDir]

NextRound ==
    /\ pc = "round"
    /\ clique_count' = NextTarget
    /\ IF clique_count = 0
       THEN /\ gsize' = gsize + 1
            /\ g' = Garbage
            /\ ce' = MakeCEDir(gsize + 1)
       ELSE UNCHANGED <<gsize, g, ce>>
    /\ seed' = [seed EXCEPT ![Cleaned(clique_count')] = EmptyDir]
    /\ collect_count' = 0
    /\ send_count' = 0
    /\ next' = 1
    /\ pc' = "broadcast"
    /\ UNCHANGED <<peer, mode, broadcast_list, temp, torn, reply>>

InLoop == pc = "broadcast" /\ next \in DOMAIN broadcast_list

BroadcastStuck ==  \* mutant
    /\ InLoop
    /\ ~broadcast_list[next].active
    /\ reply' = NoReply
    /\ UNCHANGED <<pc, peer, mode, next, memory, temp, disk>>

BroadcastSkip ==
    /\ InLoop
    /\ ~broadcast_list[next].active
    /\ next' = next + 1
    /\ reply' = NoReply
    /\ UNCHANGED <<pc, peer, mode, memory, temp, disk>>

BroadcastSend ==
    /\ InLoop
    /\ broadcast_list[next].active
    /\ SendFile(broadcast_list[next].ip, "order")
    /\ next' = next + 1
    /\ UNCHANGED <<pc, peer, mode, broadcast_list, collect_count, clique_count,
                   gsize, g, temp, disk>>

\* connect fails, the client has retreated; or no socket at all, nothing changes.
BroadcastFails(retreats) ==
    /\ InLoop
    /\ broadcast_list[next].active
    /\ broadcast_list' = [broadcast_list EXCEPT ![next].active = ~retreats]
    /\ next' = next + 1
    /\ reply' = NoReply
    /\ UNCHANGED <<pc, peer, mode, send_count, collect_count, clique_count, gsize, g,
                   temp, disk>>

BroadcastDone ==
    /\ pc = "broadcast"
    /\ next \notin DOMAIN broadcast_list
    /\ next' = 1
    /\ peer' = NoPeer
    /\ pc' = "accept"
    /\ reply' = NoReply
    /\ UNCHANGED <<mode, memory, temp, disk>>

-----------------------------------------------------------------------------
(* Death of the process (SIGPIPE in send, fclose(NULL), a bad read), restart *)

\* A file that was open stays as it is, empty or cut off.
Crash ==
    /\ pc # "down"
    /\ pc' = "down"
    /\ torn' = IF pc = "writeCE" THEN torn \cup {<<gsize, collect_count>>} ELSE torn
    /\ reply' = NoReply
    /\ UNCHANGED <<peer, mode, next, memory, temp, seed, ce>>

\* The operator fills seed_0 again before starting the server (README).
Start ==
    /\ pc = "down"
    /\ pc' = "accept"
    /\ peer' = NoPeer
    /\ mode' = NoMode
    /\ next' = 1
    /\ broadcast_list' = << >>
    /\ send_count' = 0
    /\ collect_count' = 0
    /\ clique_count' = RECURSION_THRESHOLD - 1
    /\ gsize' \in 0 .. MaxGsize
    /\ g' = Garbage
    /\ temp' = NoFile
    /\ \E s \in [Index -> Seeds] : seed' = [seed EXCEPT ![0] = s]
    /\ reply' = NoReply
    /\ UNCHANGED <<ce, torn>>

-----------------------------------------------------------------------------
Serve ==
    \/ Reply \/ Judge \/ OpenCE \/ CloseCE \/ OpenSeed \/ CloseSeed \/ NextRound
    \/ BroadcastSkip \/ BroadcastSend \/ BroadcastDone
    \/ \E retreats \in BOOLEAN : BroadcastFails(retreats)

Receive == ReceiveOther \/ ReceiveRequest \/ \E f \in Uploads : ReceiveGraph(f)

Next ==
    \/ \E ip \in Clients : Accept(ip)
    \/ Receive
    \/ Serve
    \/ Crash
    \/ Start

Spec == Init /\ [][Next]_vars

\* main is a running thread; recv has no timeout, so that a peer sends or closes
\* in the end is an assumption.  Clients that keep finding graphs with no clique
\* get one through again and again (strong: other connections come in between).
Fairness ==
    /\ WF_vars(Serve)
    /\ WF_vars(Receive)
    /\ WF_vars(\E ip \in Clients : Accept(ip))
    /\ WF_vars(Start)
    /\ SF_vars(\E f \in Uploads \cap Graph : f.cliques = 0 /\ ReceiveGraph(f))

FairSpec == Spec /\ Fairness
=============================================================================
