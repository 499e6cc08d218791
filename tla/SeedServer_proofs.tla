-------------------------- MODULE SeedServer_proofs --------------------------
(***************************************************************************)
(* Proofs of the server's safety for any number of clients, graphs a round *)
(* and targets.                                                            *)
(***************************************************************************)
EXTENDS SeedServerProps, FiniteSetTheorems, SequenceTheorems, TLAPS

-----------------------------------------------------------------------------
(* The counters and the directories, whatever clients upload *)

\* The two places where a round is full, the check that precedes each count of
\* send_file, and the bound of the broadcast loop.
CountersInv ==
    /\ pc \notin {"writeSeed", "round", "down"} => collect_count < GRAPH_COLLECT_NO
    /\ pc = "writeSeed" => collect_count > 0
    /\ pc = "round" => collect_count = GRAPH_COLLECT_NO
    /\ send_count <= GRAPH_COLLECT_NO
    /\ pc = "reply" /\ mode = "order" => send_count < GRAPH_COLLECT_NO
    /\ pc = "broadcast" => next <= Len(broadcast_list) + 1 /\ send_count < next

\* The files the next reply may open.
FilesInv ==
    /\ \A k \in Index : seed[PrevDir][k] # NoFile
    /\ \A k \in 0 .. collect_count - 1 : seed[CurDir][k] # NoFile

Inv == TypeOK /\ CountersInv /\ FilesInv /\ OneSlotPerClient /\ RepliesExist

(* The graphs, when no upload is cut off *)

WholeInv ==
    /\ pc \in {"judge"} \cup Copying => temp \in Uploads
    /\ pc \in Copying => temp.cliques <= clique_count
    /\ SeedsMeetTarget
    /\ PoolComplete
    /\ RepliesAreGraphs
-----------------------------------------------------------------------------
(* Arithmetic of the directories *)

\* seed_0 and seed_1 alternate from one clique count to the next.
LEMMA Parity ==
    ASSUME NEW c \in Nat
    PROVE  /\ DirOf(c) \in Dirs
           /\ DirOf(c + 1) \in Dirs
           /\ DirOf(c) # DirOf(c + 1)
BY DEF DirOf, Dirs

\* The first round collects into seed_1 and starts from seed_0 (server.c:39-40);
\* after target 0, whose graphs are in seed_0, that is so again.
LEMMA TopTargetParity ==
    /\ RECURSION_THRESHOLD - 1 \in 0 .. RECURSION_THRESHOLD - 1
    /\ DirOf(RECURSION_THRESHOLD - 1) = 1
    /\ DirOf(RECURSION_THRESHOLD) = 0
    /\ DirOf(0) = 0
BY ThresholdAssumption DEF DirOf

\* The next round starts from what the last one collected.
LEMMA NextRoundParity ==
    ASSUME clique_count \in 0 .. RECURSION_THRESHOLD - 1
    PROVE  /\ NextTarget \in 0 .. RECURSION_THRESHOLD - 1
           /\ DirOf(NextTarget + 1) = DirOf(clique_count)
<1>1. CASE clique_count = 0
  BY <1>1, TopTargetParity, ThresholdAssumption DEF NextTarget
<1>2. CASE clique_count # 0
  BY <1>2, ThresholdAssumption DEF NextTarget
<1> QED BY <1>1, <1>2

-----------------------------------------------------------------------------
(* Types *)

LEMMA Constants ==
    /\ GRAPH_COLLECT_NO \in Nat \ {0}
    /\ 0 \in Index
    /\ EmptyDir \in [Index -> Content]
    /\ Seeds \subseteq Content
BY SizesAssumption, ContentAssumption DEF Index, EmptyDir, Content

\* The list of addresses stays one of records when an address registers.
LEMMA RegisterType ==
    ASSUME NEW ip \in Clients, broadcast_list \in Seq(Slots)
    PROVE  Register(ip) \in Seq(Slots)
<1>1. CASE \E i \in DOMAIN broadcast_list : broadcast_list[i].ip = ip
  <2>1. \A i \in 1 .. Len(broadcast_list) : broadcast_list[i] \in Slots
    BY ElementOfSeq
  <2>2. \A e \in Slots : [e EXCEPT !.active = TRUE] \in Slots
    BY DEF Slots
  <2>3. Register(ip) \in [1 .. Len(broadcast_list) -> Slots]
    BY <1>1, <2>1, <2>2, LenProperties DEF Register
  <2> QED BY <2>3, LenProperties
<1>2. CASE ~\E i \in DOMAIN broadcast_list : broadcast_list[i].ip = ip
  <2>1. [ip |-> ip, active |-> TRUE] \in Slots
    BY DEF Slots
  <2> QED BY <1>2, <2>1 DEF Register
<1> QED BY <1>1, <1>2

\* send_no is the number of a file: rand() % GRAPH_COLLECT_NO, rand() %
\* collect_count and the stride through the pool stay in the directory.
LEMMA SendNoInRange ==
    ASSUME collect_count \in 0 .. GRAPH_COLLECT_NO, send_count \in Nat,
           NEW m \in Modes, NEW n \in SendNo(m)
    PROVE  n \in Index
<1>1. CASE m = "restart"
  BY <1>1 DEF SendNo
<1>2. CASE m = "continue"
  BY <1>2, SizesAssumption DEF SendNo, Index
<1>3. CASE m = "order"
  <2>1. PICK r \in 0 .. 99 : n = (send_count * 25 + r) % GRAPH_COLLECT_NO
    BY <1>3 DEF SendNo
  <2>2. send_count * 25 + r \in Nat
    OBVIOUS
  <2>3. \A a \in Nat : a % GRAPH_COLLECT_NO \in 0 .. GRAPH_COLLECT_NO - 1
    BY SizesAssumption
  <2> QED BY <2>1, <2>2, <2>3 DEF Index
<1> QED BY <1>1, <1>2, <1>3 DEF Modes

\* What send_file hands out is a message, and the count stays a count.
LEMMA SendFileType ==
    ASSUME TypeOK, NEW to \in Clients, NEW m \in Modes, SendFile(to, m)
    PROVE  send_count' \in Nat /\ reply' \in Messages \cup {NoReply}
<1>1. send_count' \in Nat
  BY DEF SendFile, TypeOK
<1>2. CASE reply' = NoReply
  BY <1>1, <1>2
<1>3. CASE \E n \in SendNo(m) : reply' = Message(to, m, n)
  <2>1. PICK n \in SendNo(m) : reply' = Message(to, m, n)
    BY <1>3
  <2>2. n \in Index
    BY SendNoInRange DEF TypeOK
  <2>3. SourceDir(m) \in Dirs
    BY Parity DEF TypeOK, SourceDir, CurDir, PrevDir
  <2>4. seed[SourceDir(m)][n] \in Content /\ clique_count \in Nat
    BY <2>2, <2>3 DEF TypeOK
  <2> QED BY <1>1, <2>1, <2>4 DEF Message, Messages
<1> QED BY <1>2, <1>3 DEF SendFile

\* The ce_<n> a counterexample goes to stay directories.
LEMMA SaveCEType ==
    ASSUME TypeOK, NEW content \in Content, collect_count \in Index,
           ce' = SaveCE(gsize, collect_count, content)
    PROVE  /\ DOMAIN ce' \subseteq Nat
           /\ ce' = [n \in DOMAIN ce' |-> ce'[n]]
           /\ \A n \in DOMAIN ce' : ce'[n] \in [Index -> Content]
<1>1. ce' = [n \in DOMAIN ce |->
               IF n = gsize THEN [ce[n] EXCEPT ![collect_count] = content] ELSE ce[n]]
  BY DEF SaveCE
<1>2. DOMAIN ce' = DOMAIN ce /\ ce' = [n \in DOMAIN ce' |-> ce'[n]]
  BY <1>1
<1>3. \A n \in DOMAIN ce : ce'[n] \in [Index -> Content]
  BY <1>1 DEF TypeOK
<1> QED BY <1>2, <1>3 DEF TypeOK

\* The directory a graph is kept in stays one.
LEMMA SeedType ==
    ASSUME TypeOK, NEW content \in Content, NEW k \in Index,
           seed' = [seed EXCEPT ![CurDir][k] = content]
    PROVE  seed' \in [Dirs -> [Index -> Content]]
BY Parity DEF TypeOK, CurDir

\* The graph main copies is one of the round's: its number is below the limit.
LEMMA CopyIndex ==
    ASSUME TypeOK, CountersInv
    PROVE  /\ pc \in {"judge", "saveCE", "writeCE", "keep"} => collect_count \in Index
           /\ pc = "writeSeed" => collect_count - 1 \in Index
BY Constants DEF TypeOK, CountersInv, Index

LEMMA MakeCEDirType ==
    ASSUME TypeOK, NEW n \in Nat
    PROVE  /\ DOMAIN MakeCEDir(n) \subseteq Nat
           /\ MakeCEDir(n) = [m \in DOMAIN MakeCEDir(n) |-> MakeCEDir(n)[m]]
           /\ \A m \in DOMAIN MakeCEDir(n) : MakeCEDir(n)[m] \in [Index -> Content]
BY Constants DEF TypeOK, MakeCEDir

LEMMA InitType == Init => TypeOK
<1> SUFFICES ASSUME Init PROVE TypeOK
  OBVIOUS
<1>1. seed \in [Dirs -> [Index -> Content]]
  BY Constants DEF Init, Content
<1>2. clique_count \in 0 .. RECURSION_THRESHOLD - 1
  BY TopTargetParity DEF Init, InitMemory
<1>3. /\ DOMAIN ce \subseteq Nat
      /\ ce = [n \in DOMAIN ce |-> ce[n]]
      /\ \A n \in DOMAIN ce : ce[n] \in [Index -> Content]
  BY Constants, ContentAssumption DEF Init
<1>4. gsize \in Nat
  BY SizesAssumption DEF Init, InitMemory
<1>5. broadcast_list \in Seq(Slots)
  BY EmptySeq DEF Init, InitMemory
<1> QED BY <1>1, <1>2, <1>3, <1>4, <1>5, Constants
        DEF Init, InitMemory, TypeOK, PCs, Copying, NoMode, Content

\* One step per action of main.
LEMMA NextType == TypeOK /\ CountersInv /\ [Next]_vars => TypeOK'
<1> SUFFICES ASSUME TypeOK, CountersInv, [Next]_vars PROVE TypeOK'
  OBVIOUS
<1>1. ASSUME NEW ip \in Clients, Accept(ip) PROVE TypeOK'
  BY <1>1, RegisterType DEF Accept, TypeOK, PCs, Copying, disk
<1>2. CASE ReceiveOther
  BY <1>2 DEF ReceiveOther, TypeOK, PCs, Copying, memory, disk
<1>3. CASE ReceiveRequest
  <2>1. mode' \in Modes
    BY <1>3 DEF ReceiveRequest, Modes
  <2> QED BY <1>3, <2>1 DEF ReceiveRequest, TypeOK, PCs, Copying, memory, disk
<1>4. ASSUME NEW f \in Uploads, ReceiveGraph(f) PROVE TypeOK'
  BY <1>4, ContentAssumption DEF ReceiveGraph, TypeOK, PCs, Copying, memory, disk, Content
<1>5. CASE Reply
  <2>1. peer \in Clients /\ mode \in Modes
    BY <1>5 DEF Reply, TypeOK
  <2>2. send_count' \in Nat /\ reply' \in Messages \cup {NoReply}
    BY <1>5, <2>1, SendFileType DEF Reply
  <2> QED BY <1>5, <2>2 DEF Reply, TypeOK, PCs, Copying, disk
<1>6. CASE Judge
  <2>1. temp \in Graph \cup {Broken} /\ temp \in Content
    BY <1>6 DEF Judge, TypeOK
  <2>2. /\ g' \in Graph \cup {Garbage}
        /\ gsize' \in Nat
        /\ temp' \in Content
    BY <1>6 DEF Judge, EndOfUpload, TypeOK, Graph, Content
  <2>3. /\ pc' \in {"saveCE", "keep", "round", "accept"}
        /\ peer' \in {peer, NoPeer}
        /\ pc' \in Copying => temp' = temp
    BY <1>6 DEF Judge, EndOfUpload, Copying
  <2> QED BY <1>6, <2>1, <2>2, <2>3 DEF Judge, TypeOK, PCs, Copying, disk
<1>15. CASE OpenCE \/ CloseCE
  <2>1. collect_count \in Index /\ temp \in Graph \cup {Broken}
    BY <1>15, CopyIndex DEF OpenCE, CloseCE, TypeOK, Copying
  <2>2. /\ DOMAIN ce' \subseteq Nat
        /\ ce' = [n \in DOMAIN ce' |-> ce'[n]]
        /\ \A n \in DOMAIN ce' : ce'[n] \in [Index -> Content]
    <3>1. PICK content \in Content : ce' = SaveCE(gsize, collect_count, content)
      BY <1>15, <2>1 DEF OpenCE, CloseCE, Content
    <3> QED BY <2>1, <3>1, SaveCEType
  <2>3. pc' \in {"writeCE", "keep"} /\ torn' \subseteq torn
    BY <1>15 DEF OpenCE, CloseCE
  <2> QED BY <1>15, <2>1, <2>2, <2>3 DEF OpenCE, CloseCE, TypeOK, PCs, Copying, memory
<1>16. CASE OpenSeed
  <2>1. collect_count \in Index /\ temp \in Graph \cup {Broken}
    BY <1>16, CopyIndex DEF OpenSeed, TypeOK, Copying
  <2>2. seed' \in [Dirs -> [Index -> Content]]
    <3>1. Broken \in Content
      BY DEF Content
    <3> QED BY <1>16, <2>1, <3>1, SeedType DEF OpenSeed
  <2>3. collect_count' \in 0 .. GRAPH_COLLECT_NO
    BY <1>16, <2>1, Constants DEF OpenSeed, Index
  <2> QED BY <1>16, <2>1, <2>2, <2>3 DEF OpenSeed, TypeOK, PCs, Copying
<1>17. CASE CloseSeed
  <2>1. collect_count - 1 \in Index /\ temp \in Content
    BY <1>17, CopyIndex DEF CloseSeed, TypeOK
  <2>2. seed' \in [Dirs -> [Index -> Content]]
    BY <1>17, <2>1, SeedType DEF CloseSeed
  <2>3. /\ pc' \in {"round", "accept"}
        /\ peer' \in {peer, NoPeer}
        /\ temp' = NoFile /\ NoFile \in Content
    BY <1>17 DEF CloseSeed, EndOfUpload, Content
  <2> QED BY <1>17, <2>1, <2>2, <2>3 DEF CloseSeed, TypeOK, PCs, Copying, memory
<1>7. CASE NextRound
  <2>1. clique_count' \in 0 .. RECURSION_THRESHOLD - 1
    BY <1>7, NextRoundParity DEF NextRound, TypeOK
  <2>2. seed' \in [Dirs -> [Index -> Content]]
    BY <1>7, <2>1, Parity, Constants DEF NextRound, TypeOK, Cleaned
  <2>3. /\ DOMAIN ce' \subseteq Nat
        /\ ce' = [n \in DOMAIN ce' |-> ce'[n]]
        /\ \A n \in DOMAIN ce' : ce'[n] \in [Index -> Content]
        /\ gsize' \in Nat
        /\ g' \in Graph \cup {Garbage}
    <3>1. CASE clique_count = 0
      <4>1. gsize + 1 \in Nat
        BY DEF TypeOK
      <4> QED BY <1>7, <3>1, <4>1, MakeCEDirType DEF NextRound
    <3>2. CASE clique_count # 0
      BY <1>7, <3>2 DEF NextRound, TypeOK
    <3> QED BY <3>1, <3>2
  <2> QED BY <1>7, <2>1, <2>2, <2>3, Constants DEF NextRound, TypeOK, PCs, Copying
<1>8. CASE BroadcastSkip
  BY <1>8 DEF BroadcastSkip, TypeOK, PCs, Copying, memory, disk
<1>9. CASE BroadcastSend
  <2>1. next \in 1 .. Len(broadcast_list) /\ broadcast_list[next] \in Slots
    BY <1>9, LenProperties, ElementOfSeq DEF BroadcastSend, InLoop, TypeOK
  <2>2. broadcast_list[next].ip \in Clients
    BY <2>1 DEF Slots
  <2>3. send_count' \in Nat /\ reply' \in Messages \cup {NoReply}
    BY <1>9, <2>2, SendFileType DEF BroadcastSend, Modes
  <2> QED BY <1>9, <2>3 DEF BroadcastSend, TypeOK, PCs, Copying, disk, InLoop
<1>10. ASSUME NEW retreats \in BOOLEAN, BroadcastFails(retreats) PROVE TypeOK'
  <2>1. next \in 1 .. Len(broadcast_list) /\ broadcast_list[next] \in Slots
    BY <1>10, LenProperties, ElementOfSeq DEF BroadcastFails, InLoop, TypeOK
  <2>2. [broadcast_list[next] EXCEPT !.active = ~retreats] \in Slots
    BY <2>1 DEF Slots
  <2>3. broadcast_list' \in Seq(Slots)
    BY <1>10, <2>1, <2>2, ExceptSeq DEF BroadcastFails, TypeOK
  <2> QED BY <1>10, <2>3 DEF BroadcastFails, TypeOK, PCs, Copying, disk, InLoop
<1>11. CASE BroadcastDone
  BY <1>11 DEF BroadcastDone, TypeOK, PCs, Copying, memory, disk
<1>12. CASE Crash
  <2>1. torn' \subseteq Nat \X Index
    <3>1. CASE pc = "writeCE"
      <4>1. <<gsize, collect_count>> \in Nat \X Index
        BY <3>1, CopyIndex DEF TypeOK
      <4> QED BY <1>12, <3>1, <4>1 DEF Crash, TypeOK
    <3>2. CASE pc # "writeCE"
      BY <1>12, <3>2 DEF Crash, TypeOK
    <3> QED BY <3>1, <3>2
  <2> QED BY <1>12, <2>1 DEF Crash, TypeOK, PCs, Copying, memory
<1>13. CASE Start
  <2>1. PICK s \in [Index -> Seeds] : seed' = [seed EXCEPT ![0] = s]
    BY <1>13 DEF Start
  <2>2. s \in [Index -> Content]
    BY Constants
  <2>3. seed' \in [Dirs -> [Index -> Content]]
    BY <2>1, <2>2 DEF TypeOK, Dirs
  <2>4. broadcast_list' \in Seq(Slots)
    BY <1>13, EmptySeq DEF Start
  <2> QED BY <1>13, <2>3, <2>4, TopTargetParity, SizesAssumption, Constants
          DEF Start, TypeOK, PCs, Copying, NoMode, Content
<1>14. CASE UNCHANGED vars
  BY <1>14 DEF vars, TypeOK, memory, disk
<1> QED BY <1>1, <1>2, <1>3, <1>4, <1>5, <1>6, <1>7, <1>8, <1>9, <1>10, <1>11,
           <1>12, <1>13, <1>14, <1>15, <1>16, <1>17 DEF Next, Receive, Serve

-----------------------------------------------------------------------------
(* Counters *)

\* One slot per address: broadcast_list is not longer than there are clients, so
\* a broadcast counts fewer graphs than a round hands out in order.
LEMMA ListBound ==
    ASSUME TypeOK, OneSlotPerClient
    PROVE  Len(broadcast_list) \in Nat /\ Len(broadcast_list) <= GRAPH_COLLECT_NO
<1> DEFINE L == 1 .. Len(broadcast_list)
           addr == [i \in L |-> broadcast_list[i].ip]
<1>1. Len(broadcast_list) \in Nat /\ DOMAIN broadcast_list = L
  BY LenProperties DEF TypeOK
<1>2. \A i \in L : broadcast_list[i].ip \in Clients
  <2>1. \A i \in L : broadcast_list[i] \in Slots
    BY ElementOfSeq DEF TypeOK
  <2> QED BY <2>1 DEF Slots
<1>3. addr \in Injection(L, Clients)
  BY <1>1, <1>2 DEF OneSlotPerClient, Injection, IsInjective
<1>4. IsFiniteSet(Clients) /\ Cardinality(Clients) \in Nat
  BY ClientsAssumption, FS_CardinalityType
<1>5. Cardinality(L) <= Cardinality(Clients)
  BY <1>3, <1>4, FS_Injection
<1>6. Cardinality(L) = Len(broadcast_list)
  <2>1. 1 \in Int /\ Len(broadcast_list) \in Int
    BY <1>1
  <2>2. Cardinality(1 .. Len(broadcast_list)) =
          IF 1 > Len(broadcast_list) THEN 0 ELSE Len(broadcast_list) - 1 + 1
    BY <2>1, FS_Interval, Zenon
  <2> QED BY <1>1, <2>2
<1> QED BY <1>1, <1>4, <1>5, <1>6, ClientsAssumption, SizesAssumption

\* An address that is known keeps its slot, a new one gets one no other has.
LEMMA RegisterOneSlot ==
    ASSUME TypeOK, OneSlotPerClient, NEW ip \in Clients,
           broadcast_list' = Register(ip)
    PROVE  OneSlotPerClient'
<1>1. /\ Len(broadcast_list) \in Nat
      /\ DOMAIN broadcast_list = 1 .. Len(broadcast_list)
      /\ \A i \in 1 .. Len(broadcast_list) : broadcast_list[i] \in Slots
  BY LenProperties, ElementOfSeq DEF TypeOK
<1>2. CASE \E i \in DOMAIN broadcast_list : broadcast_list[i].ip = ip
  <2>1. broadcast_list' = [i \in DOMAIN broadcast_list |->
            IF broadcast_list[i].ip = ip
            THEN [broadcast_list[i] EXCEPT !.active = TRUE]
            ELSE broadcast_list[i]]
    BY <1>2 DEF Register
  <2>2. \A e \in Slots : [e EXCEPT !.active = TRUE].ip = e.ip
    BY DEF Slots
  <2>3. \A i \in DOMAIN broadcast_list :
            broadcast_list'[i].ip = broadcast_list[i].ip
    BY <1>1, <2>1, <2>2
  <2>4. DOMAIN broadcast_list' = DOMAIN broadcast_list
    BY <2>1
  <2> QED BY <2>3, <2>4 DEF OneSlotPerClient
<1>3. CASE ~\E i \in DOMAIN broadcast_list : broadcast_list[i].ip = ip
  <2> DEFINE new == [ip |-> ip, active |-> TRUE]
  <2>1. broadcast_list' = Append(broadcast_list, new)
    BY <1>3 DEF Register
  <2>2. new \in Slots /\ new.ip = ip
    BY DEF Slots
  <2> HIDE DEF new
  <2>3. /\ DOMAIN broadcast_list' = 1 .. Len(broadcast_list) + 1
        /\ broadcast_list'[Len(broadcast_list) + 1] = new
        /\ \A i \in 1 .. Len(broadcast_list) : broadcast_list'[i] = broadcast_list[i]
    BY <1>1, <2>1, <2>2 DEF TypeOK
  <2> QED BY <1>1, <1>3, <2>2, <2>3 DEF OneSlotPerClient
<1> QED BY <1>2, <1>3

LEMMA NextOneSlot == TypeOK /\ OneSlotPerClient /\ [Next]_vars => OneSlotPerClient'
<1> SUFFICES ASSUME TypeOK, OneSlotPerClient, [Next]_vars PROVE OneSlotPerClient'
  OBVIOUS
<1>1. ASSUME NEW ip \in Clients, Accept(ip) PROVE OneSlotPerClient'
  BY <1>1, RegisterOneSlot DEF Accept
<1>2. ASSUME NEW retreats \in BOOLEAN, BroadcastFails(retreats)
      PROVE  OneSlotPerClient'
  <2>1. next \in DOMAIN broadcast_list
        /\ broadcast_list' = [broadcast_list EXCEPT ![next].active = ~retreats]
    BY <1>2 DEF BroadcastFails, InLoop
  <2>2. \A i \in DOMAIN broadcast_list : broadcast_list[i] \in Slots
    BY LenProperties, ElementOfSeq DEF TypeOK
  <2>3. \A e \in Slots : [e EXCEPT !.active = ~retreats].ip = e.ip
    BY DEF Slots
  <2>4. \A i \in DOMAIN broadcast_list :
            broadcast_list'[i].ip = broadcast_list[i].ip
    BY <2>1, <2>2, <2>3
  <2> QED BY <2>1, <2>4 DEF OneSlotPerClient
<1>3. CASE Start
  <2>1. DOMAIN broadcast_list' = {}
    BY <1>3 DEF Start
  <2> QED BY <2>1 DEF OneSlotPerClient
<1>4. CASE UNCHANGED broadcast_list
  BY <1>4 DEF OneSlotPerClient
<1> QED BY <1>1, <1>2, <1>3, <1>4
        DEF Next, Receive, Serve, vars, memory, ReceiveOther, ReceiveRequest,
            ReceiveGraph, Reply, Judge, OpenCE, CloseCE, OpenSeed, CloseSeed,
            NextRound, BroadcastSkip, BroadcastSend, BroadcastDone, Crash

\* An order reply was chosen while graphs of the pool were left; a broadcast
\* counts at most one graph per slot it has passed.
LEMMA NextCounters ==
    TypeOK /\ OneSlotPerClient /\ CountersInv /\ [Next]_vars => CountersInv'
<1> SUFFICES ASSUME TypeOK, OneSlotPerClient, CountersInv, [Next]_vars
             PROVE  CountersInv'
  OBVIOUS
<1> USE SizesAssumption
<1>1. ASSUME NEW ip \in Clients, Accept(ip) PROVE CountersInv'
  BY <1>1 DEF Accept, CountersInv
<1>2. CASE ReceiveOther
  BY <1>2 DEF ReceiveOther, CountersInv, memory
<1>3. CASE ReceiveRequest
  BY <1>3 DEF ReceiveRequest, CountersInv, memory, DepthFirst, TypeOK
<1>4. ASSUME NEW f \in Uploads, ReceiveGraph(f) PROVE CountersInv'
  BY <1>4 DEF ReceiveGraph, CountersInv, memory
<1>5. CASE Reply
  <2>1. send_count' <= GRAPH_COLLECT_NO
    BY <1>5 DEF Reply, SendFile, Counted, CountersInv, TypeOK
  <2> QED BY <1>5, <2>1 DEF Reply, CountersInv
<1>6. CASE Judge
  <2>1. collect_count < GRAPH_COLLECT_NO /\ collect_count \in Nat
    BY <1>6 DEF Judge, CountersInv, TypeOK
  <2>2. pc' \in {"saveCE", "keep", "accept"}
    BY <1>6, <2>1 DEF Judge, EndOfUpload, RoundOver
  <2> QED BY <1>6, <2>1, <2>2 DEF Judge, CountersInv
<1>15. CASE OpenCE \/ CloseCE
  BY <1>15 DEF OpenCE, CloseCE, CountersInv, memory
<1>16. CASE OpenSeed
  BY <1>16 DEF OpenSeed, CountersInv, TypeOK
<1>17. CASE CloseSeed
  <2>1. pc' = IF collect_count = GRAPH_COLLECT_NO THEN "round" ELSE "accept"
    BY <1>17 DEF CloseSeed, EndOfUpload, RoundOver, TypeOK
  <2>2. collect_count # GRAPH_COLLECT_NO => collect_count < GRAPH_COLLECT_NO
    BY DEF TypeOK
  <2> QED BY <1>17, <2>1, <2>2 DEF CloseSeed, CountersInv, memory
<1>7. CASE NextRound
  <2>1. Len(broadcast_list) \in Nat
    BY LenProperties DEF TypeOK
  <2> QED BY <1>7, <2>1 DEF NextRound, CountersInv
<1>8. CASE BroadcastSkip
  <2>1. Len(broadcast_list) \in Nat /\ next \in 1 .. Len(broadcast_list)
    BY <1>8, LenProperties DEF BroadcastSkip, InLoop, TypeOK
  <2> QED BY <1>8, <2>1 DEF BroadcastSkip, InLoop, CountersInv, memory, TypeOK
<1>9. CASE BroadcastSend
  <2>1. Len(broadcast_list) \in Nat /\ Len(broadcast_list) <= GRAPH_COLLECT_NO
    BY ListBound
  <2>2. next \in 1 .. Len(broadcast_list)
    BY <1>9, LenProperties DEF BroadcastSend, InLoop, TypeOK
  <2>3. send_count' \in {send_count, send_count + 1} /\ send_count < next
    BY <1>9 DEF BroadcastSend, SendFile, InLoop, CountersInv
  <2>4. send_count' < next + 1 /\ send_count' <= GRAPH_COLLECT_NO
    BY <2>1, <2>2, <2>3 DEF TypeOK
  <2> QED BY <1>9, <2>1, <2>2, <2>4 DEF BroadcastSend, InLoop, CountersInv
<1>10. ASSUME NEW retreats \in BOOLEAN, BroadcastFails(retreats) PROVE CountersInv'
  <2>1. next \in 1 .. Len(broadcast_list) /\ broadcast_list[next] \in Slots
    BY <1>10, LenProperties, ElementOfSeq DEF BroadcastFails, InLoop, TypeOK
  <2>2. [broadcast_list[next] EXCEPT !.active = ~retreats] \in Slots
    BY <2>1 DEF Slots
  <2>3. Len(broadcast_list') = Len(broadcast_list) /\ Len(broadcast_list) \in Nat
    BY <1>10, <2>1, <2>2, ExceptSeq, LenProperties DEF BroadcastFails, TypeOK
  <2> QED BY <1>10, <2>1, <2>3 DEF BroadcastFails, InLoop, CountersInv, TypeOK
<1>11. CASE BroadcastDone
  BY <1>11 DEF BroadcastDone, CountersInv, memory
<1>12. CASE Crash
  BY <1>12 DEF Crash, CountersInv, memory
<1>13. CASE Start
  BY <1>13 DEF Start, CountersInv
<1>14. CASE UNCHANGED vars
  BY <1>14 DEF vars, CountersInv, memory
<1> QED BY <1>1, <1>2, <1>3, <1>4, <1>5, <1>6, <1>7, <1>8, <1>9, <1>10, <1>11,
           <1>12, <1>13, <1>14, <1>15, <1>16, <1>17 DEF Next, Receive, Serve

-----------------------------------------------------------------------------
(* Files *)

\* A reply opens a file that exists.
LEMMA SendFileExists ==
    ASSUME TypeOK, FilesInv, NEW to, NEW m \in Modes, SendFile(to, m)
    PROVE  RepliesExist'
<1>1. CASE reply' = NoReply
  BY <1>1 DEF RepliesExist
<1>2. ASSUME NEW n \in SendNo(m), reply' = Message(to, m, n) PROVE RepliesExist'
  <2>1. reply'.file = seed[SourceDir(m)][n]
    BY <1>2 DEF Message
  <2>2. seed[SourceDir(m)][n] # NoFile
    <3>1. CASE m = "continue"
      BY <3>1 DEF SourceDir, SendNo, FilesInv
    <3>2. CASE m # "continue"
      <4>1. n \in Index
        BY SendNoInRange DEF TypeOK
      <4> QED BY <3>2, <4>1 DEF SourceDir, FilesInv
    <3> QED BY <3>1, <3>2
  <2> QED BY <2>1, <2>2 DEF RepliesExist
<1> QED BY <1>1, <1>2 DEF SendFile

\* A copy writes to one file of the directory being collected; the directory the
\* round starts from is not touched.
LEMMA CopySeed ==
    ASSUME TypeOK, UNCHANGED clique_count, NEW n \in Index, NEW content,
           seed' = [seed EXCEPT ![CurDir][n] = content]
    PROVE  /\ CurDir' = CurDir /\ PrevDir' = PrevDir
           /\ seed'[PrevDir] = seed[PrevDir]
           /\ seed'[CurDir][n] = content
           /\ \A k \in Index \ {n} : seed'[CurDir][k] = seed[CurDir][k]
<1>1. CurDir' = CurDir /\ PrevDir' = PrevDir
  BY DEF CurDir, PrevDir, DirOf
<1>2. CurDir \in Dirs /\ PrevDir \in Dirs /\ CurDir # PrevDir
  BY Parity DEF CurDir, PrevDir, TypeOK
<1> QED BY <1>1, <1>2 DEF TypeOK

\* Opened, it is the next file, whose number is counted but not yet kept; the kept
\* ones are as they were.
LEMMA OpenSeedCopy ==
    ASSUME TypeOK, CountersInv, OpenSeed
    PROVE  /\ CurDir' = CurDir /\ PrevDir' = PrevDir
           /\ seed'[PrevDir] = seed[PrevDir]
           /\ seed'[CurDir][collect_count] = Broken
           /\ \A k \in 0 .. collect_count - 1 :
                 k \in Index /\ seed'[CurDir][k] = seed[CurDir][k]
           /\ Kept = collect_count /\ Kept' = collect_count
           /\ collect_count' - 1 = collect_count
<1>1. collect_count \in Index /\ pc = "keep" /\ pc' = "writeSeed"
  BY CopyIndex DEF OpenSeed
<1>2. /\ CurDir' = CurDir /\ PrevDir' = PrevDir
      /\ seed'[PrevDir] = seed[PrevDir]
      /\ seed'[CurDir][collect_count] = Broken
      /\ \A k \in Index \ {collect_count} : seed'[CurDir][k] = seed[CurDir][k]
  BY <1>1, CopySeed DEF OpenSeed
<1>3. \A k \in 0 .. collect_count - 1 : k \in Index \ {collect_count}
  BY <1>1, Constants DEF Index
<1>4. collect_count' - 1 = collect_count
  BY <1>1, Constants DEF OpenSeed, Index
<1>5. Kept = collect_count /\ Kept' = collect_count
  BY <1>1, <1>4 DEF Kept
<1> QED BY <1>2, <1>3, <1>4, <1>5

\* Closed, it is one of the kept graphs.
LEMMA CloseSeedCopy ==
    ASSUME TypeOK, CountersInv, CloseSeed
    PROVE  /\ CurDir' = CurDir /\ PrevDir' = PrevDir
           /\ seed'[PrevDir] = seed[PrevDir]
           /\ seed'[CurDir][collect_count - 1] = temp
           /\ \A k \in 0 .. collect_count - 2 :
                 k \in Index /\ seed'[CurDir][k] = seed[CurDir][k]
           /\ Kept = collect_count - 1 /\ Kept' = collect_count
           /\ collect_count' = collect_count /\ collect_count - 1 \in Nat
           /\ pc' \in {"round", "accept"}
<1>1. collect_count - 1 \in Index /\ pc = "writeSeed" /\ pc' \in {"round", "accept"}
  BY CopyIndex DEF CloseSeed, EndOfUpload
<1>2. /\ CurDir' = CurDir /\ PrevDir' = PrevDir
      /\ seed'[PrevDir] = seed[PrevDir]
      /\ seed'[CurDir][collect_count - 1] = temp
      /\ \A k \in Index \ {collect_count - 1} : seed'[CurDir][k] = seed[CurDir][k]
  BY <1>1, CopySeed DEF CloseSeed, memory
<1>3. \A k \in 0 .. collect_count - 2 : k \in Index \ {collect_count - 1}
  BY <1>1, Constants DEF Index, TypeOK
<1>4. collect_count' = collect_count /\ collect_count - 1 \in Nat
  BY <1>1, Constants DEF CloseSeed, Index, memory
<1>5. Kept = collect_count - 1 /\ Kept' = collect_count
  BY <1>1, <1>4 DEF Kept
<1> QED BY <1>1, <1>2, <1>3, <1>4, <1>5

\* The directories change roles: what was collected is the pool, delete_graph
\* empties the other.
LEMMA NextRoundSeed ==
    ASSUME TypeOK, NextRound
    PROVE  /\ PrevDir' = CurDir
           /\ seed'[PrevDir'] = seed[CurDir]
           /\ seed'[CurDir'] = EmptyDir
           /\ collect_count' = 0
<1>1. clique_count' = NextTarget /\ clique_count' \in Nat
  BY NextRoundParity DEF NextRound, TypeOK
<1>2. PrevDir' = CurDir
  BY <1>1, NextRoundParity DEF PrevDir, CurDir, TypeOK, DirOf
<1>3. CurDir' = DirOf(clique_count') /\ PrevDir' = DirOf(clique_count' + 1)
  BY DEF PrevDir, CurDir, DirOf
<1>4. CurDir' \in Dirs /\ PrevDir' \in Dirs /\ CurDir' # PrevDir'
  BY <1>1, <1>3, Parity
<1>5. seed' = [seed EXCEPT ![CurDir'] = EmptyDir]
  BY <1>3 DEF NextRound, Cleaned
<1> QED BY <1>2, <1>4, <1>5 DEF TypeOK, NextRound

\* A server is started on the seeds of seed_0.
LEMMA StartSeed ==
    ASSUME TypeOK, Start
    PROVE  /\ \A k \in Index : seed'[PrevDir'][k] \in Seeds
           /\ collect_count' = 0
<1>1. PICK s \in [Index -> Seeds] : seed' = [seed EXCEPT ![0] = s]
  BY DEF Start
<1>2. PrevDir' = 0
  <2>1. clique_count' + 1 = RECURSION_THRESHOLD
    BY ThresholdAssumption DEF Start
  <2> QED BY <2>1, TopTargetParity DEF PrevDir, DirOf
<1> QED BY <1>1, <1>2 DEF TypeOK, Dirs, Start

LEMMA InitFiles == Init => FilesInv /\ CountersInv /\ OneSlotPerClient /\ RepliesExist
<1> SUFFICES ASSUME Init
             PROVE  FilesInv /\ CountersInv /\ OneSlotPerClient /\ RepliesExist
  OBVIOUS
<1>1. PrevDir = 0
  <2>1. clique_count + 1 = RECURSION_THRESHOLD
    BY ThresholdAssumption DEF Init, InitMemory
  <2> QED BY <2>1, TopTargetParity DEF PrevDir
<1>2. FilesInv
  BY <1>1, ContentAssumption DEF Init, InitMemory, FilesInv
<1>3. CountersInv
  BY SizesAssumption DEF Init, InitMemory, CountersInv
<1>4. DOMAIN broadcast_list = {}
  BY DEF Init, InitMemory
<1> QED BY <1>2, <1>3, <1>4 DEF Init, OneSlotPerClient, RepliesExist

LEMMA NextFiles ==
    TypeOK /\ CountersInv /\ FilesInv /\ RepliesExist /\ [Next]_vars
        => FilesInv' /\ RepliesExist'
<1> SUFFICES ASSUME TypeOK, CountersInv, FilesInv, RepliesExist, [Next]_vars
             PROVE  FilesInv' /\ RepliesExist'
  OBVIOUS
<1>1. ASSUME UNCHANGED <<seed, collect_count, clique_count>> PROVE FilesInv'
  BY <1>1 DEF FilesInv, CurDir, PrevDir, DirOf
<1>2. ASSUME \/ reply' = NoReply
             \/ reply' = reply
      PROVE  RepliesExist'
  BY <1>2 DEF RepliesExist
<1>3. CASE Reply
  <2>1. RepliesExist'
    BY <1>3, SendFileExists DEF Reply, TypeOK
  <2> QED BY <1>1, <1>3, <2>1 DEF Reply, disk
<1>4. CASE BroadcastSend
  <2>1. RepliesExist'
    BY <1>4, SendFileExists DEF BroadcastSend, Modes
  <2> QED BY <1>1, <1>4, <2>1 DEF BroadcastSend, disk
<1>5. CASE OpenSeed
  <2>1. \A k \in 0 .. collect_count : seed'[CurDir][k] # NoFile
    <3>1. \A k \in 0 .. collect_count : k = collect_count \/ k \in 0 .. collect_count - 1
      BY DEF TypeOK
    <3> QED BY <1>5, <3>1, OpenSeedCopy, ContentAssumption DEF FilesInv
  <2>2. FilesInv'
    BY <1>5, <2>1, OpenSeedCopy DEF FilesInv
  <2> QED BY <1>2, <1>5, <2>2 DEF OpenSeed
<1>9. CASE CloseSeed
  <2>1. temp # NoFile
    BY <1>9, ContentAssumption DEF CloseSeed, TypeOK, Copying
  <2>2. \A k \in 0 .. collect_count - 1 : seed'[CurDir][k] # NoFile
    <3>1. \A k \in 0 .. collect_count - 1 :
              k = collect_count - 1 \/ k \in 0 .. collect_count - 2
      BY DEF TypeOK
    <3> QED BY <1>9, <2>1, <3>1, CloseSeedCopy DEF FilesInv
  <2>3. FilesInv'
    BY <1>9, <2>2, CloseSeedCopy DEF FilesInv
  <2> QED BY <1>2, <1>9, <2>3 DEF CloseSeed
<1>6. CASE NextRound
  <2>1. collect_count = GRAPH_COLLECT_NO
    BY <1>6 DEF NextRound, CountersInv
  <2> QED BY <1>2, <1>6, <2>1, NextRoundSeed DEF NextRound, FilesInv, Index
<1>7. CASE Start
  <2>1. \A k \in Index : seed'[PrevDir'][k] # NoFile
    BY <1>7, StartSeed, ContentAssumption
  <2>2. collect_count' = 0
    BY <1>7, StartSeed
  <2> QED BY <1>2, <1>7, <2>1, <2>2 DEF Start, FilesInv
<1>8. CASE /\ UNCHANGED <<seed, collect_count, clique_count>>
           /\ reply' = NoReply \/ reply' = reply
  BY <1>1, <1>2, <1>8
<1> QED BY <1>3, <1>4, <1>5, <1>6, <1>7, <1>8, <1>9
        DEF Next, Receive, Serve, vars, memory, disk, Accept, ReceiveOther,
            ReceiveRequest, ReceiveGraph, Judge, OpenCE, CloseCE, BroadcastSkip,
            BroadcastFails, BroadcastDone, Crash

-----------------------------------------------------------------------------
(* What holds whatever clients upload *)

\* The inductive invariant of the server: Inv holds at the start and every step
\* of main keeps it.
THEOREM InvHolds == Spec => []Inv
<1>1. Init => Inv
  BY InitType, InitFiles DEF Inv
<1>2. Inv /\ [Next]_vars => Inv'
  BY NextType, NextOneSlot, NextCounters, NextFiles DEF Inv
<1> QED BY <1>1, <1>2, PTL DEF Spec

\* Type correctness of the server, the uninitialized locals of main included.
THEOREM TypeCorrect == Spec => []TypeOK
<1>1. Inv => TypeOK
  BY DEF Inv
<1> QED BY <1>1, InvHolds, PTL

\* send_file always finds the file it opens: the random index is in range and
\* delete_graph has not taken its directory (server_transfer.c:60-83).
THEOREM RepliesFindTheirFile == Spec => []RepliesExist
<1>1. Inv => RepliesExist
  BY DEF Inv
<1> QED BY <1>1, InvHolds, PTL

\* An address never has two slots of broadcast_list (server.c:110-137).
THEOREM SlotsAreUnique == Spec => []OneSlotPerClient
<1>1. Inv => OneSlotPerClient
  BY DEF Inv
<1> QED BY <1>1, InvHolds, PTL

\* The equality tests of receive_file cannot be jumped over: neither replies nor
\* a broadcast count past GRAPH_COLLECT_NO (server_transfer.c:148, 156).
THEOREM SendCountNeverJumps == Spec => []SendCountStops
<1>1. Inv => SendCountStops
  BY DEF Inv, CountersInv, SendCountStops
<1> QED BY <1>1, InvHolds, PTL

\* No connection is served while a full round waits to be ended, so a graph has a
\* free number in its directory (server.c:162-170).
THEOREM RoundsEndAtOnce == Spec => []RoundNotFull
<1>1. Inv => RoundNotFull
  BY DEF Inv, CountersInv, RoundNotFull
<1> QED BY <1>1, InvHolds, PTL

\* Only the end of a round takes the server out of depth first search: as long as
\* it lasts no reply and no broadcast counts a graph.
THEOREM DepthFirstIsStable == Spec => DepthFirstStable
<1> DEFINE Stable == send_count = GRAPH_COLLECT_NO /\ pc \notin {"round", "down"}
                       => send_count' = GRAPH_COLLECT_NO
<1>1. ASSUME Inv, [Next]_vars PROVE Stable
  <2> SUFFICES ASSUME send_count = GRAPH_COLLECT_NO, pc \notin {"round", "down"}
               PROVE  send_count' = GRAPH_COLLECT_NO
    OBVIOUS
  <2>1. CASE Reply
    <3>1. mode # "order"
      BY <1>1, <2>1, SizesAssumption DEF Reply, Inv, CountersInv
    <3> QED BY <2>1, <3>1 DEF Reply, SendFile, Counted
  <2>2. CASE BroadcastSend
    <3>1. Len(broadcast_list) \in Nat /\ Len(broadcast_list) <= GRAPH_COLLECT_NO
      BY <1>1, ListBound DEF Inv
    <3>2. next \in 1 .. Len(broadcast_list) /\ send_count < next
      BY <1>1, <2>2, LenProperties DEF BroadcastSend, InLoop, Inv, TypeOK, CountersInv
    <3> QED BY <3>1, <3>2, SizesAssumption
  <2>3. CASE UNCHANGED send_count
    BY <2>3
  <2>4. CASE NextRound \/ Start
    BY <2>4 DEF NextRound, Start
  <2> QED BY <1>1, <2>1, <2>2, <2>3, <2>4
          DEF Next, Receive, Serve, vars, memory, Accept, ReceiveOther,
              ReceiveRequest, ReceiveGraph, Judge, OpenCE, CloseCE, OpenSeed,
              CloseSeed, BroadcastSkip, BroadcastFails, BroadcastDone, Crash
<1>2. Inv /\ [Next]_vars => [Stable]_vars
  BY <1>1
<1> QED BY <1>2, InvHolds, PTL DEF Spec, DepthFirstStable

-----------------------------------------------------------------------------
(* The graphs, when no upload is cut off *)

LEMMA InitWhole == Init => WholeInv
<1> SUFFICES ASSUME Init PROVE WholeInv
  OBVIOUS
<1>1. PrevDir = 0 /\ clique_count = RECURSION_THRESHOLD - 1
  <2>1. clique_count + 1 = RECURSION_THRESHOLD
    BY ThresholdAssumption DEF Init, InitMemory
  <2> QED BY <2>1, TopTargetParity DEF PrevDir, Init, InitMemory
<1>2. PoolComplete
  BY <1>1, ContentAssumption, ThresholdAssumption DEF Init, PoolComplete
<1>3. SeedsMeetTarget
  BY DEF Init, InitMemory, SeedsMeetTarget, Kept
<1> QED BY <1>2, <1>3 DEF Init, WholeInv, RepliesAreGraphs, Copying

\* The graph handed out is one of the pool or one the round has collected.
LEMMA SendFileGraph ==
    ASSUME TypeOK, WholeInv, pc \in {"reply", "broadcast"},
           NEW to, NEW m \in Modes, SendFile(to, m)
    PROVE  RepliesAreGraphs'
<1>1. CASE reply' = NoReply
  BY <1>1 DEF RepliesAreGraphs
<1>2. ASSUME NEW n \in SendNo(m), reply' = Message(to, m, n) PROVE RepliesAreGraphs'
  <2>1. /\ reply'.file = seed[SourceDir(m)][n]
        /\ reply'.mode = m
        /\ reply'.target = clique_count
    BY <1>2 DEF Message
  <2>2. CASE m = "continue"
    <3>1. Kept = collect_count
      BY DEF Kept
    <3> QED BY <2>1, <2>2, <3>1
            DEF SourceDir, SendNo, WholeInv, SeedsMeetTarget, RepliesAreGraphs
  <2>3. CASE m # "continue"
    <3>1. n \in Index
      BY SendNoInRange DEF TypeOK
    <3> QED BY <2>1, <2>3, <3>1 DEF SourceDir, WholeInv, PoolComplete, RepliesAreGraphs
  <2> QED BY <2>2, <2>3
<1> QED BY <1>1, <1>2 DEF SendFile

LEMMA NextWhole ==
    ASSUME Uploads \subseteq Graph
    PROVE  TypeOK /\ CountersInv /\ WholeInv /\ [Next]_vars => WholeInv'
<1> SUFFICES ASSUME TypeOK, CountersInv, WholeInv, [Next]_vars PROVE WholeInv'
  OBVIOUS
<1>1. ASSUME UNCHANGED <<seed, clique_count>>, Kept' = Kept \/ Kept' = 0
      PROVE  SeedsMeetTarget' /\ PoolComplete'
  BY <1>1 DEF WholeInv, SeedsMeetTarget, PoolComplete, CurDir, PrevDir, DirOf
<1>2. ASSUME reply' = NoReply \/ reply' = reply PROVE RepliesAreGraphs'
  BY <1>2 DEF WholeInv, RepliesAreGraphs
<1>3. CASE Reply
  <2>1. RepliesAreGraphs'
    BY <1>3, SendFileGraph DEF Reply, TypeOK
  <2>2. Kept' = Kept
    BY <1>3 DEF Reply, Kept
  <2> QED BY <1>1, <1>3, <2>1, <2>2 DEF Reply, disk, WholeInv, Copying
<1>4. CASE BroadcastSend
  <2>1. RepliesAreGraphs'
    BY <1>4, SendFileGraph DEF BroadcastSend, InLoop, Modes
  <2>2. Kept' = Kept
    BY <1>4 DEF BroadcastSend, InLoop, Kept
  <2> QED BY <1>1, <1>4, <2>1, <2>2 DEF BroadcastSend, disk, InLoop, WholeInv, Copying
<1>5. CASE Judge
  <2>1. PICK count \in Counts(temp, g) :
          \/ pc' \in {"saveCE", "keep"} /\ temp' = temp /\ (IsCE(count) \/ Passes(count))
          \/ pc' \in {"round", "accept"}
    BY <1>5 DEF Judge, EndOfUpload
  <2>2. temp \in Uploads /\ temp \in Graph /\ count = temp.cliques
    BY <1>5, <2>1 DEF Judge, WholeInv, Counts
  <2>3. pc' \in Copying => temp' = temp /\ temp.cliques <= clique_count
    BY <2>1, <2>2 DEF Copying, IsCE, Passes, TypeOK
  <2>4. Kept' = Kept /\ UNCHANGED <<seed, clique_count, reply>>
    BY <1>5, <2>1 DEF Judge, Kept, disk
  <2> QED BY <1>1, <1>2, <2>1, <2>2, <2>3, <2>4 DEF WholeInv, Copying
<1>10. CASE OpenCE \/ CloseCE
  <2>1. /\ Kept' = Kept
        /\ UNCHANGED <<seed, clique_count, reply, temp>>
        /\ pc \in Copying /\ pc' # "judge"
    BY <1>10 DEF OpenCE, CloseCE, Kept, Copying, memory
  <2> QED BY <1>1, <1>2, <2>1 DEF WholeInv
<1>11. CASE OpenSeed
  <2>1. SeedsMeetTarget'
    BY <1>11, OpenSeedCopy DEF OpenSeed, SeedsMeetTarget, WholeInv
  <2>2. PoolComplete'
    BY <1>11, OpenSeedCopy DEF OpenSeed, PoolComplete, WholeInv
  <2>3. UNCHANGED <<clique_count, reply, temp>> /\ pc \in Copying /\ pc' # "judge"
    BY <1>11 DEF OpenSeed, Copying
  <2> QED BY <1>2, <2>1, <2>2, <2>3 DEF WholeInv
<1>12. CASE CloseSeed
  <2>1. UNCHANGED <<clique_count, reply>> /\ pc \in Copying
    BY <1>12 DEF CloseSeed, Copying, memory
  <2>2. temp \in Graph /\ temp.cliques <= clique_count
    BY <2>1 DEF WholeInv
  <2>3. \A k \in 0 .. collect_count - 1 :
            seed'[CurDir][k] \in Graph /\ seed'[CurDir][k].cliques <= clique_count
    <3>1. \A k \in 0 .. collect_count - 1 :
              \/ k = collect_count - 1
              \/ k \in 0 .. Kept - 1 /\ k \in 0 .. collect_count - 2
      BY <1>12, CloseSeedCopy DEF TypeOK
    <3> QED BY <1>12, <2>2, <3>1, CloseSeedCopy DEF WholeInv, SeedsMeetTarget
  <2>4. SeedsMeetTarget'
    BY <1>12, <2>1, <2>3, CloseSeedCopy DEF SeedsMeetTarget
  <2>5. PoolComplete'
    BY <1>12, <2>1, CloseSeedCopy DEF PoolComplete, WholeInv
  <2>6. pc' \in {"round", "accept"}
    BY <1>12, CloseSeedCopy
  <2> QED BY <1>2, <2>1, <2>4, <2>5, <2>6 DEF WholeInv, Copying
<1>13. CASE Crash
  <2>1. Kept' = 0 /\ UNCHANGED <<seed, clique_count>> /\ reply' = NoReply /\ pc' = "down"
    BY <1>13 DEF Crash, Kept, memory
  <2> QED BY <1>1, <1>2, <2>1 DEF WholeInv, Copying
<1>6. CASE NextRound
  <2>1. collect_count = GRAPH_COLLECT_NO /\ clique_count' = NextTarget
    BY <1>6 DEF NextRound, CountersInv
  <2>2. \A k \in Index : seed'[PrevDir'][k] \in Graph
                         /\ seed'[PrevDir'][k].cliques <= clique_count
    <3>1. Kept = collect_count
      BY <1>6 DEF NextRound, Kept
    <3> QED BY <1>6, <2>1, <3>1, NextRoundSeed DEF WholeInv, SeedsMeetTarget, Index
  <2>3. clique_count' < RECURSION_THRESHOLD - 1 => clique_count = clique_count' + 1
    BY <2>1, ThresholdAssumption DEF NextTarget, TypeOK
  <2>4. PoolComplete'
    BY <2>2, <2>3 DEF PoolComplete
  <2>5. SeedsMeetTarget'
    <3>1. Kept' = 0
      BY <1>6, NextRoundSeed DEF NextRound, Kept
    <3> QED BY <3>1 DEF SeedsMeetTarget
  <2> QED BY <1>2, <1>6, <2>4, <2>5 DEF NextRound, WholeInv, Copying
<1>7. CASE Start
  <2>1. \A k \in Index : seed'[PrevDir'][k] \in Graph
    BY <1>7, StartSeed, ContentAssumption
  <2>2. PoolComplete'
    BY <1>7, <2>1, ThresholdAssumption DEF PoolComplete, Start
  <2>3. SeedsMeetTarget'
    <3>1. Kept' = 0
      BY <1>7, StartSeed DEF Start, Kept
    <3> QED BY <3>1 DEF SeedsMeetTarget
  <2> QED BY <1>2, <1>7, <2>2, <2>3 DEF Start, WholeInv, Copying
<1>8. ASSUME NEW f \in Uploads, ReceiveGraph(f) PROVE WholeInv'
  <2>1. Kept' = Kept
    BY <1>8 DEF ReceiveGraph, Kept, memory
  <2> QED BY <1>1, <1>2, <1>8, <2>1 DEF ReceiveGraph, WholeInv, memory, disk, Copying
<1>9. CASE /\ UNCHANGED <<seed, collect_count, clique_count>>
           /\ reply' = NoReply \/ reply' = reply
           /\ \/ UNCHANGED <<pc, temp>>
              \/ {pc, pc'} \subseteq {"accept", "receive", "reply", "broadcast"}
  <2>1. Kept' = Kept
    BY <1>9 DEF Kept
  <2> QED BY <1>1, <1>2, <1>9, <2>1 DEF WholeInv, Copying
<1> QED BY <1>3, <1>4, <1>5, <1>6, <1>7, <1>8, <1>9, <1>10, <1>11, <1>12, <1>13
        DEF Next, Receive, Serve, vars, memory, disk, Accept, ReceiveOther,
            ReceiveRequest, BroadcastSkip, BroadcastFails, BroadcastDone, InLoop

LEMMA WholeInvHolds ==
    ASSUME Uploads \subseteq Graph
    PROVE  Spec => []WholeInv
<1>1. Init => WholeInv
  BY InitWhole
<1>2. Inv /\ WholeInv /\ [Next]_vars => WholeInv'
  BY NextWhole DEF Inv
<1> QED BY <1>1, <1>2, InvHolds, PTL DEF Spec

\* If no upload is cut off, every graph a round has collected meets its target.
THEOREM TargetsAreMet ==
    ASSUME Uploads \subseteq Graph
    PROVE  Spec => []SeedsMeetTarget
<1>1. WholeInv => SeedsMeetTarget
  BY DEF WholeInv
<1> QED BY <1>1, WholeInvHolds, PTL

\* If no upload is cut off, a round keeps the complete pool it started from, all
\* of whose graphs met the target of the round before.
THEOREM PoolStaysComplete ==
    ASSUME Uploads \subseteq Graph
    PROVE  Spec => []PoolComplete
<1>1. WholeInv => PoolComplete
  BY DEF WholeInv
<1> QED BY <1>1, WholeInvHolds, PTL

\* If no upload is cut off, no client is handed anything but a graph.
THEOREM GraphsAreHandedOut ==
    ASSUME Uploads \subseteq Graph
    PROVE  Spec => []RepliesAreGraphs
<1>1. WholeInv => RepliesAreGraphs
  BY DEF WholeInv
<1> QED BY <1>1, WholeInvHolds, PTL

-----------------------------------------------------------------------------
(* The rounds the server promises *)

absCollected == [k \in 1 .. Kept |-> seed[CurDir][k - 1]]
absPool == [k \in 1 .. GRAPH_COLLECT_NO |-> seed[PrevDir][k - 1]]
absHanded == IF reply = NoReply THEN NoReply ELSE reply.file

\* A function on 1 .. n is a sequence of length n, and appending extends it.
LEMMA FunctionAsSequence ==
    ASSUME NEW S, NEW n \in Nat, NEW q \in [1 .. n -> S], NEW e \in S
    PROVE  /\ Len(q) = n
           /\ Append(q, e) \in [1 .. n + 1 -> S]
           /\ Append(q, e)[n + 1] = e
           /\ \A k \in 1 .. n : Append(q, e)[k] = q[k]
<1>1. q \in Seq(S)
  OBVIOUS
<1>2. Len(q) = n
  BY <1>1, LenProperties
<1>3. Append(q, e) \in [1 .. n + 1 -> S]
  BY <1>1, <1>2, AppendProperties, LenProperties, ZenonT(60)
<1> QED BY <1>1, <1>2, <1>3, AppendProperties

LEMMA InitRefines == Init => Rounds!RoundsInit
<1> SUFFICES ASSUME Init PROVE Rounds!RoundsInit
  OBVIOUS
<1>1. PrevDir = 0
  <2>1. clique_count + 1 = RECURSION_THRESHOLD
    BY ThresholdAssumption DEF Init, InitMemory
  <2> QED BY <2>1, TopTargetParity DEF PrevDir
<1>2. absPool \in [1 .. GRAPH_COLLECT_NO -> Seeds]
  BY <1>1, SizesAssumption DEF Init, absPool, Index
<1>3. absCollected = << >>
  BY DEF Init, InitMemory, absCollected, Kept
<1> QED BY <1>2, <1>3 DEF Init, InitMemory, Rounds!RoundsInit, Rounds!Pools,
           absPool, absCollected

\* A graph that is copied is the next one collected.
LEMMA CopyCollects ==
    ASSUME TypeOK, CountersInv, CloseSeed
    PROVE  /\ absCollected' = Append(absCollected, temp)
           /\ absPool' = absPool
           /\ Len(absCollected) = collect_count - 1
<1> DEFINE S == {seed[CurDir][k] : k \in Index} \cup {temp}
           n == collect_count - 1
<1>1. temp \in S /\ \A k \in Index : seed[CurDir][k] \in S
  OBVIOUS
<1> HIDE DEF S
<1>2. n \in Nat /\ n + 1 = collect_count /\ Kept = n /\ Kept' = n + 1
  BY CloseSeedCopy DEF TypeOK
<1>3. \A k \in 1 .. n : k - 1 \in 0 .. collect_count - 2
  BY <1>2
<1>4. /\ seed'[CurDir'][n] = temp
      /\ \A k \in 1 .. n : k - 1 \in Index /\ seed'[CurDir'][k - 1] = seed[CurDir][k - 1]
  BY <1>3, CloseSeedCopy
<1> HIDE DEF n
<1>5. absCollected \in [1 .. n -> S]
  BY <1>1, <1>2, <1>4 DEF absCollected
<1>6. /\ Len(absCollected) = n
      /\ Append(absCollected, temp) \in [1 .. n + 1 -> S]
      /\ Append(absCollected, temp)[n + 1] = temp
      /\ \A k \in 1 .. n : Append(absCollected, temp)[k] = absCollected[k]
  <2>1. absCollected \in Seq(S)
    BY <1>2, <1>5
  <2>2. Len(absCollected) = n
    BY <1>2, <1>5, <2>1, LenProperties
  <2>3. Append(absCollected, temp) \in [1 .. n + 1 -> S]
    BY <1>1, <2>1, <2>2, AppendProperties, LenProperties
  <2> QED BY <1>1, <2>1, <2>2, <2>3, AppendProperties
<1>7. absCollected' = [k \in 1 .. n + 1 |-> seed'[CurDir'][k - 1]]
  BY <1>2 DEF absCollected
<1>8. \A k \in 1 .. n + 1 : absCollected'[k] = Append(absCollected, temp)[k]
  <2>1. \A k \in 1 .. n :
            absCollected'[k] = seed[CurDir][k - 1] /\ absCollected[k] = seed[CurDir][k - 1]
    BY <1>2, <1>4, <1>7 DEF absCollected
  <2>2. absCollected'[n + 1] = temp
    BY <1>2, <1>4, <1>7
  <2>3. \A k \in 1 .. n + 1 : k \in 1 .. n \/ k = n + 1
    BY <1>2
  <2> QED BY <1>6, <2>1, <2>2, <2>3
<1>9. absCollected' = Append(absCollected, temp)
  BY <1>6, <1>7, <1>8
<1>10. absPool' = absPool
  BY CloseSeedCopy DEF absPool
<1> QED BY <1>6, <1>9, <1>10 DEF n

\* A reply hands out a graph of the pool or a collected one, or nothing.
LEMMA SendFileHandsOut ==
    ASSUME TypeOK, pc \in {"reply", "broadcast"}, NEW to, NEW m \in Modes, SendFile(to, m)
    PROVE  \/ absHanded' = NoReply
           \/ \E k \in DOMAIN absPool : absHanded' = absPool[k]
           \/ \E k \in DOMAIN absCollected : absHanded' = absCollected[k]
<1>1. CASE reply' = NoReply
  BY <1>1 DEF absHanded
<1>2. ASSUME NEW n \in SendNo(m), reply' = Message(to, m, n), reply' # NoReply
      PROVE  \/ \E k \in DOMAIN absPool : absHanded' = absPool[k]
             \/ \E k \in DOMAIN absCollected : absHanded' = absCollected[k]
  <2>1. absHanded' = seed[SourceDir(m)][n]
    BY <1>2 DEF absHanded, Message
  <2>2. n \in Index
    BY SendNoInRange DEF TypeOK
  <2>3. CASE m = "continue"
    <3>1. \A j \in 0 .. collect_count - 1 :
              j + 1 \in DOMAIN absCollected /\ absCollected[j + 1] = seed[CurDir][j]
      <4>1. Kept = collect_count
        BY DEF Kept
      <4> QED BY <4>1 DEF absCollected, TypeOK
    <3>2. n \in 0 .. collect_count - 1
      BY <2>3 DEF SendNo
    <3> QED BY <2>1, <2>3, <3>1, <3>2 DEF SourceDir
  <2>4. CASE m # "continue"
    <3>1. \A j \in 0 .. GRAPH_COLLECT_NO - 1 :
              j + 1 \in DOMAIN absPool /\ absPool[j + 1] = seed[PrevDir][j]
      BY Constants DEF absPool
    <3> QED BY <2>1, <2>2, <2>4, <3>1 DEF SourceDir, Index
  <2> QED BY <2>3, <2>4
<1> QED BY <1>1, <1>2 DEF SendFile

LEMMA NextRefines ==
    ASSUME Uploads \subseteq Graph
    PROVE  Inv /\ WholeInv /\ [Next]_vars => [Rounds!RoundsNext]_(Rounds!roundVars)
<1> SUFFICES ASSUME Inv, WholeInv, [Next]_vars
             PROVE  [Rounds!RoundsNext]_(Rounds!roundVars)
  OBVIOUS
<1> USE DEF absCollected, absPool, absHanded, Rounds!roundVars
<1>1. ASSUME UNCHANGED <<seed, Kept, clique_count>>
      PROVE  absCollected' = absCollected /\ absPool' = absPool
  BY <1>1 DEF CurDir, PrevDir, DirOf
<1>2. ASSUME NEW to, NEW m \in Modes, SendFile(to, m), pc \in {"reply", "broadcast"},
             UNCHANGED <<seed, Kept, clique_count>>, pc' # "down"
      PROVE  Rounds!HandOut \/ Rounds!TakeBack
  <2>1. \/ absHanded' = NoReply
        \/ \E k \in DOMAIN absPool : absHanded' = absPool[k]
        \/ \E k \in DOMAIN absCollected : absHanded' = absCollected[k]
    BY <1>2, SendFileHandsOut DEF Inv
  <2>2. absCollected' = absCollected /\ absPool' = absPool
    BY <1>1, <1>2
  <2>3. pc # "down" /\ pc' # "down" /\ (pc' # "down") = (pc # "down")
    BY <1>2
  <2> HIDE DEF absCollected, absPool, absHanded
  <2>4. CASE absHanded' = NoReply
    BY <1>2, <2>2, <2>3, <2>4 DEF Rounds!TakeBack, absCollected, absPool, absHanded
  <2>5. CASE \/ \E k \in DOMAIN absPool : absHanded' = absPool[k]
             \/ \E k \in DOMAIN absCollected : absHanded' = absCollected[k]
    BY <1>2, <2>2, <2>3, <2>5 DEF Rounds!HandOut, absCollected, absPool, absHanded
  <2> QED BY <2>1, <2>4, <2>5
<1>3. CASE Reply
  <2>1. /\ mode \in Modes /\ pc = "reply" /\ pc' = "accept" /\ Kept' = Kept
        /\ SendFile(peer, mode) /\ UNCHANGED <<seed, clique_count>>
    BY <1>3 DEF Reply, Inv, TypeOK, disk, Kept
  <2> QED BY <1>2, <2>1 DEF Rounds!RoundsNext
<1>4. CASE BroadcastSend
  <2>1. /\ "order" \in Modes /\ pc = "broadcast" /\ pc' = "broadcast" /\ Kept' = Kept
        /\ SendFile(broadcast_list[next].ip, "order") /\ UNCHANGED <<seed, clique_count>>
    BY <1>4 DEF BroadcastSend, InLoop, Modes, disk, Kept
  <2> QED BY <1>2, <2>1 DEF Rounds!RoundsNext
<1>5. CASE CloseSeed
  <2>1. /\ UNCHANGED <<clique_count, reply>> /\ pc \in Copying
        /\ pc # "down" /\ pc' # "down"
    BY <1>5 DEF CloseSeed, EndOfUpload, Copying, memory
  <2>2. temp \in Uploads \cap Graph /\ temp.cliques <= clique_count
    BY <2>1 DEF WholeInv
  <2>3. collect_count - 1 < GRAPH_COLLECT_NO
    BY SizesAssumption DEF Inv, TypeOK
  <2>4. /\ absCollected' = Append(absCollected, temp)
        /\ absPool' = absPool
        /\ Len(absCollected) = collect_count - 1
    BY <1>5, CopyCollects DEF Inv
  <2>5. PICK f \in Uploads \cap Graph : f = temp
    BY <2>2
  <2>6. Rounds!Collect(f)
    BY <2>1, <2>2, <2>3, <2>4, <2>5 DEF Rounds!Collect
  <2> QED BY <2>6 DEF Rounds!RoundsNext
<1>6. CASE NextRound
  <2>1. /\ PrevDir' = CurDir
        /\ seed'[PrevDir'] = seed[CurDir]
        /\ collect_count' = 0
    BY <1>6, NextRoundSeed DEF Inv
  <2>2. /\ Kept = GRAPH_COLLECT_NO /\ Kept' = 0
        /\ pc # "down" /\ pc' # "down"
    BY <1>6, <2>1 DEF NextRound, Inv, CountersInv, Kept
  <2>3. absPool' = absCollected
    BY <2>1, <2>2
  <2>4. absCollected' = << >>
    BY <2>2
  <2>5. Len(absCollected) = GRAPH_COLLECT_NO
    <3>1. \A k \in 1 .. GRAPH_COLLECT_NO : k - 1 \in Index
      BY Constants DEF Index
    <3>2. absCollected \in [1 .. GRAPH_COLLECT_NO -> {seed[CurDir][k] : k \in Index}]
      BY <2>2, <3>1
    <3> HIDE DEF absCollected
    <3> QED BY <3>2, Constants, FunctionAsSequence
  <2>6. clique_count' = Rounds!NextTarget(clique_count) /\ absHanded' = absHanded
    BY <1>6 DEF NextRound, NextTarget, Rounds!NextTarget
  <2>7. Rounds!Advance
    BY <2>2, <2>3, <2>4, <2>5, <2>6 DEF Rounds!Advance
  <2> QED BY <2>7 DEF Rounds!RoundsNext
<1>7. CASE Start
  <2>1. /\ \A k \in Index : seed'[PrevDir'][k] \in Seeds
        /\ collect_count' = 0
    BY <1>7, StartSeed DEF Inv
  <2>2. \A k \in 1 .. GRAPH_COLLECT_NO : k - 1 \in Index
    BY Constants DEF Index
  <2>3. absPool' \in [1 .. GRAPH_COLLECT_NO -> Seeds]
    BY <2>1, <2>2
  <2>4. pc = "down" /\ pc' # "down" /\ Kept' = 0
    BY <1>7, <2>1 DEF Start, Kept
  <2>5. absCollected' = << >>
    BY <2>4
  <2>6. Rounds!Restart
    BY <1>7, <2>3, <2>4, <2>5 DEF Start, Rounds!Restart, Rounds!Pools
  <2> QED BY <2>6 DEF Rounds!RoundsNext
<1>8. CASE Crash
  <2>1. /\ pc # "down" /\ pc' = "down" /\ Kept' = 0 /\ reply' = NoReply
        /\ UNCHANGED <<seed, clique_count>>
    BY <1>8 DEF Crash, Kept, memory
  <2>2. absCollected' = << >> /\ absPool' = absPool
    BY <2>1 DEF PrevDir, DirOf
  <2>3. Rounds!Die
    BY <2>1, <2>2 DEF Rounds!Die
  <2> QED BY <2>3 DEF Rounds!RoundsNext
\* Until it is closed, a copy is not collected.
<1>9. CASE OpenSeed
  <2>1. UNCHANGED <<clique_count, reply, Kept, CurDir, PrevDir>>
    BY <1>9, OpenSeedCopy DEF OpenSeed, Inv
  <2>2. absCollected' = absCollected
    <3>1. \A k \in 1 .. Kept : seed'[CurDir][k - 1] = seed[CurDir][k - 1]
      <4>1. \A k \in 1 .. Kept : k - 1 \in 0 .. collect_count - 1
        BY <1>9, OpenSeedCopy DEF Inv, TypeOK
      <4> QED BY <1>9, <4>1, OpenSeedCopy DEF Inv
    <3> QED BY <2>1, <3>1
  <2>3. absPool' = absPool
    BY <1>9, <2>1, OpenSeedCopy DEF Inv
  <2>4. (pc' # "down") = (pc # "down")
    BY <1>9 DEF OpenSeed
  <2> QED BY <2>1, <2>2, <2>3, <2>4
<1>10. CASE /\ UNCHANGED <<seed, Kept, clique_count>>
            /\ \/ reply' = reply /\ (pc' # "down") = (pc # "down")
               \/ reply' = NoReply /\ pc # "down" /\ pc' # "down"
  <2>1. absCollected' = absCollected /\ absPool' = absPool
    BY <1>1, <1>10
  <2>2. CASE reply' = reply /\ (pc' # "down") = (pc # "down")
    BY <1>10, <2>1, <2>2
  <2>3. CASE reply' = NoReply /\ pc # "down" /\ pc' # "down"
    BY <1>10, <2>1, <2>3 DEF Rounds!TakeBack, Rounds!RoundsNext
  <2> QED BY <1>10, <2>2, <2>3
\* What the remaining actions leave alone.
<1>11. ASSUME NEW ip \in Clients, Accept(ip) PROVE [Rounds!RoundsNext]_(Rounds!roundVars)
  BY <1>10, <1>11 DEF Accept, Kept, disk
<1>12. CASE Receive
  BY <1>10, <1>12
     DEF Receive, ReceiveOther, ReceiveRequest, ReceiveGraph, Kept, memory, disk
<1>13. CASE Judge \/ OpenCE \/ CloseCE
  BY <1>10, <1>13 DEF Judge, EndOfUpload, OpenCE, CloseCE, Kept, memory, disk
<1>14. ASSUME \/ BroadcastSkip \/ BroadcastDone
              \/ \E retreats \in BOOLEAN : BroadcastFails(retreats)
       PROVE  [Rounds!RoundsNext]_(Rounds!roundVars)
  BY <1>10, <1>14
     DEF BroadcastSkip, BroadcastDone, BroadcastFails, InLoop, Kept, memory, disk
<1>15. CASE UNCHANGED vars
  BY <1>10, <1>15 DEF vars, Kept, memory, disk
<1> QED BY <1>3, <1>4, <1>5, <1>6, <1>7, <1>8, <1>9, <1>11, <1>12, <1>13, <1>14, <1>15
        DEF Next, Serve

\* If no upload is cut off, the server with its directories, counters, broken
\* connections and crashes is the sequence of rounds SeedRounds describes.
THEOREM ServerImplementsRounds ==
    ASSUME Uploads \subseteq Graph
    PROVE  Spec => ImplementsRounds
<1>1. Init => Rounds!RoundsInit
  BY InitRefines
<1>2. Inv /\ WholeInv /\ [Next]_vars => [Rounds!RoundsNext]_(Rounds!roundVars)
  BY NextRefines
<1> QED BY <1>1, <1>2, InvHolds, WholeInvHolds, PTL
        DEF Spec, ImplementsRounds, Rounds!RoundsSpec

-----------------------------------------------------------------------------
(* Counterexamples, when no upload is cut off *)

\* What main copies is the graph it has judged; a counterexample whose directory
\* exists is whole there before its second copy begins.
CopiesInv ==
    /\ pc \in Copying => gsize = temp.gsize
    /\ pc \in {"saveCE", "writeCE"} => temp.cliques = 0
    /\ pc = "keep" /\ temp.cliques = 0 /\ gsize \in DOMAIN ce
         => ce[gsize][collect_count] = temp
    /\ pc = "writeSeed" /\ temp.cliques = 0 /\ gsize \in DOMAIN ce
         => ce[gsize][collect_count - 1] = temp

CEInv == CopiesInv /\ CEWholeOrTorn /\ CEComplete

\* A copy to ce_<gsize> touches one file at most.
LEMMA SaveCEFile ==
    ASSUME TypeOK, NEW content, collect_count \in Index,
           ce' = SaveCE(gsize, collect_count, content)
    PROVE  /\ DOMAIN ce' = DOMAIN ce
           /\ \A n \in DOMAIN ce : \A k \in Index :
                 ce'[n][k] = IF n = gsize /\ k = collect_count THEN content ELSE ce[n][k]
BY DEF SaveCE, TypeOK

LEMMA InitCopies == Init => CEInv
BY DEF Init, InitMemory, CEInv, CopiesInv, CEWholeOrTorn, CEComplete, EmptyDir, Kept,
       Copying

LEMMA NextCopies ==
    ASSUME Uploads \subseteq Graph
    PROVE  Inv /\ WholeInv /\ CEInv /\ [Next]_vars => CEInv'
<1> SUFFICES ASSUME Inv, WholeInv, CEInv, [Next]_vars PROVE CEInv'
  OBVIOUS
<1>1. ASSUME UNCHANGED <<seed, ce, Kept, clique_count>> PROVE CEComplete'
  BY <1>1 DEF CEInv, CEComplete, CurDir, DirOf
<1>2. ASSUME UNCHANGED <<ce, torn>>, pc # "writeCE" PROVE CEWholeOrTorn'
  BY <1>2 DEF CEInv, CEWholeOrTorn, IsCounterexample, BeingCopied, Torn
<1>3. CASE Judge
  <2>1. PICK count \in Counts(temp, g) :
          \/ pc' = "saveCE" /\ temp' = temp /\ IsCE(count)
          \/ pc' = "keep" /\ temp' = temp /\ ~IsCE(count)
          \/ pc' \in {"round", "accept"}
    BY <1>3 DEF Judge, EndOfUpload
  <2>2. temp \in Graph /\ count = temp.cliques /\ gsize' = temp.gsize
    BY <1>3, <2>1 DEF Judge, WholeInv, Counts
  <2>3. Kept' = Kept /\ UNCHANGED <<seed, ce, torn, clique_count>> /\ pc = "judge"
    BY <1>3, <2>1 DEF Judge, Kept, disk
  <2>4. CopiesInv'
    BY <2>1, <2>2 DEF CopiesInv, Copying, IsCE
  <2> QED BY <1>1, <1>2, <2>3, <2>4 DEF CEInv
<1>4. CASE OpenCE
  <2>1. /\ pc = "saveCE" /\ collect_count \in Index
        /\ temp.cliques = 0 /\ gsize = temp.gsize
    BY <1>4, CopyIndex DEF OpenCE, Inv, CEInv, CopiesInv, Copying
  <2>2. /\ DOMAIN ce' = DOMAIN ce
        /\ \A n \in DOMAIN ce : \A k \in Index :
              ce'[n][k] = IF n = gsize /\ k = collect_count THEN Broken ELSE ce[n][k]
    BY <1>4, <2>1, SaveCEFile DEF OpenCE, Inv
  <2>3. /\ UNCHANGED <<seed, torn, clique_count, collect_count, gsize, temp>>
        /\ Kept = collect_count /\ Kept' = collect_count
        /\ pc' = IF gsize \in DOMAIN ce THEN "writeCE" ELSE "keep"
    BY <1>4 DEF OpenCE, Kept, memory
  <2>4. CopiesInv'
    BY <2>1, <2>2, <2>3 DEF CopiesInv, Copying
  <2>5. CEWholeOrTorn'
    <3>1. ASSUME NEW n \in DOMAIN ce, NEW k \in Index, n = gsize /\ k = collect_count
          PROVE  ce'[n][k] = Broken /\ BeingCopied(n, k)'
      BY <2>2, <2>3, <3>1 DEF BeingCopied
    <3>2. ASSUME NEW n \in DOMAIN ce, NEW k \in Index, ~(n = gsize /\ k = collect_count)
          PROVE  /\ ce'[n][k] = ce[n][k]
                 /\ ~BeingCopied(n, k)
                 /\ Torn(n, k) => Torn(n, k)'
      BY <2>2, <2>3, <3>2 DEF BeingCopied, Torn
    <3> QED BY <2>2, <3>1, <3>2 DEF CEInv, CEWholeOrTorn, IsCounterexample
  <2>6. CEComplete'
    <3>1. \A k \in 0 .. collect_count - 1 : k \in Index /\ k # collect_count
      BY <2>1, Constants DEF Index
    <3> QED BY <2>2, <2>3, <3>1 DEF CEInv, CEComplete, CurDir, DirOf
  <2> QED BY <2>4, <2>5, <2>6 DEF CEInv
<1>5. CASE CloseCE
  <2>1. /\ pc = "writeCE" /\ collect_count \in Index /\ temp \in Graph
        /\ temp.cliques = 0 /\ gsize = temp.gsize
    BY <1>5, CopyIndex DEF CloseCE, Inv, CEInv, CopiesInv, WholeInv, Copying
  <2>2. /\ DOMAIN ce' = DOMAIN ce
        /\ \A n \in DOMAIN ce : \A k \in Index :
              ce'[n][k] = IF n = gsize /\ k = collect_count THEN temp ELSE ce[n][k]
    BY <1>5, <2>1, SaveCEFile DEF CloseCE, Inv
  <2>3. /\ UNCHANGED <<seed, clique_count, collect_count, gsize, temp>>
        /\ torn' = torn \ {<<gsize, collect_count>>}
        /\ Kept = collect_count /\ Kept' = collect_count
        /\ pc' = "keep"
    BY <1>5 DEF CloseCE, Kept, memory
  <2>4. CopiesInv'
    BY <2>1, <2>2, <2>3 DEF CopiesInv, Copying
  <2>5. CEWholeOrTorn'
    <3>1. ASSUME NEW n \in DOMAIN ce, NEW k \in Index, ~(n = gsize /\ k = collect_count)
          PROVE  /\ ce'[n][k] = ce[n][k]
                 /\ ~BeingCopied(n, k)
                 /\ Torn(n, k) => Torn(n, k)'
      <4>1. ce'[n][k] = ce[n][k] /\ ~BeingCopied(n, k)
        BY <2>2, <3>1 DEF BeingCopied
      <4>2. <<n, k>> # <<gsize, collect_count>>
        BY <3>1
      <4> QED BY <2>3, <4>1, <4>2, Zenon DEF Torn
    <3>2. ASSUME NEW n \in DOMAIN ce, NEW k \in Index, n = gsize /\ k = collect_count
          PROVE  IsCounterexample(ce'[n][k], n)
      BY <2>1, <2>2, <3>2 DEF IsCounterexample
    <3> QED BY <2>2, <3>1, <3>2 DEF CEInv, CEWholeOrTorn, IsCounterexample
  <2>6. CEComplete'
    <3>1. \A k \in 0 .. collect_count - 1 : k \in Index /\ k # collect_count
      BY <2>1, Constants DEF Index
    <3> QED BY <2>2, <2>3, <3>1 DEF CEInv, CEComplete, CurDir, DirOf
  <2> QED BY <2>4, <2>5, <2>6 DEF CEInv
<1>6. CASE OpenSeed
  <2>1. /\ UNCHANGED <<ce, torn, gsize, temp, Kept, CurDir>>
        /\ pc = "keep" /\ pc' = "writeSeed"
    BY <1>6, OpenSeedCopy DEF OpenSeed, Inv
  <2>2. CopiesInv'
    BY <1>6, <2>1, OpenSeedCopy DEF Inv, CEInv, CopiesInv, Copying
  <2>3. CEComplete'
    <3>1. \A k \in 0 .. Kept - 1 : seed'[CurDir][k] = seed[CurDir][k]
      BY <1>6, OpenSeedCopy DEF Inv
    <3> QED BY <2>1, <3>1 DEF CEInv, CEComplete
  <2> QED BY <1>2, <2>1, <2>2, <2>3 DEF CEInv
<1>7. CASE CloseSeed
  <2>1. UNCHANGED <<ce, torn, CurDir>> /\ pc = "writeSeed" /\ pc' \notin Copying
    BY <1>7, CloseSeedCopy DEF CloseSeed, Copying, Inv
  <2>2. CopiesInv'
    BY <2>1 DEF CopiesInv, Copying
  <2>3. CEComplete'
    <3>1. ASSUME NEW k \in 0 .. Kept' - 1,
                 seed'[CurDir][k] \in Graph, seed'[CurDir][k].cliques = 0,
                 seed'[CurDir][k].gsize \in DOMAIN ce
          PROVE  ce[seed'[CurDir][k].gsize][k] = seed'[CurDir][k]
      <4>1. CASE k = collect_count - 1
        <5>1. seed'[CurDir][k] = temp
          BY <1>7, <4>1, CloseSeedCopy DEF Inv
        <5> QED BY <2>1, <3>1, <4>1, <5>1 DEF CEInv, CopiesInv, Copying
      <4>2. CASE k # collect_count - 1
        <5>1. k \in 0 .. collect_count - 2 /\ k \in 0 .. Kept - 1
          BY <1>7, <4>2, CloseSeedCopy DEF Inv, TypeOK
        <5>2. seed'[CurDir][k] = seed[CurDir][k]
          BY <1>7, <5>1, CloseSeedCopy DEF Inv
        <5> QED BY <3>1, <5>1, <5>2 DEF CEInv, CEComplete
      <4> QED BY <4>1, <4>2
    <3> QED BY <2>1, <3>1 DEF CEComplete
  <2> QED BY <1>2, <2>1, <2>2, <2>3 DEF CEInv
<1>8. CASE NextRound
  <2>1. Kept' = 0 /\ pc = "round" /\ pc' = "broadcast" /\ torn' = torn
    BY <1>8 DEF NextRound, Kept
  <2>2. CEComplete' /\ CopiesInv'
    BY <2>1 DEF CEComplete, CopiesInv, Copying
  <2>3. ce' = ce \/ ce' = MakeCEDir(gsize + 1)
    BY <1>8 DEF NextRound
  <2>4. CEWholeOrTorn'
    <3>1. ASSUME NEW n \in DOMAIN ce', NEW k \in Index
          PROVE  \/ ce'[n][k] = NoFile
                 \/ n \in DOMAIN ce /\ ce'[n][k] = ce[n][k]
      BY <2>3, <3>1 DEF MakeCEDir, EmptyDir
    <3>2. ASSUME NEW n, NEW k
          PROVE  ~BeingCopied(n, k) /\ (Torn(n, k) => Torn(n, k)')
      BY <2>1 DEF BeingCopied, Torn
    <3> QED BY <3>1, <3>2 DEF CEInv, CEWholeOrTorn, IsCounterexample
  <2> QED BY <2>2, <2>4 DEF CEInv
<1>9. CASE Crash
  <2>1. Kept' = 0 /\ pc' = "down" /\ UNCHANGED <<ce, gsize, collect_count>>
    BY <1>9 DEF Crash, Kept, memory
  <2>2. CEComplete' /\ CopiesInv'
    BY <2>1 DEF CEComplete, CopiesInv, Copying
  <2>3. /\ torn \subseteq torn'
        /\ pc = "writeCE" => <<gsize, collect_count>> \in torn'
    BY <1>9 DEF Crash
  <2>4. CEWholeOrTorn'
    <3>1. ASSUME NEW n, NEW k
          PROVE  BeingCopied(n, k) \/ Torn(n, k) => Torn(n, k)'
      BY <2>3, <3>1 DEF BeingCopied, Torn
    <3> QED BY <2>1, <3>1 DEF CEInv, CEWholeOrTorn, IsCounterexample
  <2> QED BY <2>2, <2>4 DEF CEInv
<1>10. CASE Start
  <2>1. Kept' = 0 /\ pc = "down" /\ pc' = "accept" /\ UNCHANGED <<ce, torn>>
    BY <1>10 DEF Start, Kept
  <2> QED BY <1>2, <2>1 DEF CEInv, CEComplete, CopiesInv, Copying
<1>11. CASE UNCHANGED vars
  <2>1. UNCHANGED <<Kept, CurDir>>
    BY <1>11 DEF vars, memory, Kept, CurDir, DirOf
  <2> QED BY <1>1, <1>11, <2>1
          DEF vars, memory, disk, CEInv, CEWholeOrTorn, CopiesInv, IsCounterexample,
              BeingCopied, Torn
<1>12. CASE /\ UNCHANGED <<seed, ce, torn, collect_count, clique_count>>
            /\ pc \in {"accept", "receive", "reply", "broadcast"}
            /\ pc' \in {"accept", "receive", "reply", "broadcast", "judge"}
  <2>1. UNCHANGED Kept
    BY <1>12 DEF Kept
  <2>2. CopiesInv'
    BY <1>12 DEF CopiesInv, Copying
  <2> QED BY <1>1, <1>2, <1>12, <2>1, <2>2 DEF CEInv
<1> QED BY <1>3, <1>4, <1>5, <1>6, <1>7, <1>8, <1>9, <1>10, <1>11, <1>12
        DEF Next, Receive, Serve, memory, disk, Accept, ReceiveOther, ReceiveRequest,
            ReceiveGraph, Reply, BroadcastSkip, BroadcastSend, BroadcastFails,
            BroadcastDone, InLoop

LEMMA CEInvHolds ==
    ASSUME Uploads \subseteq Graph
    PROVE  Spec => []CEInv
<1>1. Init => CEInv
  BY InitCopies
<1>2. Inv /\ WholeInv /\ CEInv /\ [Next]_vars => CEInv'
  BY NextCopies
<1> QED BY <1>1, <1>2, InvHolds, WholeInvHolds, PTL DEF Spec

\* If no upload is cut off, a file of ce_<n> is a counterexample of n nodes, unless
\* it is being copied or a process died copying it and no copy was completed since.
THEOREM OnlyDeathTearsCounterexamples ==
    ASSUME Uploads \subseteq Graph
    PROVE  Spec => []CEWholeOrTorn
<1>1. CEInv => CEWholeOrTorn
  BY DEF CEInv
<1> QED BY <1>1, CEInvHolds, PTL

\* If no upload is cut off, a collected counterexample is in both its directories.
THEOREM CounterexamplesAreCopied ==
    ASSUME Uploads \subseteq Graph
    PROVE  Spec => []CEComplete
<1>1. CEInv => CEComplete
  BY DEF CEInv
<1> QED BY <1>1, CEInvHolds, PTL
=============================================================================
