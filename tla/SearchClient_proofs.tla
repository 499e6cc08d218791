------------------------- MODULE SearchClient_proofs -------------------------
(***************************************************************************)
(* Proofs of the client's safety, for any graphs, any file length, any     *)
(* backlog and whatever may go wrong with connections.                     *)
(***************************************************************************)
EXTENDS SearchClientProps, SequenceTheorems, TLAPS

\* While main loads and nothing has come since it cleared the flag, it has read
\* the beginning of what the file holds.
LoadInv ==
    /\ ~recv_flag /\ FileAtRest /\ pc = "rest"
         => g = IF old_graph = << >> THEN << >> ELSE <<Head(old_graph)>>
    /\ LoadedIsFile

-----------------------------------------------------------------------------
(* Files and connections *)

LEMMA Constants ==
    /\ TopTarget \in Nat /\ Units \in Nat /\ Units > 0
    /\ 0 \in Target /\ TopTarget \in Target
    /\ "main" \in Threads /\ "listener" \in Threads
    /\ Junk \in Unit
    /\ Nothing \in Remainder
BY ClientAssumption DEF Target, Threads, Unit, Nothing, Remainder

\* What the server sends has a graph's length, and what a short read makes of it is at
\* most one unit longer.
LEMMA FileLength ==
    /\ \A units \in OutOfStep : units \in Seq(Unit) /\ Len(units) \in Length
    /\ \A f \in Graphs : FileOf(f) \in File
<1>1. ASSUME NEW n \in Length
      PROVE  [k \in 1 .. n |-> Junk] \in Seq(Unit) /\ Len([k \in 1 .. n |-> Junk]) = n
  BY Constants DEF Length
<1>2. ASSUME NEW f \in Graphs
      PROVE  FileOf(f) \in Seq(Unit) /\ Len(FileOf(f)) = Units
  BY Constants DEF FileOf, Unit
<1> QED BY <1>1, <1>2 DEF File, OutOfStep, Length

\* While a stream has something to write, the place of its next unit is in the file.
LEMMA NextUnit ==
    ASSUME NEW k \in Nat, NEW n \in Nat, n > 0, k + n \in Length
    PROVE  /\ k + 1 \in Nat /\ k + 1 \in 1 .. Units + 1
           /\ k + 1 + (n - 1) \in Length
BY Constants DEF Length

\* A write into the file, wherever its end is by now, leaves a file that is no
\* longer than the longest a stream writes.
LEMMA WriteAtType ==
    ASSUME NEW file \in Seq(Unit), Len(file) <= Units + 1,
           NEW k \in 1 .. Units + 1, NEW unit \in Unit
    PROVE  WriteAt(file, k, unit) \in Seq(Unit) /\ Len(WriteAt(file, k, unit)) <= Units + 1
<1> DEFINE n == IF k > Len(file) THEN k ELSE Len(file)
<1>1. n \in Nat /\ n <= Units + 1
  BY Constants
<1>2. WriteAt(file, k, unit) \in [1 .. n -> Unit]
  BY <1>1, Constants DEF WriteAt
<1>3. WriteAt(file, k, unit) \in Seq(Unit) /\ Len(WriteAt(file, k, unit)) = n
  BY <1>1, <1>2
<1> QED BY <1>1, <1>3

\* Reading the first buffer and then the rest gives the file.
LEMMA HeadAndTail ==
    ASSUME NEW S, NEW s \in Seq(S), s # << >>
    PROVE  /\ <<Head(s)>> \in Seq(S) /\ Tail(s) \in Seq(S)
           /\ Len(Tail(s)) = Len(s) - 1
           /\ <<Head(s)>> # << >>
           /\ <<Head(s)>> \o Tail(s) = s
<1>1. Len(s) > 0 /\ Head(s) \in S /\ Tail(s) \in Seq(S) /\ Len(Tail(s)) = Len(s) - 1
  BY HeadTailProperties, LenProperties, EmptySeq
<1>2. <<Head(s)>> \o Tail(s) \in Seq(S) /\ Len(<<Head(s)>> \o Tail(s)) = Len(s)
  BY <1>1, ConcatProperties
<1>3. \A i \in 1 .. Len(s) : (<<Head(s)>> \o Tail(s))[i] = s[i]
  BY <1>1, ConcatProperties
<1> QED BY <1>1, <1>2, <1>3, SeqEqual

-----------------------------------------------------------------------------
(* Types *)

LEMMA InitType == Init => TypeOK
<1> SUFFICES ASSUME Init PROVE TypeOK
  OBVIOUS
<1>1. conn \in [Threads -> Remainder] /\ fp \in [Threads -> Nat]
  BY Constants DEF Init
<1>2. ASSUME NEW t \in Threads PROVE ConnOK(t)
  <2>1. at[t] = "none"
    BY DEF Init
  <2> QED BY <2>1 DEF ConnOK
<1>3. /\ recv_flag \in BOOLEAN /\ search_mode \in Modes /\ pc \in PCs /\ gaveUp \in BOOLEAN
      /\ best_ever \in Target /\ target \in Target
  BY Constants DEF Init, Modes, PCs
<1>4. at \in [Threads -> Places]
  BY DEF Init, Places
<1>5. old_graph \in Seq(Unit) /\ Len(old_graph) <= Units + 1 /\ g \in Seq(Unit)
  BY Constants, EmptySeq DEF Init
<1>6. queue \in Seq(Message)
  BY EmptySeq DEF Init
<1> QED BY <1>1, <1>2, <1>3, <1>4, <1>5, <1>6 DEF TypeOK

\* The other thread's connection is none of thread t's business.
LEMMA ConnFrame ==
    ASSUME TypeOK, NEW t \in Threads, NEW r \in Remainder, NEW p \in Places, NEW k \in Nat,
           conn' = [conn EXCEPT ![t] = r], at' = [at EXCEPT ![t] = p],
           fp' = [fp EXCEPT ![t] = k],
           p = "mode" => r \in Message,
           p \in {"target", "open"} => Len(r.units) \in Length,
           p = "file" => Len(r.units) > 0 /\ k + Len(r.units) \in Length
    PROVE  /\ conn' \in [Threads -> Remainder]
           /\ at' \in [Threads -> Places]
           /\ fp' \in [Threads -> Nat]
           /\ \A u \in Threads : ConnOK(u)'
<1>1. conn' \in [Threads -> Remainder] /\ at' \in [Threads -> Places]
      /\ fp' \in [Threads -> Nat]
  BY DEF TypeOK
<1>2. conn'[t] = r /\ at'[t] = p /\ fp'[t] = k
  BY DEF TypeOK
<1>3. ConnOK(t)'
  BY <1>2 DEF ConnOK
<1>4. ASSUME NEW u \in Threads, u # t PROVE ConnOK(u)'
  <2>1. conn'[u] = conn[u] /\ at'[u] = at[u] /\ fp'[u] = fp[u]
    BY <1>4 DEF TypeOK
  <2> QED BY <2>1 DEF TypeOK, ConnOK
<1> QED BY <1>1, <1>3, <1>4

\* The same when the thread's stream writes nothing.
LEMMA ConnStep ==
    ASSUME TypeOK, NEW t \in Threads, NEW r \in Remainder, NEW p \in Places,
           conn' = [conn EXCEPT ![t] = r], at' = [at EXCEPT ![t] = p], fp' = fp,
           p = "mode" => r \in Message,
           p \in {"target", "open"} => Len(r.units) \in Length,
           p # "file"
    PROVE  /\ conn' \in [Threads -> Remainder]
           /\ at' \in [Threads -> Places]
           /\ fp' \in [Threads -> Nat]
           /\ \A u \in Threads : ConnOK(u)'
<1>1. fp[t] \in Nat /\ fp' = [fp EXCEPT ![t] = fp[t]]
  BY DEF TypeOK
<1> QED BY <1>1, ConnFrame

\* A step of receive_file keeps the types.
LEMMA ReceiveType ==
    ASSUME TypeOK, NEW t \in Threads, Receive(t)
    PROVE  TypeOK'
<1> USE DEF TypeOK
<1>c. conn[t] \in Remainder /\ at[t] \in Places /\ ConnOK(t)
  OBVIOUS
<1>n. Nothing \in Remainder /\ "none" \in Places /\ "flag" \in Places
  BY Constants DEF Places
<1>1. CASE GiveUp(t)
  <2>1. /\ conn' \in [Threads -> Remainder] /\ at' \in [Threads -> Places]
        /\ fp' \in [Threads -> Nat] /\ \A u \in Threads : ConnOK(u)'
    BY <1>1, <1>n, ConnStep DEF GiveUp, Return
  <2> QED BY <1>1, <2>1 DEF GiveUp, Return, shared, server, PCs
<1>2. ASSUME NEW short \in BOOLEAN, RecvMode(t, short) PROVE TypeOK'
  <2>1. conn[t] \in Message
    BY <1>2, <1>c DEF RecvMode, ConnOK
  <2>2. PICK units \in FileAfter(t, short) :
          conn' = [conn EXCEPT ![t] =
                     [Nothing EXCEPT !.target = IF short THEN 0 ELSE conn[t].target,
                                     !.units = units]]
    BY <1>2 DEF RecvMode
  <2> DEFINE r == [Nothing EXCEPT !.target = IF short THEN 0 ELSE conn[t].target,
                                  !.units = units]
  <2>3. units \in Seq(Unit) /\ Len(units) \in Length
    BY <2>1, FileLength, Constants DEF FileAfter, Message, File, Length
  <2>4. r \in Remainder /\ r.units = units
    BY <2>1, <2>3, Constants DEF Remainder, Message, Nothing
  <2>5. conn' = [conn EXCEPT ![t] = r] /\ at' = [at EXCEPT ![t] = "target"] /\ fp' = fp
    BY <1>2, <2>2 DEF RecvMode
  <2>6. /\ conn' \in [Threads -> Remainder] /\ at' \in [Threads -> Places]
        /\ fp' \in [Threads -> Nat] /\ \A u \in Threads : ConnOK(u)'
    <3> HIDE DEF r, TypeOK
    <3> QED BY <2>3, <2>4, <2>5, ConnStep DEF Places
  <2>7. search_mode' \in Modes
    BY <1>2, <2>1 DEF RecvMode, Message
  <2> QED BY <1>2, <2>6, <2>7 DEF RecvMode, server
<1>3. ASSUME NEW short \in BOOLEAN, RecvTarget(t, short) PROVE TypeOK'
  <2>1. /\ conn[t].units \in Seq(Unit) /\ Len(conn[t].units) \in Length
        /\ conn[t].target \in Target
    BY <1>3, <1>c DEF RecvTarget, ConnOK, Remainder
  <2>2. PICK units \in FileAfter(t, short) :
          conn' = [conn EXCEPT ![t] = [Nothing EXCEPT !.units = units]]
    BY <1>3 DEF RecvTarget
  <2> DEFINE r == [Nothing EXCEPT !.units = units]
  <2>3. units \in Seq(Unit) /\ Len(units) \in Length
    BY <2>1, FileLength DEF FileAfter
  <2>4. r \in Remainder /\ r.units = units
    BY <2>3, Constants DEF Remainder, Nothing
  <2>5. conn' = [conn EXCEPT ![t] = r] /\ at' = [at EXCEPT ![t] = "open"] /\ fp' = fp
    BY <1>3, <2>2 DEF RecvTarget
  <2>6. /\ conn' \in [Threads -> Remainder] /\ at' \in [Threads -> Places]
        /\ fp' \in [Threads -> Nat] /\ \A u \in Threads : ConnOK(u)'
    <3> HIDE DEF r, TypeOK
    <3> QED BY <2>3, <2>4, <2>5, ConnStep DEF Places
  <2> QED BY <1>3, <2>1, <2>6 DEF RecvTarget, server
<1>4. CASE OpenOldGraph(t)
  <2>1. Len(conn[t].units) \in Length
    BY <1>4, <1>c DEF OpenOldGraph, ConnOK
  <2>2. /\ conn' = [conn EXCEPT ![t] = conn[t]] /\ at' = [at EXCEPT ![t] = "file"]
        /\ fp' = [fp EXCEPT ![t] = 0]
    BY <1>4 DEF OpenOldGraph
  <2>3. Len(conn[t].units) > 0 /\ 0 + Len(conn[t].units) \in Length
    BY <2>1, Constants DEF Length
  <2>4. /\ conn' \in [Threads -> Remainder] /\ at' \in [Threads -> Places]
        /\ fp' \in [Threads -> Nat] /\ \A u \in Threads : ConnOK(u)'
    <3> HIDE DEF TypeOK
    <3> QED BY <1>c, <2>2, <2>3, ConnFrame DEF Places
  <2> QED BY <1>4, <2>4, Constants DEF OpenOldGraph, server
<1>5. CASE RecvUnit(t)
  <2> DEFINE s == conn[t].units
             r == [conn[t] EXCEPT !.units = Tail(s)]
  <2>1. s \in Seq(Unit) /\ Len(s) > 1 /\ fp[t] \in Nat /\ fp[t] + Len(s) \in Length
    BY <1>5, <1>c DEF RecvUnit, ConnOK, Remainder
  <2>2. Head(s) \in Unit /\ Tail(s) \in Seq(Unit) /\ Len(Tail(s)) = Len(s) - 1
    BY <2>1, HeadTailProperties, EmptySeq
  <2>3. fp[t] + 1 \in 1 .. Units + 1 /\ Len(s) - 1 > 0 /\ fp[t] + 1 + (Len(s) - 1) \in Length
    <3>1. Len(s) \in Nat /\ Len(s) > 0 /\ Len(s) - 1 > 0
      BY <2>1, LenProperties
    <3> HIDE DEF s
    <3> QED BY <2>1, <3>1, NextUnit
  <2>4. r \in Remainder /\ Len(r.units) > 0 /\ fp[t] + 1 + Len(r.units) \in Length
    BY <1>c, <2>2, <2>3 DEF Remainder
  <2>5. /\ conn' = [conn EXCEPT ![t] = r] /\ at' = [at EXCEPT ![t] = "file"]
        /\ fp' = [fp EXCEPT ![t] = fp[t] + 1] /\ fp[t] + 1 \in Nat
    BY <1>5, <2>1 DEF RecvUnit
  <2>6. /\ conn' \in [Threads -> Remainder] /\ at' \in [Threads -> Places]
        /\ fp' \in [Threads -> Nat] /\ \A u \in Threads : ConnOK(u)'
    <3> HIDE DEF r, TypeOK
    <3> QED BY <2>4, <2>5, ConnFrame DEF Places
  <2>7. old_graph' \in Seq(Unit) /\ Len(old_graph') <= Units + 1
    BY <1>5, <2>2, <2>3, WriteAtType DEF RecvUnit
  <2> QED BY <1>5, <2>6, <2>7 DEF RecvUnit, server
<1>6. CASE CloseOldGraph(t)
  <2>1. /\ conn' \in [Threads -> Remainder] /\ at' \in [Threads -> Places]
        /\ fp' \in [Threads -> Nat] /\ \A u \in Threads : ConnOK(u)'
    <3>1. /\ conn' = [conn EXCEPT ![t] = Nothing] /\ at' = [at EXCEPT ![t] = "flag"]
          /\ fp' = [fp EXCEPT ![t] = 0]
      BY <1>6 DEF CloseOldGraph
    <3> HIDE DEF TypeOK
    <3> QED BY <3>1, <1>n, ConnFrame
  <2>2. old_graph' \in Seq(Unit) /\ Len(old_graph') <= Units + 1
    <3>1. fp[t] + 1 \in 1 .. Units + 1
      <4>1. Len(conn[t].units) \in Nat /\ fp[t] \in Nat
        BY <1>c, LenProperties DEF Remainder
      <4>2. Len(conn[t].units) > 0 /\ fp[t] + Len(conn[t].units) \in Length
        BY <1>6, <1>c DEF CloseOldGraph, ConnOK
      <4> HIDE DEF TypeOK
      <4> QED BY <4>1, <4>2, NextUnit
    <3>2. CASE /\ Len(conn[t].units) = 1
               /\ old_graph' = WriteAt(old_graph, fp[t] + 1, Head(conn[t].units))
      <4>1. Head(conn[t].units) \in Unit
        BY <3>2, <1>c, HeadTailProperties, EmptySeq DEF Remainder
      <4> QED BY <3>1, <3>2, <4>1, WriteAtType
    <3>3. CASE old_graph' \in {old_graph, WriteAt(old_graph, fp[t] + 1, Junk)}
      BY <3>1, <3>3, WriteAtType, Constants
    <3> QED BY <1>6, <3>2, <3>3 DEF CloseOldGraph
  <2> QED BY <1>6, <2>1, <2>2 DEF CloseOldGraph, server
<1>7. CASE SetFlag(t)
  <2>1. /\ conn' \in [Threads -> Remainder] /\ at' \in [Threads -> Places]
        /\ fp' \in [Threads -> Nat] /\ \A u \in Threads : ConnOK(u)'
    BY <1>7, <1>n, ConnStep DEF SetFlag, Return
  <2> QED BY <1>7, <2>1 DEF SetFlag, Return, server, PCs
<1> QED BY <1>1, <1>2, <1>3, <1>4, <1>5, <1>6, <1>7 DEF Receive

\* A step of main that leaves the connections alone keeps the types.
LEMMA MainType ==
    ASSUME TypeOK,
           \/ Connect \/ Refused \/ Poll \/ LoadFirst \/ LoadRest \/ Choose
           \/ SearchGarbage \/ DFsearch \/ BFsearch \/ Test \/ UNCHANGED vars
    PROVE  TypeOK'
<1>1. conn' = conn /\ at' = at /\ fp' = fp /\ queue' = queue /\ target' = target
  BY DEF Connect, Refused, Poll, LoadFirst, LoadRest, Choose, SearchGarbage, DFsearch,
         BFsearch, Test, vars, receiving, server
<1>2. conn' \in [Threads -> Remainder] /\ \A t \in Threads : ConnOK(t)'
  BY <1>1 DEF TypeOK, ConnOK
<1>3. g' \in Seq(Unit)
  <2>1. CASE LoadFirst
    BY <2>1, HeadAndTail, EmptySeq DEF LoadFirst, TypeOK
  <2>2. CASE LoadRest
    <3>1. CASE g = << >> \/ old_graph = << >>
      BY <2>2, <3>1 DEF LoadRest, TypeOK
    <3>2. CASE g # << >> /\ old_graph # << >>
      <4>1. Tail(old_graph) \in Seq(Unit)
        BY <3>2, HeadAndTail DEF TypeOK
      <4>2. g \o Tail(old_graph) \in Seq(Unit)
        BY <4>1, ConcatProperties DEF TypeOK
      <4> QED BY <2>2, <3>2, <4>2 DEF LoadRest
    <3> QED BY <3>1, <3>2
  <2>3. CASE ~LoadFirst /\ ~LoadRest
    <3>1. g' = g \/ g' = << >>
      BY <2>3 DEF Connect, Refused, Poll, Choose, SearchGarbage, DFsearch, BFsearch, Test, vars
    <3> QED BY <3>1, EmptySeq DEF TypeOK
  <2> QED BY <2>1, <2>2, <2>3
<1>4. pc' \in PCs
  BY DEF TypeOK, PCs, Modes, Connect, Refused, Poll, LoadFirst, LoadRest, Choose,
         SearchGarbage, DFsearch, BFsearch, Test, vars
<1>5. recv_flag' \in BOOLEAN
  BY DEF TypeOK, Connect, Refused, Poll, LoadFirst, LoadRest, Choose,
         SearchGarbage, DFsearch, BFsearch, Test, vars, shared
<1>6. /\ search_mode' = search_mode /\ best_ever' = best_ever
      /\ old_graph' = old_graph /\ gaveUp' = gaveUp
  BY DEF Connect, Refused, Poll, LoadFirst, LoadRest, Choose,
         SearchGarbage, DFsearch, BFsearch, Test, vars, shared, receiving
<1> QED BY <1>1, <1>2, <1>3, <1>4, <1>5, <1>6 DEF TypeOK

LEMMA NextType == TypeOK /\ [Next]_vars => TypeOK'
<1> SUFFICES ASSUME TypeOK, [Next]_vars PROVE TypeOK'
  OBVIOUS
<1>1. ASSUME NEW t \in Threads, Receive(t) PROVE TypeOK'
  BY <1>1, ReceiveType
<1>2. ASSUME NEW f \in Graphs, NEW m \in Modes, ServerReplies(f, m) PROVE TypeOK'
  <2> DEFINE r == [mode |-> m, target |-> target, units |-> FileOf(f)]
  <2>1. r \in Message /\ r \in Remainder
    BY FileLength DEF TypeOK, Message, Remainder, File
  <2>2. /\ conn' = [conn EXCEPT !["main"] = r] /\ at' = [at EXCEPT !["main"] = "mode"]
        /\ fp' = fp
    BY <1>2 DEF ServerReplies
  <2>3. /\ conn' \in [Threads -> Remainder] /\ at' \in [Threads -> Places]
        /\ fp' \in [Threads -> Nat] /\ \A u \in Threads : ConnOK(u)'
    <3> HIDE DEF r
    <3> QED BY <2>1, <2>2, ConnStep, Constants DEF Places
  <2> QED BY <1>2, <2>3 DEF ServerReplies, TypeOK, shared, server
<1>3. ASSUME NEW f \in Graphs, ServerBroadcasts(f) PROVE TypeOK'
  <2>1. target' \in Target
    BY <1>3, Constants DEF ServerBroadcasts, TypeOK, Target
  <2>2. queue' \in Seq(Message)
    BY <1>3, <2>1, FileLength DEF ServerBroadcasts, TypeOK, Message, Modes
  <2>3. \A t \in Threads : ConnOK(t)'
    BY <1>3 DEF ServerBroadcasts, TypeOK, ConnOK, receiving
  <2> QED BY <1>3, <2>1, <2>2, <2>3 DEF ServerBroadcasts, TypeOK, shared, receiving
<1>4. CASE ListenerAccepts
  <2> DEFINE r == Head(queue)
  <2>1. r \in Message /\ Tail(queue) \in Seq(Message)
    BY <1>4, HeadTailProperties DEF ListenerAccepts, TypeOK
  <2>2. r \in Remainder
    BY <2>1 DEF Message, Remainder, File
  <2>3. /\ conn' = [conn EXCEPT !["listener"] = r] /\ at' = [at EXCEPT !["listener"] = "mode"]
        /\ fp' = fp
    BY <1>4 DEF ListenerAccepts
  <2>4. /\ conn' \in [Threads -> Remainder] /\ at' \in [Threads -> Places]
        /\ fp' \in [Threads -> Nat] /\ \A u \in Threads : ConnOK(u)'
    <3> HIDE DEF r
    <3> QED BY <2>1, <2>2, <2>3, ConnStep, Constants DEF Places
  <2> QED BY <1>4, <2>1, <2>4 DEF ListenerAccepts, TypeOK, shared
<1>5. CASE Restart
  <2>1. conn' \in [Threads -> Remainder] /\ fp' \in [Threads -> Nat]
    BY <1>5, Constants DEF Restart
  <2>2. ASSUME NEW t \in Threads PROVE ConnOK(t)'
    <3>1. at'[t] = "none"
      BY <1>5 DEF Restart
    <3> QED BY <3>1 DEF ConnOK
  <2>3. /\ recv_flag' \in BOOLEAN /\ search_mode' \in Modes /\ pc' \in PCs
        /\ gaveUp' \in BOOLEAN /\ best_ever' \in Target /\ target' \in Target
    BY <1>5, Constants DEF Restart, TypeOK, Modes, PCs
  <2>4. at' \in [Threads -> Places]
    BY <1>5 DEF Restart, Places
  <2>5. g' \in Seq(Unit) /\ queue' \in Seq(Message)
    BY <1>5, EmptySeq DEF Restart
  <2>6. old_graph' \in Seq(Unit) /\ Len(old_graph') <= Units + 1
    BY <1>5 DEF Restart, TypeOK
  <2> QED BY <2>1, <2>2, <2>3, <2>4, <2>5, <2>6 DEF TypeOK
<1>6. CASE \/ Connect \/ Refused \/ Poll \/ Sleep \/ LoadFirst \/ LoadRest \/ Choose
           \/ SearchGarbage \/ DFsearch \/ BFsearch \/ Test \/ UNCHANGED vars
  BY <1>6, MainType DEF Sleep
<1> QED BY <1>1, <1>2, <1>3, <1>4, <1>5, <1>6 DEF Next

\* Every variable keeps its type and old_graph grows at most one stdio buffer beyond
\* a graph's file, wherever the two threads' streams are, whatever is read short or
\* breaks (client_transfer.c:88-136).
THEOREM TypeCorrect == Spec => []TypeOK
<1>1. TypeOK /\ [Next]_vars => TypeOK'
  BY NextType
<1> QED BY <1>1, InitType, PTL DEF Spec

-----------------------------------------------------------------------------
(* No graph is forgotten *)

LEMMA InitLoad == Init => LoadInv
BY DEF Init, LoadInv, LoadedIsFile, Modes

\* What a thread does to the file lies between its fopen and its recv_flag = true.
LEMMA ReceiveLoad ==
    ASSUME TypeOK, LoadInv, NEW t \in Threads, Receive(t)
    PROVE  LoadInv'
<1>1. CASE GiveUp(t)
  <2>1. FileAtRest' => FileAtRest
    BY <1>1 DEF GiveUp, Return, FileAtRest, TypeOK
  <2> QED BY <1>1, <2>1 DEF GiveUp, Return, shared, LoadInv, LoadedIsFile, Modes
<1>2. ASSUME NEW short \in BOOLEAN, RecvMode(t, short) \/ RecvTarget(t, short)
      PROVE  LoadInv'
  <2>1. FileAtRest' => FileAtRest
    BY <1>2 DEF RecvMode, RecvTarget, FileAtRest, TypeOK
  <2> QED BY <1>2, <2>1 DEF RecvMode, RecvTarget, LoadInv, LoadedIsFile
<1>3. CASE OpenOldGraph(t) \/ RecvUnit(t) \/ CloseOldGraph(t)
  <2>1. ~FileAtRest'
    BY <1>3 DEF OpenOldGraph, RecvUnit, CloseOldGraph, FileAtRest, TypeOK
  <2> QED BY <2>1 DEF LoadInv, LoadedIsFile
<1>4. CASE SetFlag(t)
  BY <1>4 DEF SetFlag, LoadInv, LoadedIsFile
<1> QED BY <1>1, <1>2, <1>3, <1>4 DEF Receive

LEMMA NextLoad == TypeOK /\ LoadInv /\ [Next]_vars => LoadInv'
<1> SUFFICES ASSUME TypeOK, LoadInv, [Next]_vars PROVE LoadInv'
  OBVIOUS
<1>1. ASSUME NEW t \in Threads, Receive(t) PROVE LoadInv'
  BY <1>1, ReceiveLoad
<1>2. ASSUME NEW f \in Graphs, NEW m \in Modes, ServerReplies(f, m) PROVE LoadInv'
  BY <1>2 DEF ServerReplies, LoadInv, LoadedIsFile, Modes
<1>3. ASSUME NEW f \in Graphs, ServerBroadcasts(f) PROVE LoadInv'
  BY <1>3 DEF ServerBroadcasts, shared, receiving, LoadInv, LoadedIsFile, FileAtRest
<1>4. CASE ListenerAccepts
  <2>1. FileAtRest' => FileAtRest
    BY <1>4 DEF ListenerAccepts, FileAtRest, TypeOK
  <2> QED BY <1>4, <2>1 DEF ListenerAccepts, shared, LoadInv, LoadedIsFile
<1>5. CASE LoadFirst
  BY <1>5 DEF LoadFirst, LoadInv, LoadedIsFile, FileAtRest, shared, receiving, Modes
<1>6. CASE LoadRest
  <2> SUFFICES ASSUME ~recv_flag, FileAtRest PROVE g' = old_graph
    BY <1>6 DEF LoadRest, LoadInv, LoadedIsFile, FileAtRest, shared, receiving
  <2>1. g = IF old_graph = << >> THEN << >> ELSE <<Head(old_graph)>>
    BY <1>6 DEF LoadRest, LoadInv
  <2>2. CASE old_graph = << >>
    BY <1>6, <2>1, <2>2 DEF LoadRest
  <2>3. CASE old_graph # << >>
    BY <1>6, <2>1, <2>3, HeadAndTail DEF LoadRest, TypeOK
  <2> QED BY <2>2, <2>3
<1>7. CASE Choose
  BY <1>7 DEF Choose, TypeOK, LoadInv, LoadedIsFile, FileAtRest, shared, receiving, Modes
<1>8. CASE Connect \/ Refused \/ Poll \/ SearchGarbage \/ DFsearch \/ BFsearch \/ Test \/ Restart
  BY <1>8 DEF Connect, Refused, Poll, SearchGarbage, DFsearch, BFsearch, Test, Restart,
              LoadInv, LoadedIsFile, Modes
<1>9. CASE Sleep \/ UNCHANGED vars
  BY <1>9 DEF Sleep, vars, shared, receiving, LoadInv, LoadedIsFile, FileAtRest
<1> QED BY <1>1, <1>2, <1>3, <1>4, <1>5, <1>6, <1>7, <1>8, <1>9 DEF Next

\* No graph is forgotten, however the two threads interleave and connections break:
\* clearing recv_flag before load_graph (client.c:41-42) and setting it after fclose
\* (client_transfer.c:132-133) is enough.
THEOREM NoGraphForgotten == Spec => []LoadedIsFile
<1>1. TypeOK /\ LoadInv /\ [Next]_vars => LoadInv'
  BY NextLoad
<1>2. LoadInv => LoadedIsFile
  BY DEF LoadInv
<1> QED BY <1>1, <1>2, InitLoad, TypeCorrect, PTL DEF Spec

-----------------------------------------------------------------------------
(* The search runs as told *)

LEMMA NextTold == TypeOK /\ RunsAsTold /\ [Next]_vars => RunsAsTold'
<1> SUFFICES ASSUME TypeOK, RunsAsTold, [Next]_vars PROVE RunsAsTold'
  OBVIOUS
<1>1. ASSUME NEW t \in Threads, GiveUp(t) \/ SetFlag(t) PROVE RunsAsTold'
  BY <1>1 DEF GiveUp, SetFlag, RunsAsTold
<1>2. ASSUME NEW t \in Threads, NEW short \in BOOLEAN,
             \/ RecvMode(t, short) \/ RecvTarget(t, short)
             \/ OpenOldGraph(t) \/ RecvUnit(t) \/ CloseOldGraph(t)
      PROVE  RunsAsTold'
  <2>1. at'[t] \in {"target", "open", "file", "flag"}
    BY <1>2 DEF RecvMode, RecvTarget, OpenOldGraph, RecvUnit, CloseOldGraph, TypeOK
  <2> QED BY <2>1 DEF RunsAsTold
<1>3. ASSUME NEW f \in Graphs, NEW m \in Modes, ServerReplies(f, m) PROVE RunsAsTold'
  BY <1>3 DEF ServerReplies, RunsAsTold, Modes
<1>4. ASSUME NEW f \in Graphs, ServerBroadcasts(f) PROVE RunsAsTold'
  BY <1>4 DEF ServerBroadcasts, shared, receiving, RunsAsTold
<1>5. CASE ListenerAccepts
  <2>1. ASSUME \A t \in Threads : at'[t] \in {"none", "mode"}
        PROVE  \A t \in Threads : at[t] \in {"none", "mode"}
    BY <1>5, <2>1 DEF ListenerAccepts, TypeOK
  <2> QED BY <1>5, <2>1 DEF ListenerAccepts, shared, RunsAsTold
<1>6. CASE Choose
  BY <1>6 DEF Choose, shared, RunsAsTold
<1>7. CASE \/ Connect \/ Refused \/ Poll \/ LoadFirst \/ LoadRest \/ SearchGarbage
           \/ DFsearch \/ BFsearch \/ Test \/ Restart
  BY <1>7 DEF Connect, Refused, Poll, LoadFirst, LoadRest, SearchGarbage, DFsearch,
              BFsearch, Test, Restart, RunsAsTold, Modes
<1>8. CASE Sleep \/ UNCHANGED vars
  BY <1>8 DEF Sleep, vars, shared, receiving, RunsAsTold
<1> QED BY <1>1, <1>2, <1>3, <1>4, <1>5, <1>6, <1>7, <1>8 DEF Next, Receive

\* An undisturbed search is of the kind the last header asked for
\* (client_transfer.c:97-104, client.c:43).
THEOREM SearchesAsTold == Spec => []RunsAsTold
<1>1. Init => RunsAsTold
  BY DEF Init, RunsAsTold, Modes
<1>2. TypeOK /\ RunsAsTold /\ [Next]_vars => RunsAsTold'
  BY NextTold
<1> QED BY <1>1, <1>2, TypeCorrect, PTL DEF Spec
=============================================================================
