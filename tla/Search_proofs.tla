---------------------------- MODULE Search_proofs ----------------------------
(***************************************************************************)
(* The caches, the recursion, the flag and the file of a search, for every *)
(* size of the graphs and of the neighbourhoods.                           *)
(***************************************************************************)
EXTENDS SearchProps, GraphFile_proofs, SequenceTheorems, TLAPS

HasItsElements(s) == Len(s) \in Nat /\ s = [n \in 1 .. Len(s) |-> s[n]]

\* Appending, and dropping the first or the last element.
LEMMA SeqFacts ==
    ASSUME NEW s, HasItsElements(s)
    PROVE  /\ \A x : /\ HasItsElements(Append(s, x)) /\ Len(Append(s, x)) = Len(s) + 1
                     /\ Append(s, x)[Len(s) + 1] = x
                     /\ \A n \in 1 .. Len(s) : Append(s, x)[n] = s[n]
           /\ s # << >> => /\ Len(s) > 0
                           /\ HasItsElements(Tail(s)) /\ Len(Tail(s)) = Len(s) - 1
                           /\ HasItsElements(Front(s)) /\ Len(Front(s)) = Len(s) - 1
                           /\ \A n \in 1 .. Len(s) - 1 : Front(s)[n] = s[n]
<1> DEFINE S == {s[n] : n \in 1 .. Len(s)}
<1>1. s \in Seq(S)
  BY DEF HasItsElements
<1>2. ASSUME NEW T, NEW t \in Seq(T) PROVE HasItsElements(t)
  BY DEF HasItsElements
<1>3. ASSUME NEW x
      PROVE  /\ HasItsElements(Append(s, x)) /\ Len(Append(s, x)) = Len(s) + 1
             /\ Append(s, x)[Len(s) + 1] = x
             /\ \A n \in 1 .. Len(s) : Append(s, x)[n] = s[n]
  <2> DEFINE T == S \union {x}
  <2>1. s \in Seq(T) /\ x \in T
    BY <1>1
  <2> HIDE DEF T
  <2>2. Append(s, x) \in Seq(T)
    BY <2>1
  <2>3. HasItsElements(Append(s, x))
    BY <1>2, <2>2
  <2> QED
    BY <2>1, <2>3
<1>4. ASSUME s # << >>
      PROVE  /\ Len(s) > 0
             /\ HasItsElements(Tail(s)) /\ Len(Tail(s)) = Len(s) - 1
             /\ HasItsElements(Front(s)) /\ Len(Front(s)) = Len(s) - 1
             /\ \A n \in 1 .. Len(s) - 1 : Front(s)[n] = s[n]
  <2> HIDE DEF S
  <2>1. Len(s) > 0 /\ Tail(s) \in Seq(S) /\ Len(Tail(s)) = Len(s) - 1
    BY <1>1, <1>4
  <2>2. Front(s) \in Seq(S) /\ Len(Front(s)) = Len(s) - 1
    <3>0. Len(s) - 1 \in Nat
      BY <1>1, <2>1
    <3>1. PICK l \in Int : l = Len(s) - 1 /\ l \in Nat
      BY <3>0
    <3>2. \A n \in 1 .. l : s[n] \in S
      BY <1>1, <3>1
    <3>3. SubSeq(s, 1, l) \in Seq(S) /\ Len(SubSeq(s, 1, l)) = IF 1 <= l THEN l - 1 + 1 ELSE 0
      BY <3>2, SubSeqProperties
    <3> QED
      BY <3>1, <3>3 DEF Front
  <2>3. \A n \in 1 .. Len(s) - 1 : Front(s)[n] = s[n]
    BY <1>1, <1>4 DEF Front
  <2> QED
    BY <1>2, <2>1, <2>2, <2>3
<1> QED
  BY <1>3, <1>4

-----------------------------------------------------------------------------
(* The graph and its caches, the calls and the flag *)

IsCall(c) == c = [edge |-> c.edge, level |-> c.level, near |-> c.near, k |-> c.k]

\* Each call of the recursion is one level below its caller, and only calls above
\* level 0 have calls below them.
CallsInv ==
    /\ HasItsElements(stack) /\ Len(stack) <= RECURSION_DEPTH + 1
    /\ \A k \in 1 .. Len(stack) :
          IsCall(stack[k]) /\ stack[k].level = RECURSION_DEPTH + 1 - k
    /\ pc \in {"enter", "judge", "spread", "descend"} => stack # << >>
    /\ pc \in {"descend", "return"} => Len(stack) <= RECURSION_DEPTH

TabooInv == HasItsElements(taboo) /\ Len(taboo) <= TABOOSIZE

TypesInv ==
    /\ pc \in PCs /\ mode \in {"BF", "DF"}
    /\ best_ever \in Nat /\ goal \in Nat /\ recv_flag \in BOOLEAN

\* After an upload with the flag up, no place is reached where another one starts.
FlagInv ==
    /\ late \in {0, 1}
    /\ late = 1 => \/ pc = "wait"
                   \/ /\ recv_flag
                      /\ pc \in {"scan", "lucky", "seek", "enter", "spread", "descend",
                                "return"}

CachesInv ==
    pc \in {"clean", "keep", "offer", "send", "scan", "judge", "spread"} => cached = g

SearchInv == CallsInv /\ TabooInv /\ TypesInv /\ FlagInv /\ CachesInv

LEMMA SearchInit == Init => SearchInv
<1> USE SearchAssumption
<1> SUFFICES ASSUME Init PROVE SearchInv
  OBVIOUS
<1>1. HasItsElements(<< >>) /\ Len(<< >>) = 0
  BY DEF HasItsElements
<1>2. CallsInv
  BY <1>1 DEF Init, CallsInv
<1>3. TabooInv
  BY <1>1 DEF Init, TabooInv
<1>4. TypesInv /\ FlagInv /\ CachesInv
  BY DEF Init, TypesInv, FlagInv, CachesInv, PCs
<1> QED
  BY <1>2, <1>3, <1>4 DEF SearchInv

LEMMA TypesStep == TypesInv /\ [Next]_vars => TypesInv'
<1> USE SearchAssumption DEF TypesInv, PCs, calls, shared, round
<1> SUFFICES ASSUME TypesInv, [Next]_vars PROVE TypesInv'
  OBVIOUS
<1>1. CASE Start
  BY <1>1 DEF Start
<1>2. CASE Begin \/ Clean \/ KeepClean \/ Seek \/ KeepLucky \/ End
  BY <1>2 DEF Begin, Clean, KeepClean, Seek, KeepLucky, End, Keep
<1>3. CASE Offer \/ Send \/ Scan
  BY <1>3 DEF Offer, Offered, Send, Scan
<1>4. CASE Enter \/ Judge \/ Spread \/ Descend \/ Return
  BY <1>4 DEF Enter, Judge, Offered, Spread, Descend, Return, Leave
<1>5. CASE Listen
  <2>1. recv_flag' \in BOOLEAN
    BY <1>5 DEF Listen
  <2>2. best_ever' \in Nat
    BY <1>5 DEF Listen
  <2> QED
    BY <1>5, <2>1, <2>2 DEF Listen
<1>6. CASE Restart
  BY <1>6 DEF Restart
<1>7. CASE UNCHANGED vars
  BY <1>7 DEF vars
<1> QED
  BY <1>1, <1>2, <1>3, <1>4, <1>5, <1>6, <1>7 DEF Next, Step

LEMMA FlagStep == TypesInv /\ FlagInv /\ [Next]_vars => FlagInv'
<1> USE DEF FlagInv, TypesInv, calls, shared, round
<1> SUFFICES ASSUME TypesInv, FlagInv, [Next]_vars PROVE FlagInv'
  OBVIOUS
<1>1. CASE Start \/ Begin \/ Clean \/ KeepClean
  BY <1>1 DEF Start, Begin, Clean, KeepClean
<1>2. CASE Seek \/ KeepLucky \/ End \/ Scan
  BY <1>2 DEF Seek, SeekRuns, KeepLucky, End, Scan
<1>3. CASE Offer \/ Send
  BY <1>3 DEF Offer, Offered, Send
<1>4. CASE Enter \/ Judge \/ Spread \/ Descend \/ Return
  BY <1>4 DEF Enter, Judge, Offered, Spread, Descend, Return, Leave
<1>5. CASE Listen \/ Restart \/ UNCHANGED vars
  BY <1>5 DEF Listen, Restart, vars
<1> QED
  BY <1>1, <1>2, <1>3, <1>4, <1>5 DEF Next, Step

LEMMA CachesStep == CachesInv /\ [Next]_vars => CachesInv'
<1> USE DEF CachesInv, calls, shared, round
<1> SUFFICES ASSUME CachesInv, [Next]_vars PROVE CachesInv'
  OBVIOUS
<1>1. CASE Start \/ Begin \/ Clean \/ KeepClean
  BY <1>1 DEF Start, Begin, Clean, KeepClean
<1>2. CASE Seek \/ KeepLucky \/ End \/ Scan
  BY <1>2 DEF Seek, SeekCaches, KeepLucky, End, Scan
<1>3. CASE Offer \/ Send
  BY <1>3 DEF Offer, Offered, Send
<1>4. CASE Enter \/ Judge \/ Spread \/ Descend \/ Return
  BY <1>4 DEF Enter, Judge, Offered, Spread, Descend, Return, Leave
<1>5. CASE Listen \/ Restart \/ UNCHANGED vars
  BY <1>5 DEF Listen, Restart, vars
<1> QED
  BY <1>1, <1>2, <1>3, <1>4, <1>5 DEF Next, Step

LEMMA TabooStep == TabooInv /\ [Next]_vars => TabooInv'
<1> USE SearchAssumption DEF calls, shared, round
<1> SUFFICES ASSUME TabooInv, [Next]_vars PROVE TabooInv'
  OBVIOUS
<1>1. ASSUME NEW x, taboo' = Inserted(x) PROVE TabooInv'
  <2>1. CASE Len(taboo) < TABOOSIZE
    BY <1>1, <2>1, SeqFacts DEF Inserted, TabooInv, HasItsElements
  <2>2. CASE ~(Len(taboo) < TABOOSIZE)
    <3>1. Len(taboo) = TABOOSIZE /\ taboo # << >>
      BY <2>2 DEF TabooInv, HasItsElements
    <3>2. HasItsElements(Tail(taboo)) /\ Len(Tail(taboo)) = TABOOSIZE - 1
      BY <3>1, SeqFacts DEF TabooInv
    <3>3. HasItsElements(Append(Tail(taboo), x)) /\ Len(Append(Tail(taboo), x)) = TABOOSIZE
      BY <3>2, SeqFacts
    <3> QED
      BY <1>1, <2>2, <3>3 DEF Inserted, TabooInv
  <2> QED
    BY <2>1, <2>2
<1>2. ASSUME taboo' = << >> PROVE TabooInv'
  BY <1>2 DEF TabooInv, HasItsElements
<1>3. ASSUME UNCHANGED taboo PROVE TabooInv'
  BY <1>3 DEF TabooInv
<1>4. CASE KeepClean \/ KeepLucky \/ Judge
  BY <1>1, <1>3, <1>4 DEF KeepClean, KeepLucky, Judge, Keep
<1>5. CASE End \/ Restart
  BY <1>2, <1>5 DEF End, Restart
<1>6. CASE ~(KeepClean \/ KeepLucky \/ Judge \/ End \/ Restart)
  BY <1>3, <1>6 DEF Next, Step, vars, Start, Begin, Clean, Seek, Offer, Send, Scan, Enter,
                    Spread, Descend, Return, Listen
<1> QED
  BY <1>4, <1>5, <1>6

\* A call that returns leaves its caller on the stack.
LEMMA LeaveKeeps ==
    ASSUME CallsInv, stack # << >>, NEW q, Leave(q)
    PROVE  CallsInv'
<1> USE SearchAssumption
<1>1. Len(stack) \in Nat /\ Len(stack) > 0 /\ Len(stack) <= RECURSION_DEPTH + 1
  BY SeqFacts DEF CallsInv, HasItsElements
<1>2. /\ HasItsElements(stack') /\ Len(stack') = Len(stack) - 1
      /\ \A n \in 1 .. Len(stack) - 1 : stack'[n] = stack[n]
  BY SeqFacts DEF CallsInv, Leave
<1>3. Len(stack') <= RECURSION_DEPTH /\ pc' = "return"
  BY <1>1, <1>2 DEF Leave
<1>4. \A k \in 1 .. Len(stack') :
         IsCall(stack'[k]) /\ stack'[k].level = RECURSION_DEPTH + 1 - k
  BY <1>1, <1>2 DEF CallsInv
<1> QED
  BY <1>1, <1>2, <1>3, <1>4 DEF CallsInv

\* Another value of near or k leaves a call with its level.
LEMMA CallUpdate ==
    ASSUME NEW c, IsCall(c), NEW v
    PROVE  /\ IsCall([c EXCEPT !.near = v]) /\ [c EXCEPT !.near = v].level = c.level
           /\ IsCall([c EXCEPT !.k = v]) /\ [c EXCEPT !.k = v].level = c.level
<1>1. PICK e, l, m, n : c = [edge |-> e, level |-> l, near |-> m, k |-> n]
  BY DEF IsCall
<1>2. [c EXCEPT !.near = v] = [edge |-> e, level |-> l, near |-> v, k |-> n]
  BY <1>1
<1>3. [c EXCEPT !.k = v] = [edge |-> e, level |-> l, near |-> m, k |-> v]
  BY <1>1
<1> QED
  BY <1>1, <1>2, <1>3 DEF IsCall

\* The levels of the stack stay what they are.
LEMMA UpdateKeeps ==
    ASSUME CallsInv, stack # << >>, NEW v,
           \/ stack' = [stack EXCEPT ![Len(stack)].near = v]
           \/ stack' = [stack EXCEPT ![Len(stack)].k = v]
    PROVE  /\ HasItsElements(stack') /\ Len(stack') = Len(stack)
           /\ \A k \in 1 .. Len(stack') :
                 IsCall(stack'[k]) /\ stack'[k].level = RECURSION_DEPTH + 1 - k
<1>1. Len(stack) \in Nat /\ Len(stack) > 0
  BY SeqFacts DEF CallsInv, HasItsElements
<1>a. IsCall(stack[Len(stack)])
  BY <1>1 DEF CallsInv
<1>2. PICK c : /\ stack' = [stack EXCEPT ![Len(stack)] = c]
               /\ IsCall(c) /\ c.level = stack[Len(stack)].level
  <2>1. CASE stack' = [stack EXCEPT ![Len(stack)].near = v]
    <3>1. IsCall([stack[Len(stack)] EXCEPT !.near = v])
          /\ [stack[Len(stack)] EXCEPT !.near = v].level = stack[Len(stack)].level
      BY <1>a, CallUpdate
    <3> QED
      BY <2>1, <3>1
  <2>2. CASE stack' = [stack EXCEPT ![Len(stack)].k = v]
    <3>1. IsCall([stack[Len(stack)] EXCEPT !.k = v])
          /\ [stack[Len(stack)] EXCEPT !.k = v].level = stack[Len(stack)].level
      BY <1>a, CallUpdate
    <3> QED
      BY <2>2, <3>1
  <2> QED
    BY <2>1, <2>2
<1>3. stack' = [n \in 1 .. Len(stack) |-> IF n = Len(stack) THEN c ELSE stack[n]]
  BY <1>1, <1>2 DEF CallsInv, HasItsElements
<1>4. HasItsElements(stack') /\ Len(stack') = Len(stack)
  BY <1>1, <1>3 DEF HasItsElements
<1>5. \A k \in 1 .. Len(stack') :
         IsCall(stack'[k]) /\ stack'[k].level = RECURSION_DEPTH + 1 - k
  BY <1>1, <1>2, <1>3, <1>4 DEF CallsInv
<1> QED
  BY <1>4, <1>5

LEMMA CallsStep == CallsInv /\ [Next]_vars => CallsInv'
<1> USE SearchAssumption
<1> SUFFICES ASSUME CallsInv, [Next]_vars PROVE CallsInv'
  OBVIOUS
<1>1. Len(stack) \in Nat /\ (stack # << >> => Len(stack) > 0)
  BY SeqFacts DEF CallsInv, HasItsElements
<1>2. ASSUME NEW e, NEW l, l = RECURSION_DEPTH
      PROVE  LET s == <<Call(e, l)>> IN
             /\ HasItsElements(s) /\ Len(s) = 1 /\ IsCall(s[1]) /\ s[1].level = RECURSION_DEPTH
             /\ s # << >>
  BY <1>2 DEF Call, IsCall, HasItsElements
<1>3. CASE Start \/ Begin \/ Clean \/ KeepClean \/ Seek \/ KeepLucky \/ End
  BY <1>3 DEF Start, Begin, Clean, KeepClean, Seek, KeepLucky, End, calls, CallsInv
<1>4. CASE Offer \/ Send \/ Listen \/ UNCHANGED vars
  BY <1>4 DEF Offer, Offered, Send, Listen, vars, calls, CallsInv
<1>5. CASE Scan
  <2>1. CASE mode = "BF"
    <3>1. PICK e : stack' = <<Call(e, RECURSION_DEPTH)>> /\ pc' = "enter"
      BY <1>5, <2>1 DEF Scan
    <3>2. /\ HasItsElements(stack') /\ Len(stack') = 1 /\ stack' # << >>
          /\ IsCall(stack'[1]) /\ stack'[1].level = RECURSION_DEPTH
      BY <1>2, <3>1
    <3>3. \A k \in 1 .. Len(stack') :
             IsCall(stack'[k]) /\ stack'[k].level = RECURSION_DEPTH + 1 - k
      BY <3>2
    <3> QED
      BY <3>1, <3>2, <3>3 DEF CallsInv
  <2>2. CASE UNCHANGED stack /\ pc' = "lucky"
    BY <2>2 DEF CallsInv
  <2> QED
    BY <1>5, <2>1, <2>2 DEF Scan, calls
<1>6. CASE Enter
  <2>1. stack # << >>
    BY <1>6 DEF Enter, CallsInv
  <2>2. CASE UNCHANGED calls /\ pc' = "judge"
    BY <2>1, <2>2 DEF calls, CallsInv
  <2> QED
    BY <1>6, <2>1, <2>2, LeaveKeeps DEF Enter
<1>7. CASE Judge
  <2>1. stack # << >>
    BY <1>7 DEF Judge, CallsInv
  <2>2. CASE UNCHANGED calls /\ pc' \in {"spread", "send"}
    BY <2>1, <2>2 DEF calls, CallsInv
  <2> QED
    BY <1>7, <2>1, <2>2, LeaveKeeps DEF Judge, Offered
<1>8. CASE Spread
  <2>1. stack # << >>
    BY <1>8 DEF Spread, CallsInv
  <2>2. CASE /\ Top.level > 0 /\ pc' = "descend"
             /\ stack' = [stack EXCEPT ![Len(stack)].near = findNeighbours(Top.edge)]
    <3>1. /\ HasItsElements(stack') /\ Len(stack') = Len(stack)
          /\ \A k \in 1 .. Len(stack') :
                 IsCall(stack'[k]) /\ stack'[k].level = RECURSION_DEPTH + 1 - k
      BY <2>1, <2>2, UpdateKeeps
    <3>2. Len(stack') <= RECURSION_DEPTH /\ stack' # << >>
      BY <1>1, <2>1, <2>2, <3>1 DEF CallsInv, Top, Last
    <3> QED
      BY <2>2, <3>1, <3>2 DEF CallsInv
  <2> QED
    BY <1>8, <2>1, <2>2, LeaveKeeps DEF Spread
<1>9. CASE Descend
  <2>1. stack # << >> /\ Len(stack) <= RECURSION_DEPTH
    BY <1>9 DEF Descend, CallsInv
  <2>2. CASE /\ stack' = Append(stack, Call(Top.near[Top.k].edge, Below(Top.level)))
             /\ pc' = "enter"
    <3> DEFINE c == Call(Top.near[Top.k].edge, Below(Top.level))
    <3>0. stack[Len(stack)].level = RECURSION_DEPTH + 1 - Len(stack)
      BY <1>1, <2>1 DEF CallsInv
    <3>1. IsCall(c) /\ c.level = RECURSION_DEPTH - Len(stack)
      <4>1. Below(Top.level) = RECURSION_DEPTH - Len(stack)
        BY <1>1, <3>0 DEF Below, Top, Last
      <4>2. IsCall(c) /\ c.level = Below(Top.level)
        BY DEF Call, IsCall
      <4> QED
        BY <4>1, <4>2
    <3> HIDE DEF c
    <3>2. /\ HasItsElements(stack') /\ Len(stack') = Len(stack) + 1
          /\ stack'[Len(stack) + 1] = c
          /\ \A n \in 1 .. Len(stack) : stack'[n] = stack[n]
      BY <2>2, SeqFacts DEF CallsInv, c
    <3>3. \A k \in 1 .. Len(stack') :
             IsCall(stack'[k]) /\ stack'[k].level = RECURSION_DEPTH + 1 - k
      BY <1>1, <3>1, <3>2 DEF CallsInv
    <3>4. stack' # << >>
      BY <1>1, <3>2
    <3>5. Len(stack') <= RECURSION_DEPTH + 1
      BY <1>1, <2>1, <3>2
    <3> QED
      BY <2>2, <3>2, <3>3, <3>4, <3>5 DEF CallsInv
  <2> QED
    BY <1>9, <2>1, <2>2, LeaveKeeps DEF Descend
<1>10. CASE Return
  <2>1. stack # << >> /\ Len(stack) <= RECURSION_DEPTH
    BY <1>10 DEF Return, CallsInv
  <2>2. CASE /\ stack' = [stack EXCEPT ![Len(stack)].k = Following(@)]
             /\ pc' = "descend"
    <3>1. /\ HasItsElements(stack') /\ Len(stack') = Len(stack)
          /\ \A k \in 1 .. Len(stack') :
                 IsCall(stack'[k]) /\ stack'[k].level = RECURSION_DEPTH + 1 - k
      <4>1. PICK v : stack' = [stack EXCEPT ![Len(stack)].k = v]
        BY <2>2
      <4> QED
        BY <2>1, <4>1, UpdateKeeps
    <3>2. stack' # << >>
      BY <1>1, <2>1, <3>1
    <3> QED
      BY <2>1, <2>2, <3>1, <3>2 DEF CallsInv
  <2> QED
    BY <1>10, <2>1, <2>2, LeaveKeeps DEF Return
<1>11. CASE Restart
  <2>1. HasItsElements(<< >>) /\ Len(<< >>) = 0
    BY DEF HasItsElements
  <2> QED
    BY <1>11, <2>1 DEF Restart, CallsInv
<1> QED
  BY <1>3, <1>4, <1>5, <1>6, <1>7, <1>8, <1>9, <1>10, <1>11 DEF Next, Step

LEMMA SearchStep == SearchInv /\ [Next]_vars => SearchInv'
BY CallsStep, TabooStep, TypesStep, FlagStep, CachesStep DEF SearchInv

THEOREM SearchSafe == Spec => []SearchInv
BY SearchInit, SearchStep, PTL DEF Spec

\* For every size of graph and neighbourhood, and every depth: the recursion stays
\* within its levels and the window within its size (recursion.c:101-195,
\* fifo.c:450).
THEOREM SearchTypes == Spec => []TypeOK
<1>1. SearchInv => TypeOK
  <2> SUFFICES ASSUME SearchInv PROVE TypeOK
    OBVIOUS
  <2>1. \A k \in DOMAIN stack : stack[k].level = RECURSION_DEPTH + 1 - k
    <3>1. DOMAIN stack = 1 .. Len(stack)
      BY DEF SearchInv, CallsInv, HasItsElements
    <3> QED
      BY <3>1 DEF SearchInv, CallsInv
  <2> QED
    BY <2>1 DEF SearchInv, CallsInv, TabooInv, TypesInv, FlagInv, TypeOK
<1> QED
  BY <1>1, SearchSafe, PTL

\* Whatever a graph's cliques are: the caches in use are those of the graph
\* (search.c:57, 81, 118, 146, 153, recursion.c:109).
THEOREM SearchCaches == Spec => []CachesFresh
<1>1. SearchInv => CachesFresh
  BY DEF SearchInv, CachesInv, CachesFresh
<1> QED
  BY <1>1, SearchSafe, PTL

\* At most one graph is uploaded after the flag rose, however deep the recursion was
\* (search.c:72, 121, 152, recursion.c:106, 120).
THEOREM SearchFlag == Spec => []FlagStopsUploads
<1>1. SearchInv => FlagStopsUploads
  BY DEF SearchInv, FlagInv, FlagStopsUploads
<1> QED
  BY <1>1, SearchSafe, PTL

-----------------------------------------------------------------------------
(* The graph and its file *)

\* There is room in the matrix and in the buffer for one more node.
StartsFit ==
    \A s \in Starts : /\ IsGraph(s[2]) /\ s[2].n \in 1 .. MAXSIZE - 1
                      /\ 2 * s[2].n + 4 <= LineBuffer

CliquesAreCounted == \A h : IsGraph(h) => Cliques(h) \in Nat

GraphInv ==
    /\ pc = "begin" => \E s \in Starts : g = s[2]
    /\ pc \notin {"wait", "begin"} => IsGraph(g) /\ RowsFit(g)

FileInv ==
    /\ pc = "send" => new_graph = PrintGraph(g) /\ Cliques(g) <= goal
    /\ pc \in {"scan", "spread"} /\ Cliques(g) <= goal => compare_graph(g, new_graph)

LEMMA FlippedGraph ==
    ASSUME NEW h, IsGraph(h), RowsFit(h), NEW c
    PROVE  IsGraph(Flipped(h, c)) /\ RowsFit(Flipped(h, c))
<1>1. CASE c \notin Cells(h.n)
  BY <1>1 DEF Flipped
<1>2. CASE c \in Cells(h.n)
  <2>1. PICK n, at : h = [n |-> n, at |-> at] /\ n \in Nat /\ at \in [Cells(n) -> Color]
    BY DEF IsGraph
  <2>2. Flipped(h, c) = [n |-> n, at |-> [at EXCEPT ![c] = 1 - @]]
    BY <1>2, <2>1 DEF Flipped
  <2>3. [at EXCEPT ![c] = 1 - @] \in [Cells(n) -> Color]
    BY <1>2, <2>1 DEF Color
  <2> QED
    BY <2>1, <2>2, <2>3 DEF IsGraph, RowsFit
<1> QED
  BY <1>1, <1>2

LEMMA CopiedGraph ==
    ASSUME NEW h, IsGraph(h), NEW column \in [0 .. h.n -> Color]
    PROVE  IsGraph(CopyGraph(h, column)) /\ CopyGraph(h, column).n = h.n + 1
<1> DEFINE n == h.n
           at == [c \in Cells(n + 1) |-> IF c[2] = n THEN column[c[1]]
                                       ELSE IF c[1] = n THEN column[c[2]]
                                       ELSE h.at[c]]
<1>1. n \in Nat /\ h.at \in [Cells(n) -> Color]
  BY DEF IsGraph
<1>2. CopyGraph(h, column) = [n |-> n + 1, at |-> at]
  BY DEF CopyGraph
<1> HIDE DEF n
<1>3. \A c \in Cells(n + 1) :
         /\ c[1] \in 0 .. n /\ c[2] \in 0 .. n
         /\ c[1] # n /\ c[2] # n => c \in Cells(n)
  BY <1>1 DEF Cells
<1>4. at \in [Cells(n + 1) -> Color]
  BY <1>1, <1>3 DEF n
<1>5. n + 1 \in Nat
  BY <1>1
<1> HIDE DEF at
<1> QED
  BY <1>2, <1>4, <1>5 DEF IsGraph, n

LEMMA GraphStep == StartsFit /\ GraphInv /\ [Next]_vars => GraphInv'
<1> USE DEF calls, shared, round
<1> SUFFICES ASSUME StartsFit, GraphInv, [Next]_vars PROVE GraphInv'
  OBVIOUS
<1>1. ASSUME pc \notin {"wait", "begin"}, pc' \notin {"begin"},
             \/ UNCHANGED g
             \/ \E e : g' = Flipped(g, e)
      PROVE  GraphInv'
  BY <1>1, FlippedGraph DEF GraphInv
<1>2. CASE Start
  BY <1>2 DEF Start, GraphInv
<1>3. CASE Begin
  <2>1. PICK s \in Starts : g = s[2]
    BY <1>3 DEF Begin, GraphInv
  <2>2. IsGraph(g) /\ g.n \in 1 .. MAXSIZE - 1 /\ 2 * g.n + 4 <= LineBuffer
    BY <2>1 DEF StartsFit
  <2>3. MAXSIZE \in Nat /\ LineBuffer \in Nat
    BY FileAssumption
  <2>4. RowsFit(g)
    BY <2>2, <2>3 DEF RowsFit
  <2>5. ASSUME NEW column \in [0 .. g.n -> Color], g' = CopyGraph(g, column)
        PROVE  IsGraph(g') /\ RowsFit(g')
    <3>1. IsGraph(g') /\ g'.n = g.n + 1
      BY <2>2, <2>5, CopiedGraph
    <3> QED
      BY <2>2, <2>3, <3>1 DEF RowsFit
  <2>6. IsGraph(g') /\ RowsFit(g')
    BY <1>3, <2>2, <2>4, <2>5 DEF Begin
  <2> QED
    BY <1>3, <2>6 DEF Begin, GraphInv
<1>4. CASE Clean \/ Seek \/ Offer \/ Send \/ Scan
  BY <1>1, <1>4 DEF Clean, Seek, Offer, Offered, Send, Scan
<1>5. CASE KeepClean \/ KeepLucky
  BY <1>1, <1>5 DEF KeepClean, KeepLucky, Keep
<1>6. CASE Enter \/ Judge
  BY <1>1, <1>6 DEF Enter, Judge, Offered, Leave, Restored, Pruned
<1>7. CASE Spread \/ Descend \/ Return
  BY <1>1, <1>7 DEF Spread, Descend, Return, Leave, Restored
<1>8. CASE End \/ Restart
  BY <1>8 DEF End, Restart, GraphInv
<1>9. CASE Listen \/ UNCHANGED vars
  BY <1>9 DEF Listen, vars, GraphInv
<1> QED
  BY <1>2, <1>3, <1>4, <1>5, <1>6, <1>7, <1>8, <1>9 DEF Next, Step

\* A graph resembles itself.
LEMMA OwnFile ==
    ASSUME NEW h, IsGraph(h), RowsFit(h)
    PROVE  compare_graph(h, PrintGraph(h))
<1>1. Differences(h, h) = {}
  BY DEF Differences
<1>2. Near(h, h)
  BY <1>1, FS_EmptySet DEF Near
<1> QED
  BY <1>2, PrintedIsRead DEF compare_graph

LEMMA FileStep ==
    /\ StartsFit /\ CliquesAreCounted /\ GraphInv /\ TypesInv /\ CachesInv /\ FileInv
    /\ [Next]_vars
    => FileInv'
<1> USE DEF calls, shared, round
<1> SUFFICES ASSUME StartsFit, CliquesAreCounted, GraphInv, TypesInv, CachesInv, FileInv,
                    [Next]_vars
             PROVE  FileInv'
  OBVIOUS
<1>1. CASE Start \/ Begin \/ Clean \/ KeepClean \/ Seek \/ KeepLucky \/ End
  BY <1>1 DEF Start, Begin, Clean, KeepClean, Seek, KeepLucky, End, FileInv
<1>2. CASE Scan \/ Enter \/ Spread \/ Descend \/ Return \/ Restart
  BY <1>2 DEF Scan, Enter, Spread, Descend, Return, Leave, Restart, FileInv
<1>3. CASE Listen \/ UNCHANGED vars
  BY <1>3 DEF Listen, vars, FileInv
<1>4. CASE Offer
  BY <1>4 DEF Offer, Offered, Meets, CachesInv, FileInv
<1>5. CASE Judge
  <2>1. Cliques(g) \in Nat /\ goal \in Nat /\ cached = g
    BY <1>5 DEF Judge, GraphInv, CliquesAreCounted, TypesInv, CachesInv
  <2> QED
    BY <1>5, <2>1 DEF Judge, Offered, Meets, Leave, FileInv
<1>6. CASE Send
  <2>1. new_graph = PrintGraph(g) /\ IsGraph(g) /\ RowsFit(g)
    BY <1>6 DEF Send, FileInv, GraphInv
  <2>2. compare_graph(g, new_graph)
    BY <2>1, OwnFile
  <2> QED
    BY <1>6, <2>2 DEF Send, FileInv
<1> QED
  BY <1>1, <1>2, <1>3, <1>4, <1>5, <1>6 DEF Next, Step

LEMMA FileSafe ==
    ASSUME StartsFit, CliquesAreCounted
    PROVE  Spec => [](GraphInv /\ FileInv)
<1>1. Init => GraphInv /\ FileInv
  BY DEF Init, GraphInv, FileInv
<1>2. GraphInv /\ FileInv /\ SearchInv /\ [Next]_vars => (GraphInv /\ FileInv)'
  BY GraphStep, FileStep DEF SearchInv
<1> QED
  BY <1>1, <1>2, SearchSafe, PTL DEF Spec

\* For every graph with room for a node more: the file of an upload is read as the
\* graph (graph.c:30-156).
THEOREM SearchReadsBack ==
    ASSUME StartsFit, CliquesAreCounted
    PROVE  Spec => []ReadsBack
<1>1. GraphInv /\ FileInv => ReadsBack
  BY PrintedIsRead DEF GraphInv, FileInv, ReadsBack
<1> QED
  BY <1>1, FileSafe, PTL

\* ... and meets the target it was tested against (search.c:87-90, 156-160,
\* recursion.c:117-128).
THEOREM SearchUploads ==
    ASSUME StartsFit, CliquesAreCounted
    PROVE  Spec => []UploadsMeetTarget
<1>1. GraphInv /\ FileInv => UploadsMeetTarget
  BY PrintedIsRead DEF GraphInv, FileInv, UploadsMeetTarget
<1> QED
  BY <1>1, FileSafe, PTL

\* A graph that met the target and was not uploaded resembles the one in new_graph
\* (search.c:199-218).
THEOREM SearchSkips ==
    ASSUME StartsFit, CliquesAreCounted
    PROVE  Spec => []NoneIsSkipped
<1>1. FileInv => NoneIsSkipped
  BY DEF FileInv, NoneIsSkipped, compare_graph
<1> QED
  BY <1>1, FileSafe, PTL

-----------------------------------------------------------------------------
(* What the recursion undoes *)

LEMMA FlipTwice ==
    ASSUME NEW h, IsGraph(h), NEW c
    PROVE  Flipped(Flipped(h, c), c) = h
<1>1. CASE c \notin Cells(h.n)
  BY <1>1 DEF Flipped
<1>2. CASE c \in Cells(h.n)
  <2>1. PICK n, at : h = [n |-> n, at |-> at] /\ n \in Nat /\ at \in [Cells(n) -> Color]
    BY DEF IsGraph
  <2>2. Flipped(h, c) = [n |-> n, at |-> [at EXCEPT ![c] = 1 - @]]
    BY <1>2, <2>1 DEF Flipped
  <2>3. Flipped(Flipped(h, c), c)
            = [n |-> n, at |-> [[at EXCEPT ![c] = 1 - @] EXCEPT ![c] = 1 - @]]
    BY <1>2, <2>1, <2>2 DEF Flipped
  <2>4. [[at EXCEPT ![c] = 1 - @] EXCEPT ![c] = 1 - @] = at
    <3> DEFINE once == [at EXCEPT ![c] = 1 - @]
               twice == [once EXCEPT ![c] = 1 - @]
    <3>1. once[c] = 1 - at[c] /\ at[c] \in {0, 1}
      BY <1>2, <2>1 DEF Color
    <3>2. twice[c] = at[c]
      BY <1>2, <2>1, <3>1
    <3>3. \A d \in Cells(n) : twice[d] = at[d]
      BY <2>1, <3>2
    <3>4. twice = [d \in Cells(n) |-> twice[d]] /\ at = [d \in Cells(n) |-> at[d]]
      BY <2>1
    <3> QED
      BY <3>3, <3>4
  <2> QED
    BY <2>1, <2>3, <2>4
<1> QED
  BY <1>1, <1>2

\* The neighbours a search may find, with their counts.
Counted(h) ==
    {[edge |-> InRows(h.n)[k], count |-> Cliques(Flipped(h, InRows(h.n)[k]))] :
        k \in 1 .. h.n * h.n}

LEMMA NearerCounted ==
    ASSUME cached = g, NEW near \in Seq(Counted(g)), NEW k \in 1 .. g.n * g.n
    PROVE  Nearer(near, InRows(g.n)[k]) \in Seq(Counted(g))
<1> DEFINE e == InRows(g.n)[k]
           S == Counted(g)
           x == [edge |-> e, count |-> UseCache(e, Worst(near))]
           before == {m \in DOMAIN near : near[m].count <= x.count}
           place == Cardinality(before) + 1
           longer == InsertAt(near, place, x)
<1>1. x.count # -1 => x \in S
  BY DEF UseCache, Counted
<1>2. Nearer(near, e) \in {near, longer, Front(longer)}
  BY DEF Nearer
<1>3. x.count = -1 => Nearer(near, e) = near
  BY DEF Nearer
<1> HIDE DEF S, x
<1>4. Len(near) \in Nat /\ DOMAIN near = 1 .. Len(near) /\ near \in Seq(S)
  BY DEF S
<1>5. place \in 1 .. Len(near) + 1
  <2>1. IsFiniteSet(1 .. Len(near)) /\ Cardinality(1 .. Len(near)) = Len(near)
    <3>1. PICK l \in Nat : l = Len(near)
      BY <1>4
    <3>2. 1 \in Int /\ l \in Int /\ (IF 1 > l THEN 0 ELSE l - 1 + 1) = l
      OBVIOUS
    <3> QED
      BY <3>1, <3>2, FS_Interval
  <2>2. before \in SUBSET (1 .. Len(near))
    BY <1>4
  <2> HIDE DEF before
  <2>3. IsFiniteSet(before) /\ Cardinality(before) <= Len(near)
    BY <2>1, <2>2, FS_Subset
  <2>4. Cardinality(before) \in Nat
    BY <2>3, FS_CardinalityType
  <2> QED
    BY <1>4, <2>3, <2>4
<1> HIDE DEF place
<1>6. ASSUME x \in S PROVE longer \in Seq(S) /\ Front(longer) \in Seq(S)
  <2>1. SubSeq(near, 1, place - 1) \in Seq(S)
    <3>1. 1 \in Int /\ place - 1 \in Int /\ \A m \in 1 .. place - 1 : near[m] \in S
      BY <1>4, <1>5
    <3> QED
      BY <3>1, SubSeqProperties
  <2>2. SubSeq(near, place, Len(near)) \in Seq(S)
    <3>1. place \in Int /\ Len(near) \in Int /\ \A m \in place .. Len(near) : near[m] \in S
      BY <1>4, <1>5
    <3> QED
      BY <3>1, SubSeqProperties
  <2>3. <<x>> \in Seq(S)
    BY <1>6
  <2>4. longer \in Seq(S)
    BY <2>1, <2>2, <2>3 DEF InsertAt
  <2> HIDE DEF longer
  <2>5. Front(longer) \in Seq(S)
    <3>1. Len(longer) \in Nat
      BY <2>4
    <3>2. PICK l \in Int : l = Len(longer) - 1
      BY <3>1
    <3>3. 1 \in Int /\ \A m \in 1 .. l : longer[m] \in S
      BY <2>4, <3>1, <3>2
    <3> QED
      BY <3>2, <3>3, SubSeqProperties DEF Front
  <2> QED
    BY <2>4, <2>5
<1> HIDE DEF longer, e
<1>7. Nearer(near, e) \in Seq(S)
  BY <1>1, <1>2, <1>3, <1>4, <1>6
<1> QED
  BY <1>7 DEF S, e

\* Every neighbour findNeighbours returns has the count of the graph with its edge
\* flipped.  That the turns of its loops define a function is shown for all their
\* prefixes: the shortest one that has none would extend a shorter one that has.
LEMMA NeighboursCounted ==
    ASSUME cached = g, g.n \in Nat, NEW e
    PROVE  findNeighbours(e) \in Seq(Counted(g))
<1> DEFINE N == g.n * g.n
           Turn(near, k) == LET c == InRows(g.n)[k] IN
                            IF Follows(c, e) THEN Nearer(near, c) ELSE near
           Loop(f, m) == f = [k \in 0 .. m |-> IF k = 0 THEN << >> ELSE Turn(f[k - 1], k)]
           endless == {m \in 0 .. N : ~\E f : Loop(f, m)}
           near == CHOOSE f : Loop(f, N)
           wrong == {m \in 0 .. N : near[m] \notin Seq(Counted(g))}
<1>1. N \in Nat
  OBVIOUS
<1>2. findNeighbours(e) = near[N]
  BY DEF findNeighbours
<1> HIDE DEF N
<1>3. ASSUME NEW W \in SUBSET (0 .. N), W # {}
      PROVE  \E m \in W : \A l \in W : ~(l < m)
  <2>1. W \subseteq Nat
    BY <1>1
  <2>2. PICK m \in W : \A l \in W : ~(<<l, m>> \in OpToRel(<, Nat))
    BY <1>3, <2>1, NatLessThanWellFounded, WFMin
  <2> QED
    BY <2>1, <2>2 DEF OpToRel
<1>4. endless = {}
  <2> SUFFICES ASSUME endless # {} PROVE FALSE
    OBVIOUS
  <2>1. endless \in SUBSET (0 .. N)
    OBVIOUS
  <2>2. PICK m \in endless : \A l \in endless : ~(l < m)
    <3> HIDE DEF endless
    <3> QED
      BY <1>3, <2>1
  <2> HIDE DEF Turn
  <2>3. m # 0
    <3>1. Loop([k \in 0 .. 0 |-> << >>], 0)
      OBVIOUS
    <3> QED
      BY <3>1, <2>2
  <2>4. m \in Nat /\ m - 1 \in 0 .. N /\ m \in 0 .. N
    BY <1>1, <2>2, <2>3
  <2>5. PICK f : Loop(f, m - 1)
    BY <2>2, <2>4
  <2> DEFINE longer == [k \in 0 .. m |-> IF k < m THEN f[k] ELSE Turn(f[m - 1], m)]
  <2>6. \A k \in 0 .. m - 1 : f[k] = IF k = 0 THEN << >> ELSE Turn(f[k - 1], k)
    <3> HIDE DEF Turn
    <3> QED
      BY <2>5
  <2>7. \A k \in 0 .. m : longer[k] = IF k = 0 THEN << >> ELSE Turn(longer[k - 1], k)
    <3> SUFFICES ASSUME NEW k \in 0 .. m
                 PROVE  longer[k] = IF k = 0 THEN << >> ELSE Turn(longer[k - 1], k)
      OBVIOUS
    <3>1. CASE k = m
      BY <2>3, <2>4, <3>1
    <3>2. CASE k < m
      <4>1. k \in 0 .. m - 1 /\ (k # 0 => k - 1 \in 0 .. m /\ k - 1 < m)
        BY <2>4, <3>2
      <4> QED
        BY <2>6, <3>2, <4>1
    <3> QED
      BY <2>4, <3>1, <3>2
  <2>8. longer = [k \in 0 .. m |-> longer[k]]
    OBVIOUS
  <2> HIDE DEF longer
  <2>9. Loop(longer, m)
    BY <2>7, <2>8
  <2> QED
    BY <2>2, <2>9
<1>5. Loop(near, N)
  <2>1. \E f : Loop(f, N)
    BY <1>1, <1>4
  <2> HIDE DEF Loop
  <2> QED
    BY <2>1
<1> HIDE DEF near
<1>6. /\ near[0] = << >>
      /\ \A k \in 1 .. N : near[k] = Turn(near[k - 1], k)
  <2> HIDE DEF Turn
  <2>1. \A k \in 0 .. N : near[k] = IF k = 0 THEN << >> ELSE Turn(near[k - 1], k)
    BY <1>5
  <2>2. 0 \in 0 .. N /\ \A k \in 1 .. N : k \in 0 .. N /\ k # 0
    BY <1>1
  <2> HIDE DEF Loop
  <2> QED
    BY <2>1, <2>2
<1>7. wrong = {}
  <2> SUFFICES ASSUME wrong # {} PROVE FALSE
    OBVIOUS
  <2>1. PICK m \in wrong : \A l \in wrong : ~(l < m)
    <3>1. wrong \in SUBSET (0 .. N)
      OBVIOUS
    <3> HIDE DEF wrong
    <3> QED
      BY <1>3, <3>1
  <2>2. m # 0
    <3>1. << >> \in Seq(Counted(g))
      OBVIOUS
    <3> QED
      BY <1>6, <2>1, <3>1
  <2>3. m \in 1 .. N /\ m - 1 \in 0 .. N /\ m - 1 < m
    BY <1>1, <2>1, <2>2
  <2>4. near[m - 1] \in Seq(Counted(g))
    BY <2>1, <2>3
  <2>5. near[m] = Turn(near[m - 1], m)
    BY <1>6, <2>3
  <2>6. Nearer(near[m - 1], InRows(g.n)[m]) \in Seq(Counted(g))
    BY <2>3, <2>4, NearerCounted DEF N
  <2> QED
    BY <2>1, <2>4, <2>5, <2>6
<1>8. N \in 0 .. N
  BY <1>1
<1> QED
  BY <1>2, <1>7, <1>8

Fits(h) == IsGraph(h) /\ RowsFit(h)

\* The neighbours' counts are those of the graph h.
CountsHold(near, h) == \A m \in DOMAIN near : near[m].count = Cliques(Flipped(h, near[m].edge))

\* The graph that the last call works on, or will once it has flipped its edge.
Inside == IF pc = "enter" THEN Flipped(g, Top.edge) ELSE g

\* h has the graph of each call: that of its caller with its own edge flipped.
Unwinds(h) ==
    /\ h[Len(stack)] = Inside
    /\ \A k \in 1 .. Len(stack) : Fits(h[k]) /\ CountsHold(stack[k].near, h[k])
    /\ \A k \in 2 .. Len(stack) : h[k - 1] = Flipped(h[k], stack[k].edge)

UndoInv ==
    /\ pc \notin {"enter", "judge", "spread", "descend", "return", "send", "exited"}
           => stack = << >>
    /\ stack # << >> => \E h : Unwinds(h)

\* A call that returns leaves the graph as its caller had it.
LEMMA LeaveUndoes ==
    ASSUME CallsInv, stack # << >>, NEW h, Unwinds(h), NEW q, Leave(q),
           g' = Flipped(Inside, Top.edge)
    PROVE  UndoInv'
<1>1. Len(stack) \in Nat /\ Len(stack) > 0
  BY SeqFacts DEF CallsInv, HasItsElements
<1>2. /\ HasItsElements(stack') /\ Len(stack') = Len(stack) - 1
      /\ \A n \in 1 .. Len(stack) - 1 : stack'[n] = stack[n]
  BY SeqFacts DEF CallsInv, Leave
<1>3. pc' = "return"
  BY DEF Leave
<1>4. ASSUME stack' # << >> PROVE Unwinds(h)'
  <2>1. Len(stack') > 0
    BY <1>2, <1>4, SeqFacts
  <2>2. h[Len(stack')] = Inside'
    <3>1. Len(stack) \in 2 .. Len(stack) /\ Len(stack') = Len(stack) - 1
      BY <1>1, <1>2, <2>1
    <3>2. h[Len(stack) - 1] = Flipped(h[Len(stack)], stack[Len(stack)].edge)
      BY <3>1 DEF Unwinds
    <3>3. Inside' = g'
      BY <1>3 DEF Inside
    <3> QED
      BY <3>1, <3>2, <3>3 DEF Unwinds, Top, Last
  <2>3. \A k \in 1 .. Len(stack') : Fits(h[k]) /\ CountsHold(stack'[k].near, h[k])
    BY <1>1, <1>2 DEF Unwinds
  <2>4. \A k \in 2 .. Len(stack') : h[k - 1] = Flipped(h[k], stack'[k].edge)
    BY <1>1, <1>2 DEF Unwinds
  <2> QED
    BY <2>2, <2>3, <2>4 DEF Unwinds
<1> QED
  BY <1>3, <1>4 DEF UndoInv

\* A step within a call leaves the graphs as they are.
LEMMA StaysUndone ==
    ASSUME UndoInv, UNCHANGED stack, Inside' = Inside,
           pc' \notin {"enter", "judge", "spread", "descend", "return", "send", "exited"}
               => stack = << >>
    PROVE  UndoInv'
<1>1. ASSUME NEW h, Unwinds(h) PROVE Unwinds(h)'
  BY <1>1 DEF Unwinds
<1> QED
  BY <1>1 DEF UndoInv

\* So does a step that sets near or k of the last call.
LEMMA UpdateUndoes ==
    ASSUME CallsInv, stack # << >>, NEW h, Unwinds(h), NEW v,
           \/ stack' = [stack EXCEPT ![Len(stack)].near = v] /\ CountsHold(v, Inside)
           \/ stack' = [stack EXCEPT ![Len(stack)].k = v],
           pc # "enter", pc' = "descend", UNCHANGED g
    PROVE  UndoInv'
<1>1. Len(stack) \in Nat /\ Len(stack) > 0
  BY SeqFacts DEF CallsInv, HasItsElements
<1>2. Len(stack') = Len(stack)
  BY UpdateKeeps
<1>3. \A k \in 1 .. Len(stack) :
         /\ stack'[k].edge = stack[k].edge
         /\ CountsHold(stack'[k].near, h[k])
  <2> SUFFICES ASSUME NEW k \in 1 .. Len(stack)
               PROVE  stack'[k].edge = stack[k].edge /\ CountsHold(stack'[k].near, h[k])
    OBVIOUS
  <2>1. IsCall(stack[k]) /\ CountsHold(stack[k].near, h[k]) /\ h[Len(stack)] = Inside
    BY DEF CallsInv, Unwinds
  <2>2. k \in DOMAIN stack
    BY DEF CallsInv, HasItsElements
  <2>3. CASE k # Len(stack)
    <3>1. stack'[k] = stack[k]
      BY <2>2, <2>3
    <3> QED
      BY <2>1, <3>1
  <2>4. CASE k = Len(stack) /\ stack' = [stack EXCEPT ![Len(stack)].near = v]
                            /\ CountsHold(v, Inside)
    <3>1. PICK e, l, m, n : stack[k] = [edge |-> e, level |-> l, near |-> m, k |-> n]
      BY <2>1 DEF IsCall
    <3>2. stack'[k] = [edge |-> e, level |-> l, near |-> v, k |-> n]
      BY <2>2, <2>4, <3>1
    <3> QED
      BY <2>1, <2>4, <3>1, <3>2
  <2>5. CASE k = Len(stack) /\ stack' = [stack EXCEPT ![Len(stack)].k = v]
    <3>1. PICK e, l, m, n : stack[k] = [edge |-> e, level |-> l, near |-> m, k |-> n]
      BY <2>1 DEF IsCall
    <3>2. stack'[k] = [edge |-> e, level |-> l, near |-> m, k |-> v]
      BY <2>2, <2>5, <3>1
    <3> QED
      BY <2>1, <3>1, <3>2
  <2> QED
    BY <2>3, <2>4, <2>5
<1>4. h[Len(stack')] = Inside'
  BY <1>2 DEF Unwinds, Inside
<1>5. Unwinds(h)'
  BY <1>1, <1>2, <1>3, <1>4 DEF Unwinds
<1> QED
  BY <1>5 DEF UndoInv

\* Every step keeps the graphs of the calls.
LEMMA UndoStep ==
    /\ StartsFit /\ CallsInv /\ CachesInv /\ GraphInv /\ UndoInv
    /\ [Next]_vars
    => UndoInv'
<1> USE DEF calls, shared, round
<1> SUFFICES ASSUME StartsFit, CallsInv, CachesInv, GraphInv, UndoInv, [Next]_vars
             PROVE  UndoInv'
  OBVIOUS
<1>1. ASSUME pc \notin {"enter", "judge", "spread", "descend", "return", "send", "exited"},
             UNCHANGED stack
      PROVE  UndoInv'
  BY <1>1 DEF UndoInv
<1>2. ASSUME pc # "enter", pc' # "enter", UNCHANGED <<g, stack>>,
             pc' \notin {"judge", "spread", "descend", "return", "send", "exited"}
                 => stack = << >>
      PROVE  UndoInv'
  BY <1>2, StaysUndone DEF Inside
<1>3. ASSUME stack # << >>, pc # "wait", pc # "begin", NEW q, Leave(q),
             \/ pc = "enter" /\ UNCHANGED g
             \/ pc # "enter" /\ g' = Flipped(g, Top.edge)
      PROVE  UndoInv'
  <2>1. PICK h : Unwinds(h)
    BY <1>3 DEF UndoInv
  <2>2. IsGraph(g)
    BY <1>3 DEF GraphInv
  <2>3. g' = Flipped(Inside, Top.edge)
    BY <1>3, <2>2, FlipTwice DEF Inside
  <2> QED
    BY <1>3, <2>1, <2>3, LeaveUndoes
<1>4. CASE Start \/ Begin \/ Clean \/ KeepClean \/ Seek \/ Offer \/ KeepLucky
  BY <1>1, <1>4 DEF Start, Begin, Clean, KeepClean, Seek, Offer, KeepLucky
<1>5. CASE Send
  BY <1>2, <1>5 DEF Send
<1>6. CASE Scan
  <2>1. CASE mode = "DF"
    BY <1>1, <1>6, <2>1 DEF Scan
  <2>2. CASE mode = "BF"
    <3>1. PICK e : stack' = <<Call(e, RECURSION_DEPTH)>> /\ pc' = "enter" /\ UNCHANGED g
      BY <1>6, <2>2 DEF Scan
    <3>a. PICK h : h = [k \in {1} |-> Flipped(g, e)]
      OBVIOUS
    <3>2. Len(stack') = 1 /\ stack'[1].near = << >> /\ Top'.edge = e
      BY <3>1 DEF Call, Top, Last
    <3>3. Fits(Flipped(g, e))
      BY <1>6, FlippedGraph DEF Scan, GraphInv, Fits
    <3>4. h[1] = Flipped(g, e) /\ Inside' = Flipped(g, e)
      BY <3>a, <3>1, <3>2 DEF Inside
    <3>5. CountsHold(<< >>, h[1])
      BY DEF CountsHold
    <3>6. Unwinds(h)'
      BY <3>2, <3>3, <3>4, <3>5 DEF Unwinds
    <3> QED
      BY <3>1, <3>6 DEF UndoInv
  <2> QED
    BY <1>6, <2>1, <2>2 DEF Scan
<1>7. CASE End
  <2>1. stack = << >> /\ UNCHANGED stack
    BY <1>7 DEF End, UndoInv
  <2> QED
    BY <2>1 DEF UndoInv
<1>8. CASE Enter
  <2>1. stack # << >>
    BY <1>8 DEF Enter, CallsInv
  <2>2. CASE pc' = "judge" /\ g' = Restored /\ UNCHANGED calls
    <3>1. Inside' = Inside /\ UNCHANGED stack
      BY <1>8, <2>2 DEF Enter, Inside, Restored
    <3> QED
      BY <2>2, <3>1, StaysUndone
  <2>3. CASE pc = "enter" /\ UNCHANGED g /\ \E q : Leave(q)
    BY <1>3, <2>1, <2>3
  <2> QED
    BY <1>8, <2>2, <2>3 DEF Enter, Pruned
<1>9. CASE Judge
  <2>1. stack # << >>
    BY <1>9 DEF Judge, CallsInv
  <2>2. CASE g' = Restored /\ Leave(TRUE)
    BY <1>3, <1>9, <2>1, <2>2 DEF Judge, Restored
  <2>3. CASE UNCHANGED <<g, calls>> /\ pc' \in {"spread", "send"}
    BY <1>2, <1>9, <2>3 DEF Judge
  <2> QED
    BY <1>9, <2>2, <2>3 DEF Judge, Offered
<1>10. CASE Spread
  <2>1. stack # << >> /\ pc = "spread"
    BY <1>10 DEF Spread, CallsInv
  <2>2. CASE g' = Restored /\ Leave(FALSE)
    BY <1>3, <2>1, <2>2 DEF Restored
  <2>3. CASE /\ stack' = [stack EXCEPT ![Len(stack)].near = findNeighbours(Top.edge)]
             /\ pc' = "descend" /\ UNCHANGED g
    <3>1. PICK h : Unwinds(h)
      BY <2>1 DEF UndoInv
    <3>2. cached = g /\ Inside = g /\ g.n \in Nat
      BY <2>1 DEF CachesInv, Inside, GraphInv, IsGraph
    <3>3. findNeighbours(Top.edge) \in Seq(Counted(g))
      BY <3>2, NeighboursCounted
    <3>4. CountsHold(findNeighbours(Top.edge), Inside)
      BY <3>2, <3>3 DEF CountsHold, Counted
    <3> QED
      BY <2>1, <2>3, <3>1, <3>4, UpdateUndoes
  <2> QED
    BY <1>10, <2>2, <2>3 DEF Spread
<1>11. CASE Descend
  <2>1. stack # << >> /\ pc = "descend"
    BY <1>11 DEF Descend, CallsInv
  <2>2. CASE g' = Restored /\ Leave(FALSE)
    BY <1>3, <2>1, <2>2 DEF Restored
  <2>3. CASE /\ stack' = Append(stack, Call(Top.near[Top.k].edge, Below(Top.level)))
             /\ pc' = "enter" /\ UNCHANGED g
    <3>1. PICK h : Unwinds(h)
      BY <2>1 DEF UndoInv
    <3> DEFINE e == Top.near[Top.k].edge
               c == Call(e, Below(Top.level))
               l == Len(stack)
    <3>a. PICK below : below = [k \in 1 .. l + 1 |-> IF k = l + 1 THEN Flipped(g, e) ELSE h[k]]
      OBVIOUS
    <3>2. c.edge = e /\ c.near = << >>
      BY DEF Call
    <3> HIDE DEF c
    <3>3. l \in Nat /\ l > 0
      BY <2>1, SeqFacts DEF CallsInv, HasItsElements
    <3>4. /\ Len(stack') = l + 1 /\ stack'[l + 1] = c
          /\ \A k \in 1 .. l : stack'[k] = stack[k]
      BY <2>3, SeqFacts DEF CallsInv, c
    <3>5. IsGraph(g) /\ Fits(Flipped(g, e))
      BY <2>1, FlippedGraph DEF GraphInv, Fits
    <3>6. h[l] = g
      BY <2>1, <3>1 DEF Unwinds, Inside
    <3> HIDE DEF l, e
    <3>7. /\ below[l + 1] = Flipped(g, e)
          /\ \A k \in 1 .. l : below[k] = h[k]
      BY <3>a, <3>3
    <3>8. below[Len(stack')] = Inside'
      BY <2>3, <3>2, <3>4, <3>7 DEF Inside, Top, Last
    <3>9. ASSUME NEW k \in 1 .. Len(stack')
          PROVE  Fits(below[k]) /\ CountsHold(stack'[k].near, below[k])
      <4>1. CASE k = l + 1
        BY <3>2, <3>4, <3>5, <3>7, <4>1 DEF CountsHold
      <4>2. CASE k \in 1 .. l
        BY <3>1, <3>4, <3>7, <4>2 DEF Unwinds, l
      <4> QED
        BY <3>3, <3>4, <4>1, <4>2
    <3>10. ASSUME NEW k \in 2 .. Len(stack')
           PROVE  below[k - 1] = Flipped(below[k], stack'[k].edge)
      <4>1. CASE k = l + 1
        <5>1. k - 1 = l /\ l \in 1 .. l
          BY <3>3, <4>1
        <5>2. Flipped(Flipped(g, e), e) = g
          BY <3>5, FlipTwice
        <5> QED
          BY <3>2, <3>4, <3>6, <3>7, <4>1, <5>1, <5>2
      <4>2. CASE k \in 2 .. l
        <5>1. k \in 1 .. l /\ k - 1 \in 1 .. l
          BY <3>3, <4>2
        <5>2. h[k - 1] = Flipped(h[k], stack[k].edge)
          BY <3>1, <4>2 DEF Unwinds, l
        <5> QED
          BY <3>4, <3>7, <5>1, <5>2
      <4> QED
        BY <3>3, <3>4, <4>1, <4>2
    <3>11. Unwinds(below)'
      BY <3>8, <3>9, <3>10 DEF Unwinds
    <3> QED
      BY <2>3, <3>11 DEF UndoInv
  <2> QED
    BY <1>11, <2>2, <2>3 DEF Descend
<1>12. CASE Return
  <2>1. stack # << >> /\ pc = "return"
    BY <1>12 DEF Return
  <2>2. CASE g' = Restored /\ Leave(TRUE)
    BY <1>3, <2>1, <2>2 DEF Restored
  <2>3. CASE /\ stack' = [stack EXCEPT ![Len(stack)].k = Following(@)]
             /\ pc' = "descend" /\ UNCHANGED g
    <3>1. PICK v : stack' = [stack EXCEPT ![Len(stack)].k = v]
      BY <2>3
    <3>2. PICK h : Unwinds(h)
      BY <2>1 DEF UndoInv
    <3> QED
      BY <2>1, <2>3, <3>1, <3>2, UpdateUndoes
  <2> QED
    BY <1>12, <2>2, <2>3 DEF Return
<1>13. CASE Restart
  BY <1>13 DEF Restart, UndoInv
<1>14. CASE Listen \/ UNCHANGED vars
  <2>1. UNCHANGED stack /\ Inside' = Inside /\ pc' = pc
    BY <1>14 DEF Listen, vars, Inside, Top
  <2> QED
    BY <2>1, StaysUndone DEF UndoInv
<1> QED
  BY <1>4, <1>5, <1>6, <1>7, <1>8, <1>9, <1>10, <1>11, <1>12, <1>13, <1>14 DEF Next, Step

\* At any depth: when a neighbour is flipped, its count is the one by which it was
\* chosen, since every call that has returned left the graph as it found it
\* (recursion.c:106-129, 169-194).
THEOREM SearchCounts ==
    ASSUME StartsFit
    PROVE  Spec => []CountsStillTrue
<1>1. Init => GraphInv /\ UndoInv
  BY DEF Init, GraphInv, UndoInv
<1>2. GraphInv /\ UndoInv /\ SearchInv /\ [Next]_vars => (GraphInv /\ UndoInv)'
  BY GraphStep, UndoStep DEF SearchInv
<1>3. UndoInv /\ SearchInv => CountsStillTrue
  <2> SUFFICES ASSUME UndoInv, SearchInv, pc = "descend"
               PROVE  CountsHold(Top.near, g)
    BY DEF CountsStillTrue, CountsHold
  <2>1. stack # << >> /\ Len(stack) \in Nat /\ Len(stack) > 0
    BY SeqFacts DEF SearchInv, CallsInv, HasItsElements
  <2>2. PICK h : Unwinds(h)
    BY <2>1 DEF UndoInv
  <2>3. h[Len(stack)] = g /\ Len(stack) \in 1 .. Len(stack)
    BY <2>1, <2>2 DEF Unwinds, Inside
  <2> QED
    BY <2>2, <2>3 DEF Unwinds, Top, Last
<1> QED
  BY <1>1, <1>2, <1>3, SearchSafe, PTL DEF Spec
=============================================================================
