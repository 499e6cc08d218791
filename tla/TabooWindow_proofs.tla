------------------------- MODULE TabooWindow_proofs -------------------------
(***************************************************************************)
(* The window of the taboo list: the last entries, and no others.          *)
(***************************************************************************)
EXTENDS TabooWindow, TLAPS

\* There is room for an entry.
WindowAssumption == Size \in Nat \ {0}

\* The window after an entry was put: its parts, and how it holds the old one.
LEMMA PushedWindow ==
    ASSUME WindowAssumption, NEW w \in Seq(Entries), Len(w) <= Size, NEW x \in Entries
    PROVE  /\ Pushed(w, x) \in Seq(Entries)
           /\ Len(Pushed(w, x)) <= Size
           /\ \A y \in Within(w) \ Within(Pushed(w, x)) :
                 Len(w) = Size /\ y = w[1]
<1> USE DEF WindowAssumption
<1>1. CASE Len(w) < Size
  <2>1. Pushed(w, x) = Append(w, x)
    BY <1>1 DEF Pushed
  <2>2. \A n \in DOMAIN w : n \in DOMAIN Append(w, x) /\ Append(w, x)[n] = w[n]
    OBVIOUS
  <2> QED
    BY <1>1, <2>1, <2>2 DEF Within
<1>2. CASE ~(Len(w) < Size)
  <2>1. Len(w) = Size /\ w # << >>
    BY <1>2
  <2> DEFINE v == Append(Tail(w), x)
  <2>2. Pushed(w, x) = v
    BY <1>2 DEF Pushed
  <2>3. Tail(w) \in Seq(Entries) /\ Len(Tail(w)) = Len(w) - 1
    BY <2>1
  <2>4. v \in Seq(Entries) /\ Len(v) = Size
    BY <2>1, <2>3
  <2>5. \A n \in DOMAIN w : n # 1 => n - 1 \in DOMAIN v /\ v[n - 1] = w[n]
    BY <2>1, <2>3
  <2>6. ASSUME NEW y \in Within(w), y \notin Within(v)
        PROVE  y = w[1]
    <3>1. PICK n \in DOMAIN w : y = w[n]
      BY <2>6 DEF Within
    <3>2. CASE n # 1
      BY <2>5, <2>6, <3>1, <3>2 DEF Within
    <3> QED
      BY <3>1, <3>2
  <2> HIDE DEF v
  <2> QED
    BY <2>1, <2>2, <2>4, <2>6
<1> QED
  BY <1>1, <1>2

\* One step keeps the invariant.
LEMMA WindowStep ==
    ASSUME WindowAssumption, WindowIsTaboo, [Next]_vars
    PROVE  WindowIsTaboo'
<1>1. CASE \E x \in Entries : Put(x)
  BY <1>1, PushedWindow DEF Put, WindowIsTaboo
<1>2. CASE End
  BY <1>2 DEF WindowAssumption, End, WindowIsTaboo, Within
<1>3. CASE Begin \/ UNCHANGED vars
  BY <1>3 DEF Begin, vars, WindowIsTaboo, Within
<1> QED
  BY <1>1, <1>2, <1>3 DEF Next

\* For every size, a lookup answers for the last Size entries (fifo.c:426-512).
THEOREM WindowTaboo ==
    ASSUME WindowAssumption
    PROVE  Spec => []WindowIsTaboo
<1>1. Init => WindowIsTaboo
  BY DEF WindowAssumption, Init, WindowIsTaboo, Within
<1> QED
  BY <1>1, WindowStep, PTL DEF Spec

\* For every size, an insert can only make the oldest entry free again
\* (fifo.c:450-473).
THEOREM OldestLeaves ==
    ASSUME WindowAssumption
    PROVE  Spec => OnlyOldestLeaves
<1>1. ASSUME WindowIsTaboo, [Next]_vars
      PROVE  [open' => \A x \in taboo \ taboo' : Len(window) = Size /\ x = window[1]]_vars
  <2>1. CASE \E x \in Entries : Put(x)
    BY <1>1, <2>1, PushedWindow DEF Put, WindowIsTaboo
  <2>2. CASE Begin \/ End \/ UNCHANGED vars
    BY <2>2 DEF Begin, End
  <2> QED
    BY <1>1, <2>1, <2>2 DEF Next
<1> QED
  BY <1>1, WindowTaboo, PTL DEF Spec, OnlyOldestLeaves
=============================================================================
