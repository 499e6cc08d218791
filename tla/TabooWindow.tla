---------------------------- MODULE TabooWindow ----------------------------
(***************************************************************************)
(* What a search expects of its taboo list: exactly the last Size entries  *)
(* it put in are taboo.                                                    *)
(***************************************************************************)
EXTENDS Integers, Sequences

CONSTANTS
    Entries,  \* an edge and the count of the graph with it flipped
    Size      \* TABOOSIZE

VARIABLES
    open,     \* a search is running
    window,   \* its last entries, the oldest first
    taboo     \* the entries it is told are taboo

vars == <<open, window, taboo>>

Within(w) == {w[n] : n \in DOMAIN w}
Pushed(w, x) == Append(IF Len(w) < Size THEN w ELSE Tail(w), x)

Init == open = FALSE /\ window = << >> /\ taboo = {}

Begin == ~open /\ open' = TRUE /\ UNCHANGED <<window, taboo>>

Put(x) ==
    /\ open
    /\ window' = Pushed(window, x)
    /\ taboo' = Within(window')
    /\ UNCHANGED open

End == open /\ open' = FALSE /\ window' = << >> /\ taboo' = {}

Next == Begin \/ End \/ \E x \in Entries : Put(x)

Spec == Init /\ [][Next]_vars

-----------------------------------------------------------------------------

\* No more and no other entries are taboo than the last Size.
WindowIsTaboo ==
    /\ window \in Seq(Entries) /\ Len(window) <= Size
    /\ taboo = Within(window)

\* An entry stays taboo until the search ends or Size entries came after it.
OnlyOldestLeaves ==
    [][open' => \A x \in taboo \ taboo' : Len(window) = Size /\ x = window[1]]_vars
=============================================================================
