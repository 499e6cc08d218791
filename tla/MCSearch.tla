------------------------------ MODULE MCSearch ------------------------------
(* Triangles in graphs of two to four nodes. *)
EXTENDS SearchProps

Triangles(h) ==
    Cardinality({t \in (0 .. h.n - 1) \X (0 .. h.n - 1) \X (0 .. h.n - 1) :
                    /\ t[1] < t[2] /\ t[2] < t[3]
                    /\ h.at[<<t[1], t[2]>>] = h.at[<<t[1], t[3]>>]
                    /\ h.at[<<t[1], t[2]>>] = h.at[<<t[2], t[3]>>]})

Ones(n, ones) == [n |-> n, at |-> [c \in Cells(n) |-> IF c \in ones THEN 1 ELSE 0]]
Path == {<<0, 1>>, <<1, 2>>, <<2, 3>>}
SomeStarts ==
    {<<"BF", Ones(2, {})>>, <<"BF", Ones(3, {})>>, <<"BF", Ones(4, {<<2, 3>>})>>,
     <<"DF", Ones(4, {})>>}
SomeHeld == {[edge |-> Outside, count |-> 0], [edge |-> <<0, 1>>, count |-> 1]}
\* None, one cut in its last line and one cut before it.
SomeFiles ==
    LET whole == PrintGraph(Ones(4, Path)) IN
    {NoFile, [whole EXCEPT !.text = SubSeq(@, 1, 30)],
     [whole EXCEPT !.text = SubSeq(@, 1, 20)]}
=============================================================================
