--------------------------- MODULE MCCliqueCount ---------------------------
(* Small graphs, and a graph with nodes high enough to lose bits of a key. *)
EXTENDS CliqueCountProps

AllNodes == 0 .. 4
AllStarts == Graph
HighNodes == 103 .. 110
\* All edges have colour 0 but two.
HighStarts ==
    {[edg \in Edges |-> IF edg \in {<<103, 104>>, <<109, 110>>} THEN 1 ELSE 0]}
=============================================================================
