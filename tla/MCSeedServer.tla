---------------------------- MODULE MCSeedServer ----------------------------
(* Small instances of the server.  Graphs have 7 or 8 nodes' worth of name *)
(* only: a size is a label, a clique count is 0, at the target or over it. *)
EXTENDS SeedServerProps, TLC

G(n, c) == [gsize |-> n, cliques |-> c]

\* A graph for each verdict of every round, and counterexamples of another size.
RoundUploads == {G(1, c) : c \in 0 .. RECURSION_THRESHOLD} \cup {G(2, 0)}
RoundSeeds == {G(1, RECURSION_THRESHOLD)}

\* Uploads that are cut off, beside whole ones.
CutUploads == {G(1, 0), G(1, 1), Broken}
=============================================================================
