------------------------------ MODULE TabooKey ------------------------------
(***************************************************************************)
(* The key of an entry of the taboo list (fifo.c): an edge <<i, j>> and a  *)
(* count, packed into one number.                                          *)
(***************************************************************************)
EXTENDS Integers

CONSTANTS
    RowBase,   \* 2^16: a column is below it
    CountBase  \* 10^8: "won't work if the count exceeds" it

ASSUME KeyAssumption == RowBase \in Nat \ {0} /\ CountBase \in Nat \ {0}

Packable == Nat \X (0 .. RowBase - 1) \X (0 .. CountBase - 1)

MakeEdgeCountKey(i, j, count) == (i * RowBase + j) * CountBase + count
=============================================================================
