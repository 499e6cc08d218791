----------------------------- MODULE TabooList -----------------------------
(***************************************************************************)
(* The taboo list of a search: a queue of keys and a red-black tree that   *)
(* indexes them (fifo.c).  An insert at the limit first drops the oldest   *)
(* key from both.  The same key may be in both more than once.             *)
(***************************************************************************)
EXTENDS JrbTree, TabooKey, Sequences

CONSTANTS
    Entries,        \* <<i, j, count>>: an edge, and the cliques with it flipped
    MaxSize         \* TABOOSIZE

\* The memory has room for the list, as the code expects that does not check malloc.
ASSUME TabooAssumption ==
    /\ Entries \subseteq Packable
    /\ MaxSize \in Nat \ {0}
    /\ Cardinality(Node) >= 2 * MaxSize

VARIABLES
    live,      \* between FIFOInitGraph and FIFODelete
    findex,    \* the tree
    fifo,      \* the linked list of keys
    fcount

vars == <<live, findex, fifo, fcount>>

Init ==
    /\ live = FALSE
    /\ findex = NoTree /\ fifo = << >> /\ fcount = 0

FIFOInitGraph ==
    /\ ~live
    /\ live' = TRUE
    /\ findex' = make_jrb
    /\ fifo' = << >> /\ fcount' = 0

FullLater(n) == n > MaxSize  \* mutant
Full(n) == n + 1 > MaxSize

DroppedNot(t, key) == t  \* mutant
\* A key that is not in the index is only reported.
Dropped(t, key) ==
    LET found == jrb_find_gte_dbl(t, key) IN
    IF found.fnd THEN jrb_delete_node(t, found.node) ELSE t

IndexedOnce(t, key) ==  \* mutant
    IF jrb_find_gte_dbl(t, key).fnd THEN t ELSE jrb_insert_dbl(t, key)
Indexed(t, key) == jrb_insert_dbl(t, key)

FIFOInsertEdgeCount(i, j, count) ==
    LET key == MakeEdgeCountKey(i, j, count)
        full == Full(fcount)
        index == IF full THEN Dropped(findex, Head(fifo)) ELSE findex
        queue == IF full THEN Tail(fifo) ELSE fifo
    IN  /\ live /\ ~findex.exited
        /\ findex' = IF index.exited THEN index ELSE Indexed(index, key)
        /\ fifo' = Append(queue, key)
        /\ fcount' = (IF full THEN fcount - 1 ELSE fcount) + 1
        /\ UNCHANGED live

FIFOFindEdgeCount(i, j, count) ==
    jrb_find_gte_dbl(findex, MakeEdgeCountKey(i, j, count)).fnd

FIFODelete ==
    /\ live /\ ~findex.exited
    /\ live' = FALSE
    /\ findex' = jrb_free_tree(findex)
    /\ fifo' = << >> /\ fcount' = 0

Next ==
    \/ FIFOInitGraph \/ FIFODelete
    \/ \E x \in Entries : FIFOInsertEdgeCount(x[1], x[2], x[3])

Spec == Init /\ [][Next]_vars
=============================================================================
