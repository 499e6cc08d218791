---------------------------- MODULE MCTabooList ----------------------------
(***************************************************************************)
(* Three keys that follow each other.  No code compares the addresses of    *)
(* two nodes, so that two trees are the same state when they differ only   *)
(* in them: the view numbers the nodes from left to right.  It leaves out  *)
(* whether the root is a left child, which no code goes by, and what free  *)
(* memory still holds.                                                     *)
(***************************************************************************)
EXTENDS TabooListProps, Functions, Sequences

ThreeKeys == {<<0, 1, 0>>, <<0, 1, 1>>, <<0, 2, 0>>}
Memory == 0 .. 2 * MaxSize + 1  \* for one key more than the list may hold

RECURSIVE InOrder(_, _)
InOrder(t, n) ==
    IF ~t.internal[n] THEN <<n>>
    ELSE InOrder(t, t.flink[n]) \o <<n>> \o InOrder(t, t.blink[n])

Numbered(t) ==
    LET order == IF t.parent[Nil] = Nil THEN <<Nil>> ELSE <<Nil>> \o InOrder(t, t.parent[Nil])
        number == AntiFunction(order)
        To(n) == IF n \in DOMAIN number THEN number[n] ELSE 0
    IN  <<Cardinality(t.used), To(t.parent[Nil]),
          [m \in DOMAIN order |->
              LET n == order[m] IN
              <<To(t.flink[n]), To(t.blink[n]), To(t.parent[n]), t.root[n], t.internal[n],
                t.red[n], t.side[n] = Left /\ ~t.root[n],
                IF t.internal[n] THEN <<To(t.lext[n]), To(t.rext[n])>> ELSE t.key[n]>>]>>

View == <<live, fifo, fcount, findex.exited, IF Running THEN Numbered(findex) ELSE << >> >>
=============================================================================
