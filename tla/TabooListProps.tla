--------------------------- MODULE TabooListProps ---------------------------
(***************************************************************************)
(* The index holds what the queue holds, stays a red-black tree under any  *)
(* order of inserts and evictions, and answers as TabooWindow says.        *)
(***************************************************************************)
EXTENDS TabooList

\* The external nodes in the order of the list.
Leaf(i) == Turns(findex.flink, Nil, i)
External == {Leaf(i) : i \in 1 .. fcount}
Internal == {n \in findex.used \ {Nil} : findex.internal[n]}
Root == findex.parent[Nil]

\* The external nodes at the left end and at the right end below n.
FirstBelow(n) == Loop([m \in Node |-> IF findex.internal[m] THEN findex.flink[m] ELSE m], n)
LastBelow(n) == Loop([m \in Node |-> IF findex.internal[m] THEN findex.blink[m] ELSE m], n)

\* The nodes from n up to the root, and the black ones among them (jrb.c:574-589).
Path(n) == {Turns(findex.parent, n, i) : i \in 0 .. Cardinality(Node)} \ {Nil}
jrb_nblack(n) == Cardinality({m \in Path(n) : ~findex.red[m]})

Running == live /\ ~findex.exited
Times(s, x) == Cardinality({i \in DOMAIN s : s[i] = x})

TypeOK ==
    /\ live \in BOOLEAN
    /\ findex \in Tree
    /\ fifo \in Seq(Nat) /\ Len(fifo) <= MaxSize
    /\ fcount = Len(fifo)

\* The deletion never meets a tree it calls wrong, and freeing the list leaves no
\* node behind (jrb.c:444, 481, 496, 602-613).
NeverStuck == ~findex.exited /\ (~live => findex.used = {})

\* The list of the tree is its leaves from left to right, and an internal node knows
\* the leaf before it and the leaf after it, which are neighbours in the list: the
\* search compares with the first (jrb.c:217-224, 291-301, 438-451).
NeighboursKnown ==
    Running /\ fifo # << >> =>
        /\ findex.flink[Nil] = FirstBelow(Root) /\ findex.blink[Nil] = LastBelow(Root)
        /\ \A n \in Internal :
              LET before == LastBelow(findex.flink[n])
                  after == FirstBelow(findex.blink[n])
              IN  /\ findex.lext[n] = before /\ findex.rext[n] = after
                  /\ findex.flink[before] = after /\ findex.blink[after] = before

\* The index has each key as often as the queue, in order: an eviction deletes one
\* node of a key, and no node outlives its key (fifo.c:450-481).
IndexHoldsQueue ==
    Running =>
        LET keys == [i \in 1 .. fcount |-> findex.key[Leaf(i)]] IN
        /\ Leaf(fcount + 1) = Nil
        /\ Cardinality(findex.used) = IF fifo = << >> THEN 1 ELSE 2 * fcount
        /\ \A i, j \in 1 .. fcount : i <= j => keys[i] <= keys[j]
        /\ \A i \in 1 .. fcount : Times(keys, fifo[i]) = Times(fifo, fifo[i])

\* The tree stays balanced: as many black nodes above each leaf, no red child of a red
\* node, but for a red root a deletion at the root may leave above two leaves
\* (jrb.c:306-515).
Balanced ==
    Running /\ fifo # << >> =>
        /\ \A m, n \in External : jrb_nblack(m) = jrb_nblack(n)
        /\ \A n \in Internal :
              findex.red[n] => ~findex.red[findex.flink[n]] /\ ~findex.red[findex.blink[n]]
        /\ findex.red[Root] => fcount = 2

\* Lookups answer for exactly the last MaxSize entries (fifo.c:412-512): keys of two
\* entries differ, and every key in the index is found.
Entry(key) == CHOOSE x \in Entries : MakeEdgeCountKey(x[1], x[2], x[3]) = key
Window ==
    INSTANCE TabooWindow WITH
        Size <- MaxSize, open <- live,
        window <- [n \in DOMAIN fifo |-> Entry(fifo[n])],
        taboo <- IF ~Running THEN {}
                 ELSE {x \in Entries : FIFOFindEdgeCount(x[1], x[2], x[3])}
ImplementsWindow == Window!Spec
=============================================================================
