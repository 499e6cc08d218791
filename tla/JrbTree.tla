------------------------------ MODULE JrbTree ------------------------------
(***************************************************************************)
(* The red-black tree of jrb.c as operators on the memory that holds it:   *)
(* the nodes malloc gave out, and each field of a node as a function.  The *)
(* keys are in external nodes, the leaves, which flink and blink also link *)
(* into a list through the head, Nil.  An internal node has the children   *)
(* flink and blink, and remembers in lext and rext the external nodes on   *)
(* either side of it.                                                      *)
(***************************************************************************)
EXTENDS Integers, FiniteSets

CONSTANTS
    Node,  \* the memory: where a node may be
    Nil    \* jrb_nil, the head of the tree

ASSUME NodeAssumption == Nil \in Node /\ IsFiniteSet(Node)

\* Memory without a tree; exited is set when the code prints an error and calls exit.
Pointers == [n \in Node |-> Nil]
Flags == [n \in Node |-> FALSE]

\* The bit left of a node.
Left == "left"
Right == "right"
Side == {Left, Right}
Other(side) == IF side = Left THEN Right ELSE Left

NoTree ==
    [used |-> {}, exited |-> FALSE,
     flink |-> Pointers, blink |-> Pointers, parent |-> Pointers,
     lext |-> Pointers, rext |-> Pointers, key |-> [n \in Node |-> 0],
     root |-> Flags, internal |-> Flags, red |-> Flags, side |-> [n \in Node |-> Right]]

malloc(t) == CHOOSE n \in Node : n \notin t.used
free(t, nodes) == [t EXCEPT !.used = @ \ nodes]
exit(t) == [t EXCEPT !.exited = TRUE]

make_jrb == [NoTree EXCEPT !.used = {Nil}]

\* Where a loop that takes n to f[n] is after so many turns; a loop that has ended
\* stays where it is, and none has more turns than there are nodes.
Turns(f, n, count) ==
    LET at[k \in 0 .. count] == IF k = 0 THEN n ELSE f[at[k - 1]] IN at[count]
Loop(f, n) == Turns(f, n, Cardinality(Node))

child(t, n, side) == IF side = Left THEN t.flink[n] ELSE t.blink[n]
SetChild(t, n, side, c) ==
    IF side = Left THEN [t EXCEPT !.flink[n] = c] ELSE [t EXCEPT !.blink[n] = c]
\* Makes c the left or the right child of n.
Hang(t, n, side, c) == [SetChild(t, n, side, c) EXCEPT !.parent[c] = n, !.side[c] = side]
\* Makes n the root.
Plant(t, n) == [t EXCEPT !.parent[n] = Nil, !.parent[Nil] = n, !.root[n] = TRUE]
sibling(t, n) == child(t, t.parent[n], Other(t.side[n]))

insert(t, item, list) ==
    LET last == t.blink[list] IN
    [t EXCEPT !.blink[list] = item, !.flink[last] = item,
              !.blink[item] = last, !.flink[item] = list]

delete_item(t, n) ==
    [t EXCEPT !.blink[t.flink[n]] = t.blink[n], !.flink[t.blink[n]] = t.flink[n]]

mk_new_ext(t, new, k) ==
    [t EXCEPT !.used = @ \union {new}, !.key[new] = k, !.internal[new] = FALSE,
              !.red[new] = FALSE, !.root[new] = FALSE]

\* The next internal node to the left of n, or to the right of it.
lprev(t, n) ==
    t.parent[Loop([m \in Node |-> IF t.root[m] \/ t.side[m] = Right THEN m ELSE t.parent[m]], n)]
rprev(t, n) ==
    t.parent[Loop([m \in Node |-> IF t.root[m] \/ t.side[m] = Left THEN m ELSE t.parent[m]], n)]

setrextLeft(t, p, n) == IF p = Nil THEN t ELSE [t EXCEPT !.lext[p] = n]  \* mutant
setrext(t, p, n) == IF p = Nil THEN t ELSE [t EXCEPT !.rext[p] = n]
setlext(t, p, n) == IF p = Nil THEN t ELSE [t EXCEPT !.lext[p] = n]

single_rotate(t, y, l) ==
    LET x == child(t, y, l)
        turned == Hang(Hang(t, y, l, child(t, x, Other(l))), x, Other(l), y)
    IN  IF t.root[y] THEN Plant([turned EXCEPT !.root[y] = FALSE], x)
        ELSE Hang(turned, t.parent[y], t.side[y], x)

-----------------------------------------------------------------------------
(* Two red nodes in a row: recolour upwards, then rotate *)

\* The red node n and its parent, with a red sibling.
RedUncle(t, n) ==
    LET p == t.parent[n] IN
    /\ ~t.root[n] /\ t.red[p] /\ ~t.root[p] /\ t.red[sibling(t, p)]

Climbed(at) ==
    LET t == at.tree
        p == t.parent[at.node]
        gp == t.parent[p]
    IN  [tree |-> [t EXCEPT !.red[p] = FALSE, !.red[gp] = TRUE,
                            !.red[sibling(t, p)] = FALSE],
         node |-> gp]

Tree ==
    [used : SUBSET Node, exited : BOOLEAN,
     flink : [Node -> Node], blink : [Node -> Node], parent : [Node -> Node],
     lext : [Node -> Node], rext : [Node -> Node], key : [Node -> Int],
     root : [Node -> BOOLEAN], internal : [Node -> BOOLEAN],
     red : [Node -> BOOLEAN], side : [Node -> Side]]
Place == [tree : Tree, node : Node]

Rotated(t, n) ==
    LET p == t.parent[n]
        gp == t.parent[p]
        inner == t.side[n] # t.side[p]
        first == IF inner THEN single_rotate(t, p, t.side[n]) ELSE t
        top == IF inner THEN n ELSE p
    IN  [single_rotate(first, gp, first.side[n]) EXCEPT !.red[top] = FALSE, !.red[gp] = TRUE]

recolor(tree, node) ==
    LET end == Loop([at \in Place |->
                        IF RedUncle(at.tree, at.node) THEN Climbed(at) ELSE at],
                    [tree |-> tree, node |-> node])
        t == end.tree
        n == end.node
        p == t.parent[n]
    IN  IF t.root[n] THEN [t EXCEPT !.red[n] = FALSE]
        ELSE IF ~t.red[p] THEN t
        ELSE IF t.root[p] THEN [t EXCEPT !.red[p] = FALSE]
        ELSE Rotated(t, n)

mk_new_int(t, l, r, p, side) ==
    LET new == malloc(t)
        made == [t EXCEPT !.used = @ \union {new}, !.internal[new] = TRUE, !.red[new] = TRUE,
                          !.root[new] = FALSE, !.lext[new] = l, !.rext[new] = r]
        under == Hang(Hang(made, new, Left, l), new, Right, r)
    IN  recolor(IF p = Nil THEN Plant(under, new) ELSE Hang(under, p, side, new), new)

-----------------------------------------------------------------------------
(* Lookup and insertion *)

\* Down to an external node, or to an internal one whose lext has the key.
Descend(t, k) ==
    Loop([n \in Node |->
             IF ~t.internal[n] \/ k = t.key[t.lext[n]] THEN n
             ELSE child(t, n, IF k < t.key[t.lext[n]] THEN Left ELSE Right)],
         t.parent[Nil])

\* The first external node with a key that is not below k, else the head.
jrb_find_gte_dbl(t, k) ==
    LET last == t.blink[Nil]
        n == Descend(t, k)
    IN  IF t.parent[Nil] = Nil THEN [node |-> Nil, fnd |-> FALSE]
        ELSE IF k = t.key[last] THEN [node |-> last, fnd |-> TRUE]
        ELSE IF k > t.key[last] THEN [node |-> Nil, fnd |-> FALSE]
        ELSE IF t.internal[n] THEN [node |-> t.lext[n], fnd |-> TRUE]
        ELSE [node |-> n, fnd |-> FALSE]

jrb_insert_b(t, n, k) ==
    LET new == malloc(t)
        listed == insert(mk_new_ext(t, new, k), new, n)
        old == IF n = Nil THEN t.blink[n] ELSE n  \* gets a parent with new
        normal == [listed EXCEPT !.root[old] = FALSE]
        l == IF n = Nil THEN old ELSE new
        r == IF n = Nil THEN new ELSE old
        grown == mk_new_int(normal, l, r, t.parent[old], t.side[old])
    IN  IF n = Nil /\ t.parent[n] = n
        THEN Plant(listed, new)
        ELSE IF n = Nil THEN setlext(grown, rprev(grown, new), new)
        ELSE setrext(grown, lprev(grown, new), new)

jrb_insert_dbl(t, k) == jrb_insert_b(t, jrb_find_gte_dbl(t, k).node, k)

-----------------------------------------------------------------------------
(* Deletion: the sibling s takes the place of the parent *)

SettledShort(t, p, s) == [t EXCEPT !.red[p] = FALSE]  \* mutant
\* Case 2.3c, recolouring only.
Settled(t, p, s) == [t EXCEPT !.red[p] = FALSE, !.red[s] = TRUE]

\* The four cases left when n is one black node short and s is its sibling.
Rotate23(t, n) ==
    LET p == t.parent[n]
        s == sibling(t, n)
        il == t.side[n]
        x == child(t, s, il)
        z == child(t, s, Other(il))
    IN  IF ~t.internal[s] THEN exit(t)
        ELSE IF t.red[z]
        THEN [single_rotate(t, p, Other(il)) EXCEPT !.red[z] = FALSE, !.red[s] = t.red[p],
                                              !.red[p] = FALSE]
        ELSE IF t.red[x]
        THEN [single_rotate(single_rotate(t, s, il), p, Other(il))
                 EXCEPT !.red[x] = FALSE, !.red[s] = t.red[s] \/ t.red[p]]
        ELSE IF t.red[s] \/ ~t.red[p] THEN exit(t)
        ELSE Settled(t, p, s)

\* The sibling and its children are black, and so is the parent.
AllBlack(t, n) ==
    LET s == sibling(t, n) IN
    /\ ~t.red[t.parent[n]] /\ ~t.red[s] /\ t.internal[s]
    /\ ~t.red[t.flink[s]] /\ ~t.red[t.blink[s]]

\* The sibling turns red, and the parent is short unless it is the root.
Reddened(at) ==
    LET t == at.tree IN
    [tree |-> [t EXCEPT !.red[sibling(t, at.node)] = TRUE], node |-> t.parent[at.node]]

\* Case 2.3b: the red sibling turns up, and n has a black sibling and a red parent.
Raised(t, n) ==
    LET p == t.parent[n] IN
    [single_rotate(t, p, Other(t.side[n])) EXCEPT !.red[p] = TRUE, !.red[sibling(t, n)] = FALSE]

FixedRed(t, s) == t  \* mutant
Fixed(t, s) == [t EXCEPT !.red[s] = FALSE]

Shortened(tree, node) ==
    LET end == Loop([at \in Place |->
                        IF ~at.tree.root[at.node] /\ AllBlack(at.tree, at.node)
                        THEN Reddened(at) ELSE at],
                    [tree |-> tree, node |-> node])
        t == end.tree
        n == end.node
        p == t.parent[n]
    IN  IF t.root[n] THEN t
        ELSE Rotate23(IF ~t.red[p] /\ t.red[sibling(t, n)] THEN Raised(t, n) ELSE t, n)

jrb_delete_node(tree, n) ==
    LET t == delete_item(tree, n)
        p == t.parent[n]
        s == sibling(t, n)
        gp == t.parent[p]
        spliced == free(Hang(t, gp, t.side[p], s), {n, p})
        lo == IF t.internal[s] THEN t.flink[s] ELSE s
        hi == IF t.internal[s] THEN t.blink[s] ELSE s
        joined == setlext(setrext(spliced, lprev(spliced, s), lo), rprev(spliced, s), hi)
    IN  IF t.root[n] THEN free([t EXCEPT !.parent[p] = p], {n})
        ELSE IF t.root[p]
        THEN free(Plant(t, s), {n, p})
        ELSE IF t.internal[s] /\ ~t.red[s] THEN exit(t)
        ELSE IF t.internal[s] THEN Fixed(joined, s)
        ELSE IF t.red[p] THEN joined
        ELSE Shortened(joined, s)

\* Deletes the first node until there is none; an exit ends the program.
jrb_free_tree(tree) ==
    LET end == Loop([t \in Tree |->
                        IF t.exited \/ t.flink[Nil] = Nil THEN t
                        ELSE jrb_delete_node(t, t.flink[Nil])], tree)
    IN  IF end.exited THEN end ELSE free(end, {Nil})
=============================================================================
