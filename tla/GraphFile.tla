----------------------------- MODULE GraphFile -----------------------------
(***************************************************************************)
(* Graphs and the files that hold them (graph.c): a line with the size,    *)
(* and a line for each row of the matrix.  The text stands for what        *)
(* follows the first line; a file that is missing, or cut in its first     *)
(* line, is NoFile.                                                        *)
(***************************************************************************)
EXTENDS Integers, Sequences, FiniteSets, FiniteSetsExt

CONSTANTS
    LineBuffer,  \* 254, what ReadGraph passes to fgets
    MAXSIZE      \* 541

ASSUME FileAssumption == LineBuffer \in Nat /\ LineBuffer >= 2 /\ MAXSIZE \in Nat

Color == {0, 1}
Space == 2
NewLine == 3

Cells(n) == (0 .. n - 1) \X (0 .. n - 1)
\* Everything but the files goes by the cells above the diagonal.
Upper(n) == {c \in Cells(n) : c[1] < c[2]}

NoFile == [size |-> 0, text |-> << >>]

\* PrintGraph and PrintGraphNew: a space after each digit.
PrintedWidthNoNewLine(n) == 2 * n  \* mutant
PrintedWidth(n) == 2 * n + 1
PrintGraph(g) ==
    LET width == PrintedWidth(g.n)
        At(i, c) == IF c = 2 * g.n THEN NewLine
                    ELSE IF c % 2 = 1 THEN Space
                    ELSE g.at[<<i, c \div 2>>]
    IN  [size |-> g.n,
         text |-> [p \in 1 .. g.n * width |-> At((p - 1) \div width, (p - 1) % width)]]

\* fgets: up to the end of the line, of the buffer or of the file.
LineEnd(text, first) ==
    Min({first + LineBuffer - 2, Len(text)}
           \union {p \in first .. Len(text) : text[p] = NewLine})

\* Where the call of fgets for each row begins.
LineStarts(file) ==
    LET start[i \in 0 .. file.size] ==
            IF i = 0 THEN 1 ELSE LineEnd(file.text, start[i - 1]) + 1
    IN  start

Readable(file) ==
    /\ file.size \in 1 .. MAXSIZE
    /\ \A i \in 0 .. file.size - 1 : LineStarts(file)[i] <= Len(file.text)

\* The digits of a line in order; what is missing stays 0.  When a line begins with
\* a space, sscanf skips it but curr does not, and the first digit is read twice.
Digit(text, first, j) ==
    LET Digits(last) == {p \in first .. last : text[p] \in Color}
        nth == (IF text[first] = Space /\ j > 0 THEN j - 1 ELSE j) + 1
        found == {p \in Digits(LineEnd(text, first)) : Cardinality(Digits(p)) = nth}
    IN  IF found = {} THEN 0 ELSE text[Min(found)]

ReadGraph(file) ==
    [n |-> file.size,
     at |-> [c \in Cells(file.size) |-> Digit(file.text, LineStarts(file)[c[1]], c[2])]]

\* A new last column, and the same values as a new last row.
CopyGraph(g, column) ==
    [n |-> g.n + 1,
     at |-> [c \in Cells(g.n + 1) |->
                IF c[2] = g.n THEN column[c[1]]
                ELSE IF c[1] = g.n THEN column[c[2]]
                ELSE g.at[c]]]

Flipped(g, c) == IF c \in Cells(g.n) THEN [g EXCEPT !.at[c] = 1 - @] ELSE g

\* compare_graph: at most two edges differ.
Differences(g, h) == {c \in Upper(g.n) : g.at[c] # h.at[c]}
Near(g, h) == Cardinality(Differences(g, h)) <= 2
compare_graphAnyway(g, file) ==  \* mutant
    file.size = g.n /\ Near(g, ReadGraph(file))
compare_graph(g, file) ==
    Readable(file) /\ file.size = g.n /\ Near(g, ReadGraph(file))
=============================================================================
