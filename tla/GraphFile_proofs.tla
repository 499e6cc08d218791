-------------------------- MODULE GraphFile_proofs --------------------------
(***************************************************************************)
(* What PrintGraph writes, ReadGraph reads, as long as a row fits into the *)
(* buffer of fgets.                                                        *)
(***************************************************************************)
EXTENDS GraphFile, FiniteSetTheorems, TLAPS

-----------------------------------------------------------------------------
(* Quotients and remainders *)

\* A number has one quotient and one remainder.
LEMMA Division ==
    ASSUME NEW b \in Nat \ {0}, NEW p \in Nat, NEW q \in Nat,
           NEW r \in 0 .. b - 1, NEW t \in 0 .. b - 1,
           p * b + r = q * b + t
    PROVE  p = q /\ r = t
<1>1. ASSUME NEW m \in Nat, NEW n \in Nat, m < n PROVE m * b + b <= n * b
  <2>1. PICK d \in Nat : n = m + 1 + d
    <3>1. n - m - 1 \in Nat /\ n = m + 1 + (n - m - 1)
      BY <1>1
    <3> QED
      BY <3>1
  <2>2. n * b = m * b + b + d * b
    BY <2>1
  <2>3. d * b \in Nat /\ m * b \in Nat
    OBVIOUS
  <2> QED
    BY <2>2, <2>3
<1>2. ~(p < q)
  BY <1>1
<1>3. ~(q < p)
  BY <1>1
<1>4. p = q
  BY <1>2, <1>3
<1> QED
  BY <1>4

\* Rows of w numbers follow each other.
LEMMA Rows ==
    ASSUME NEW w \in Nat, NEW i \in Nat, NEW n \in Nat, i < n
    PROVE  /\ i * w \in Nat /\ n * w \in Nat
           /\ (i + 1) * w = i * w + w
           /\ i * w + w <= n * w
<1>1. PICK d \in Nat : n = i + 1 + d
  <2>1. n - i - 1 \in Nat /\ n = i + 1 + (n - i - 1)
    OBVIOUS
  <2> QED
    BY <2>1
<1>2. n * w = i * w + w + d * w
  BY <1>1
<1>3. d * w \in Nat /\ i * w \in Nat /\ n * w \in Nat
  OBVIOUS
<1>4. (i + 1) * w = i * w + w
  OBVIOUS
<1> QED
  BY <1>2, <1>3, <1>4

\* The operators return a quotient and a remainder.
LEMMA DivModType ==
    ASSUME NEW w \in Nat \ {0}, NEW b \in Nat
    PROVE  /\ b \div w \in Nat /\ b % w \in 0 .. w - 1
           /\ b = w * (b \div w) + (b % w)
OBVIOUS

\* They return the ones a number was put together from.
LEMMA DivMod ==
    ASSUME NEW w \in Nat \ {0}, NEW i \in Nat, NEW c \in 0 .. w - 1
    PROVE  (i * w + c) \div w = i /\ (i * w + c) % w = c
<1> DEFINE a == i * w + c
<1>1. a \in Nat
  OBVIOUS
<1> HIDE DEF a
<1>2. /\ a \div w \in Nat /\ a % w \in 0 .. w - 1
      /\ a = w * (a \div w) + (a % w)
  BY <1>1, DivModType
<1>3. \A p, r : /\ p \in Nat /\ r \in 0 .. w - 1 /\ a = w * p + r
                => p = i /\ r = c
  <2> SUFFICES ASSUME NEW p \in Nat, NEW r \in 0 .. w - 1, a = w * p + r
               PROVE  p = i /\ r = c
    OBVIOUS
  <2>1. p * w + r = i * w + c
    <3>1. p * w = w * p
      OBVIOUS
    <3> QED
      BY <3>1 DEF a
  <2> QED
    BY <2>1, Division
<1>4. a \div w = i /\ a % w = c
  BY <1>2, <1>3
<1> QED
  BY <1>4 DEF a

-----------------------------------------------------------------------------
(* The text and its rows *)

IsGraph(h) == h.n \in Nat /\ h \in [n : {h.n}, at : [Cells(h.n) -> Color]]

\* A row, its line end and the zero byte are in the buffer (graph.c:79, 123).
RowsFit(h) == h.n \in 1 .. MAXSIZE /\ 2 * h.n + 2 <= LineBuffer

\* The one least element of a set of numbers.
LEMMA MinIs ==
    ASSUME NEW S \in SUBSET Int, NEW m \in S, \A y \in S : m <= y
    PROVE  Min(S) = m
<1>1. \E x \in S : \A y \in S : x <= y
  OBVIOUS
<1>2. Min(S) \in S /\ \A y \in S : Min(S) <= y
  BY <1>1 DEF Min
<1>3. Min(S) \in Int /\ m \in Int /\ Min(S) <= m /\ m <= Min(S)
  BY <1>2
<1> QED
  BY <1>3

\* The text of PrintGraph: position c of row i.
LEMMA Printed ==
    ASSUME NEW h, IsGraph(h), h.n > 0
    PROVE  /\ PrintGraph(h).size = h.n
           /\ PrintGraph(h).text \in [1 .. h.n * (2 * h.n + 1) -> 0 .. 3]
           /\ Len(PrintGraph(h).text) = h.n * (2 * h.n + 1)
           /\ \A i \in 0 .. h.n - 1, c \in 0 .. 2 * h.n :
                 /\ i * (2 * h.n + 1) + c + 1 \in 1 .. h.n * (2 * h.n + 1)
                 /\ PrintGraph(h).text[i * (2 * h.n + 1) + c + 1] =
                       IF c = 2 * h.n THEN NewLine
                       ELSE IF c % 2 = 1 THEN Space
                       ELSE h.at[<<i, c \div 2>>]
<1> DEFINE n == h.n
           w == 2 * h.n + 1
           At(i, c) == IF c = 2 * n THEN NewLine
                       ELSE IF c % 2 = 1 THEN Space
                       ELSE h.at[<<i, c \div 2>>]
           text == [p \in 1 .. n * w |-> At((p - 1) \div w, (p - 1) % w)]
<1>1. n \in Nat \ {0} /\ w \in Nat \ {0} /\ w = 2 * n + 1
  BY DEF IsGraph
<1>2. PrintGraph(h) = [size |-> n, text |-> text]
  BY DEF PrintGraph, PrintedWidth
<1>3. n * w \in Nat
  BY <1>1
<1> HIDE DEF n, w
<1>4. \A i \in 0 .. n - 1, c \in 0 .. w - 1 :
         /\ i * w + c \in 0 .. n * w - 1
         /\ (i * w + c) \div w = i /\ (i * w + c) % w = c
  <2> SUFFICES ASSUME NEW i \in 0 .. n - 1, NEW c \in 0 .. w - 1
               PROVE  /\ i * w + c \in 0 .. n * w - 1
                      /\ (i * w + c) \div w = i /\ (i * w + c) % w = c
    OBVIOUS
  <2>1. i * w \in Nat /\ i * w + w <= n * w
    BY <1>1, Rows
  <2>2. i * w + c \in 0 .. n * w - 1
    BY <1>1, <1>3, <2>1
  <2>3. (i * w + c) \div w = i /\ (i * w + c) % w = c
    BY <1>1, DivMod
  <2> QED
    BY <2>2, <2>3
<1>5. \A i \in 0 .. n - 1, c \in 0 .. w - 1 : At(i, c) \in 0 .. 3
  <2> SUFFICES ASSUME NEW i \in 0 .. n - 1, NEW c \in 0 .. w - 1
               PROVE  At(i, c) \in 0 .. 3
    OBVIOUS
  <2>1. ASSUME c # 2 * n PROVE h.at[<<i, c \div 2>>] \in Color
    <3>1. c \div 2 \in 0 .. n - 1
      BY <1>1, <2>1
    <3>2. <<i, c \div 2>> \in Cells(n)
      BY <3>1 DEF Cells
    <3> QED
      BY <3>2 DEF n, IsGraph
  <2> QED
    BY <2>1 DEF NewLine, Space, Color
<1>6. \A p \in 1 .. n * w : /\ (p - 1) \div w \in 0 .. n - 1
                            /\ (p - 1) % w \in 0 .. w - 1
  <2> SUFFICES ASSUME NEW a \in 0 .. n * w - 1
               PROVE  a \div w \in 0 .. n - 1 /\ a % w \in 0 .. w - 1
    BY <1>3
  <2>0. a \in Nat
    BY <1>3
  <2>1. a \div w \in Nat /\ a % w \in 0 .. w - 1 /\ a = w * (a \div w) + (a % w)
    BY <1>1, <2>0, DivModType
  <2>3. ASSUME NEW q \in Nat, NEW r \in 0 .. w - 1, a = w * q + r
        PROVE  q < n
    <3> SUFFICES ASSUME n <= q PROVE FALSE
      BY <1>1
    <3>1. n * w <= q * w
      <4>1. CASE n = q
        BY <1>1, <1>3, <4>1
      <4>2. CASE n < q
        BY <1>1, <1>3, <4>2, Rows
      <4> QED
        BY <1>1, <4>1, <4>2
    <3>2. w * q = q * w /\ q * w \in Nat
      BY <1>1
    <3> QED
      BY <1>1, <1>3, <2>3, <3>1, <3>2
  <2> QED
    BY <1>1, <2>1, <2>3
<1>7. text \in [1 .. n * w -> 0 .. 3]
  BY <1>5, <1>6
<1> HIDE DEF At
<1>8. Len(text) = n * w
  <2> HIDE DEF text
  <2>1. ASSUME NEW m \in Nat, text \in [1 .. m -> 0 .. 3]
        PROVE  Len(text) = m
    BY <2>1
  <2> QED
    BY <1>3, <1>7, <2>1
<1>9. \A i \in 0 .. n - 1, c \in 0 .. 2 * n :
         i * w + c + 1 \in 1 .. n * w /\ text[i * w + c + 1] = At(i, c)
  <2> SUFFICES ASSUME NEW i \in 0 .. n - 1, NEW c \in 0 .. 2 * n
               PROVE  i * w + c + 1 \in 1 .. n * w /\ text[i * w + c + 1] = At(i, c)
    OBVIOUS
  <2>0. c \in 0 .. w - 1
    BY <1>1
  <2>1. PICK a : a = i * w + c
    OBVIOUS
  <2>2. a \in 0 .. n * w - 1 /\ a \div w = i /\ a % w = c
    BY <1>4, <2>0, <2>1
  <2>3. a + 1 \in 1 .. n * w /\ (a + 1) - 1 = a
    BY <1>3, <2>2
  <2>4. text[a + 1] = At(i, c)
    BY <2>2, <2>3
  <2> QED
    BY <2>1, <2>3, <2>4
<1>10. PrintGraph(h).size = n /\ PrintGraph(h).text = text
  BY <1>2
<1> HIDE DEF text
<1> QED
  BY <1>7, <1>8, <1>9, <1>10 DEF n, w, At

\* fgets reads a row up to its line end.
LEMMA RowEnd ==
    ASSUME NEW h, IsGraph(h), RowsFit(h), NEW i \in 0 .. h.n - 1
    PROVE  LineEnd(PrintGraph(h).text, i * (2 * h.n + 1) + 1)
              = i * (2 * h.n + 1) + (2 * h.n + 1)
<1> DEFINE n == h.n
           w == 2 * h.n + 1
           text == PrintGraph(h).text
<1>1. /\ n \in Nat \ {0} /\ w \in Nat \ {0} /\ w = 2 * n + 1
      /\ LineBuffer \in Nat /\ w < LineBuffer
  BY FileAssumption DEF IsGraph, RowsFit
<1> HIDE DEF n, w, text
<1>2. /\ Len(text) = n * w
      /\ \A c \in 0 .. 2 * n : i * w + c + 1 \in 1 .. n * w
      /\ \A c \in 0 .. 2 * n - 1 : text[i * w + c + 1] # NewLine
      /\ text[i * w + 2 * n + 1] = NewLine
  <2> DEFINE At(c) == IF c = 2 * n THEN NewLine
                      ELSE IF c % 2 = 1 THEN Space
                      ELSE h.at[<<i, c \div 2>>]
  <2>1. /\ Len(text) = n * w
        /\ \A c \in 0 .. 2 * n : /\ i * w + c + 1 \in 1 .. n * w
                                /\ text[i * w + c + 1] = At(c)
    <3>1. h.n > 0
      BY <1>1 DEF n
    <3> QED
      BY <3>1, Printed DEF n, w, text
  <2>2. ASSUME NEW c \in 0 .. 2 * n - 1 PROVE At(c) # NewLine
    <3>1. <<i, c \div 2>> \in Cells(n)
      BY <1>1 DEF Cells, n
    <3>2. h.at[<<i, c \div 2>>] \in Color
      BY <3>1 DEF IsGraph, n
    <3> QED
      BY <1>1, <3>2 DEF NewLine, Space, Color
  <2>3. \A c \in 0 .. 2 * n - 1 : c \in 0 .. 2 * n
    BY <1>1
  <2>4. 2 * n \in 0 .. 2 * n /\ At(2 * n) = NewLine
    BY <1>1
  <2> HIDE DEF At
  <2>5. \A c \in 0 .. 2 * n - 1 : text[i * w + c + 1] # NewLine
    BY <2>1, <2>2, <2>3
  <2>6. text[i * w + 2 * n + 1] = NewLine
    BY <2>1, <2>4
  <2> QED
    BY <2>1, <2>5, <2>6
<1>3. PICK b : b = i * w
  OBVIOUS
<1>4. b \in Nat /\ n * w \in Nat /\ b + w <= n * w
  <2>1. i \in Nat /\ i < n
    BY <1>1 DEF n
  <2> QED
    BY <1>1, <1>3, <2>1, Rows
<1>5. PICK m : m = n * w
  OBVIOUS
<1> DEFINE ends == {p \in b + 1 .. m : text[p] = NewLine}
           last == b + LineBuffer - 1
<1>6. \A p \in ends : b + w <= p
  <2> SUFFICES ASSUME NEW p \in b + 1 .. m, p < b + w
               PROVE  text[p] # NewLine
    BY <1>1, <1>4, <1>5
  <2>1. p - b - 1 \in 0 .. 2 * n - 1 /\ b + (p - b - 1) + 1 = p
    BY <1>1, <1>4, <1>5
  <2> QED
    BY <1>2, <1>3, <2>1
<1>7. b + w \in ends
  BY <1>1, <1>2, <1>3, <1>4, <1>5
<1>8. b + w <= last /\ last \in Int
  BY <1>1, <1>4
<1>9. Min({last, m} \union ends) = b + w
  <2> DEFINE S == {last, m} \union ends
  <2>1. S \in SUBSET Int /\ b + w \in S /\ \A y \in S : b + w <= y
    BY <1>4, <1>5, <1>6, <1>7, <1>8
  <2> HIDE DEF S
  <2>2. Min(S) = b + w
    BY <2>1, MinIs
  <2> QED
    BY <2>2 DEF S
<1>10. LineEnd(text, b + 1) = Min({last, m} \union ends)
  <2>1. (b + 1) + LineBuffer - 2 = last
    BY <1>1, <1>4
  <2> QED
    BY <1>2, <1>5, <2>1 DEF LineEnd
<1> QED
  BY <1>3, <1>9, <1>10 DEF w, text

\* The lines start where the rows do.
LEMMA RowStarts ==
    ASSUME NEW h, IsGraph(h), RowsFit(h)
    PROVE  \A i \in 0 .. h.n : LineStarts(PrintGraph(h))[i] = i * (2 * h.n + 1) + 1
<1> DEFINE n == h.n
           w == 2 * h.n + 1
           text == PrintGraph(h).text
           Follows(f) == f = [i \in 0 .. n |->
                                 IF i = 0 THEN 1 ELSE LineEnd(text, f[i - 1]) + 1]
           start == LineStarts(PrintGraph(h))
           rows == [i \in 0 .. n |-> i * w + 1]
<1>1. n \in Nat \ {0} /\ w \in Nat \ {0}
  BY DEF RowsFit
<1> HIDE DEF n, w, text
<1>2. \A i \in 1 .. n : LineEnd(text, (i - 1) * w + 1) + 1 = i * w + 1
  <2> SUFFICES ASSUME NEW i \in 1 .. n
               PROVE  LineEnd(text, (i - 1) * w + 1) + 1 = i * w + 1
    OBVIOUS
  <2>1. PICK j \in 0 .. n - 1 : i - 1 = j /\ i = j + 1
    BY <1>1
  <2>2. LineEnd(text, j * w + 1) = j * w + w
    BY RowEnd DEF n, w, text
  <2>3. (j + 1) * w = j * w + w
    <3>1. j \in Nat /\ j < n
      BY <1>1
    <3> QED
      BY <1>1, <3>1, Rows
  <2> QED
    BY <2>1, <2>2, <2>3
<1>3. PrintGraph(h).size = n
  BY <1>1, Printed DEF n
<1>4. start = CHOOSE f : Follows(f)
  BY <1>3 DEF LineStarts, text
<1> HIDE DEF start
<1>5. Follows(rows)
  <2>1. \A i \in 0 .. n : i # 0 => i \in 1 .. n /\ i - 1 \in 0 .. n
    BY <1>1
  <2>2. 0 * w + 1 = 1
    BY <1>1
  <2> QED
    BY <1>2, <2>1, <2>2
<1>6. Follows(start)
  <2> HIDE DEF Follows
  <2> QED
    BY <1>4, <1>5
<1> DEFINE wrong == {i \in 0 .. n : start[i] # i * w + 1}
<1>7. wrong = {}
  <2> SUFFICES ASSUME wrong # {} PROVE FALSE
    OBVIOUS
  <2>1. PICK i \in wrong : \A j \in wrong : ~(<<j, i>> \in OpToRel(<, Nat))
    <3>1. wrong \subseteq Nat
      BY <1>1
    <3> HIDE DEF wrong
    <3> QED
      BY <3>1, NatLessThanWellFounded, WFMin
  <2>2. i # 0
    BY <1>1, <1>6
  <2>3. i - 1 \in 0 .. n /\ i \in 1 .. n /\ i - 1 < i
    BY <1>1, <2>2
  <2>4. i - 1 \notin wrong
    <3>1. i - 1 \in Nat /\ i \in Nat
      BY <1>1, <2>3
    <3>2. <<i - 1, i>> \in OpToRel(<, Nat)
      BY <2>3, <3>1 DEF OpToRel
    <3> QED
      BY <2>1, <3>2
  <2>5. start[i] = LineEnd(text, start[i - 1]) + 1
    BY <1>6, <2>2
  <2> QED
    BY <1>2, <2>3, <2>4, <2>5
<1> QED
  BY <1>7 DEF n, w, start

\* The digit of column j is the one of the matrix.
LEMMA DigitRead ==
    ASSUME NEW h, IsGraph(h), RowsFit(h), NEW i \in 0 .. h.n - 1, NEW j \in 0 .. h.n - 1
    PROVE  Digit(PrintGraph(h).text, i * (2 * h.n + 1) + 1, j) = h.at[<<i, j>>]
<1> DEFINE n == h.n
           w == 2 * h.n + 1
           text == PrintGraph(h).text
           At(c) == IF c = 2 * n THEN NewLine
                    ELSE IF c % 2 = 1 THEN Space
                    ELSE h.at[<<i, c \div 2>>]
<1>1. n \in Nat \ {0} /\ w = 2 * n + 1
  BY DEF IsGraph, RowsFit
<1>2. PICK b \in Nat : b = i * w
  BY <1>1
<1>3. \A c \in 0 .. 2 * n : text[b + c + 1] = At(c)
  <2>1. h.n > 0
    BY <1>1
  <2> QED
    BY <1>2, <2>1, Printed
<1>4. LineEnd(text, b + 1) = b + w
  BY <1>2, RowEnd
<1> HIDE DEF n, w, text, At
<1>5. \A c \in 0 .. 2 * n : At(c) \in Color <=> \E k \in 0 .. n - 1 : c = 2 * k
  <2> SUFFICES ASSUME NEW c \in 0 .. 2 * n
               PROVE  At(c) \in Color <=> \E k \in 0 .. n - 1 : c = 2 * k
    OBVIOUS
  <2>1. CASE c = 2 * n \/ c % 2 = 1
    <3>1. At(c) \notin Color
      BY <2>1 DEF At, NewLine, Space, Color
    <3>2. ~ \E k \in 0 .. n - 1 : c = 2 * k
      BY <1>1, <2>1
    <3> QED
      BY <3>1, <3>2
  <2>2. CASE c # 2 * n /\ c % 2 # 1
    <3>1. c \div 2 \in 0 .. n - 1 /\ c = 2 * (c \div 2)
      BY <1>1, <2>2
    <3>2. <<i, c \div 2>> \in Cells(n)
      BY <3>1 DEF Cells, n
    <3>3. h.at[<<i, c \div 2>>] \in Color
      BY <3>2 DEF IsGraph, n
    <3> QED
      BY <2>2, <3>1, <3>3 DEF At
  <2> QED
    BY <2>1, <2>2
<1> DEFINE Digits(end) == {p \in b + 1 .. end : text[p] \in Color}
<1>6. \A end \in b + 1 .. b + w :
         Digits(end) = {p \in b + 1 .. end : \E k \in 0 .. n - 1 : p = b + 2 * k + 1}
  <2> SUFFICES ASSUME NEW p \in b + 1 .. b + w
               PROVE  text[p] \in Color <=> \E k \in 0 .. n - 1 : p = b + 2 * k + 1
    BY <1>1, <1>2
  <2>1. PICK c \in 0 .. 2 * n : p = b + c + 1
    <3>1. p - b - 1 \in 0 .. 2 * n /\ p = b + (p - b - 1) + 1
      BY <1>1, <1>2
    <3> QED
      BY <3>1
  <2>2. \A k \in 0 .. n - 1 : c = 2 * k <=> p = b + 2 * k + 1
    BY <1>1, <1>2, <2>1
  <2> QED
    BY <1>3, <1>5, <2>1, <2>2
<1>7. ASSUME NEW k \in 0 .. n - 1
      PROVE  /\ b + 2 * k + 1 \in Digits(b + w)
             /\ Cardinality(Digits(b + 2 * k + 1)) = k + 1
  <2> DEFINE f == [m \in 0 .. k |-> b + 2 * m + 1]
             T == Digits(b + 2 * k + 1)
  <2>1. b + 2 * k + 1 \in b + 1 .. b + w /\ b + w \in b + 1 .. b + w
    BY <1>1, <1>2
  <2>2. T = {p \in b + 1 .. b + 2 * k + 1 : \E m \in 0 .. n - 1 : p = b + 2 * m + 1}
    BY <1>6, <2>1
  <2>3. b + 2 * k + 1 \in Digits(b + w)
    BY <1>6, <2>1
  <2>4. \A p : p \in T <=> \E m \in 0 .. k : p = b + 2 * m + 1
    <3> HIDE DEF T
    <3> QED
      BY <1>1, <1>2, <2>2
  <2>5. f \in Bijection(0 .. k, T)
    <3>1. f \in [0 .. k -> T]
      BY <2>4
    <3>2. IsInjective(f)
      BY <1>1, <1>2 DEF IsInjective
    <3>3. \A t \in T : \E m \in 0 .. k : f[m] = t
      BY <2>4
    <3> QED
      BY <3>1, <3>2, <3>3 DEF Bijection, Injection, Surjection
  <2>6. IsFiniteSet(0 .. k) /\ Cardinality(0 .. k) = k + 1
    BY FS_Interval
  <2>7. Cardinality(T) = k + 1
    <3> HIDE DEF T, f
    <3> QED
      BY <2>5, <2>6, FS_Bijection DEF ExistsBijection
  <2> QED
    BY <2>3, <2>7
<1> DEFINE found == {p \in Digits(b + w) : Cardinality(Digits(p)) = j + 1}
           place == b + 2 * j + 1
<1>8. found = {place}
  <2>1. place \in found
    BY <1>7 DEF n
  <2>2. ASSUME NEW p \in found PROVE p = place
    <3>1. b + w \in b + 1 .. b + w
      BY <1>1, <1>2
    <3>2. PICK k \in 0 .. n - 1 : p = b + 2 * k + 1
      BY <1>6, <2>2, <3>1
    <3>3. Cardinality(Digits(p)) = k + 1 /\ Cardinality(Digits(p)) = j + 1
      BY <1>7, <2>2, <3>2
    <3> HIDE DEF Digits
    <3>4. k = j
      BY <1>1, <3>3 DEF n
    <3> QED
      BY <3>2, <3>4
  <2> QED
    BY <2>1, <2>2
<1>9. Min(found) = place
  <2>1. place \in Int
    BY <1>1, <1>2 DEF n
  <2> HIDE DEF found, place
  <2>2. found \in SUBSET Int /\ place \in found /\ \A y \in found : place <= y
    BY <1>8, <2>1
  <2> QED
    BY <2>2, MinIs
<1>10. text[b + 1] # Space
  <2>1. text[b + 1] = At(0) /\ At(0) \in Color
    <3>1. 0 \in 0 .. 2 * n /\ 0 \in 0 .. n - 1 /\ 0 = 2 * 0 /\ b + 0 + 1 = b + 1
      BY <1>1, <1>2
    <3> QED
      BY <1>3, <1>5, <3>1
  <2> QED
    BY <2>1 DEF Color, Space
<1>11. Digit(text, b + 1, j) = text[place]
  <2>1. Digit(text, b + 1, j) = IF found = {} THEN 0 ELSE text[Min(found)]
    BY <1>4, <1>10 DEF Digit
  <2> HIDE DEF found, place
  <2> QED
    BY <1>8, <1>9, <2>1
<1>12. text[place] = h.at[<<i, j>>]
  <2>1. 2 * j \in 0 .. 2 * n /\ 2 * j # 2 * n /\ (2 * j) % 2 # 1 /\ (2 * j) \div 2 = j
    BY <1>1 DEF n
  <2> QED
    BY <1>3, <2>1 DEF At
<1> QED
  BY <1>2, <1>11, <1>12 DEF w, text

\* A graph that was printed is the graph that is read (graph.c:30-156).
THEOREM PrintedIsRead ==
    ASSUME NEW h, IsGraph(h), RowsFit(h)
    PROVE  /\ Readable(PrintGraph(h)) /\ PrintGraph(h).size = h.n
           /\ ReadGraph(PrintGraph(h)) = h
<1> DEFINE n == h.n
           w == 2 * h.n + 1
           file == PrintGraph(h)
           start == LineStarts(file)
<1>1. n \in 1 .. MAXSIZE /\ MAXSIZE \in Nat /\ w \in Nat /\ w > 0
  BY FileAssumption DEF RowsFit
<1>2. file.size = n /\ Len(file.text) = n * w
  BY <1>1, Printed
<1>3. \A i \in 0 .. n - 1 : start[i] = i * w + 1
  <2>1. \A i \in 0 .. n - 1 : i \in 0 .. n
    BY <1>1
  <2> QED
    BY <2>1, RowStarts
<1>4. \A i, j \in 0 .. n - 1 : Digit(file.text, i * w + 1, j) = h.at[<<i, j>>]
  BY DigitRead
<1>5. Readable(file)
  <2> HIDE DEF n, w, file
  <2>1. ASSUME NEW i \in 0 .. n - 1 PROVE i * w + 1 <= n * w
    <3>1. i \in Nat /\ n \in Nat /\ i < n
      BY <1>1
    <3>2. i * w \in Nat /\ n * w \in Nat /\ i * w + w <= n * w
      BY <1>1, <3>1, Rows
    <3>3. \A a, d \in Nat : a + w <= d => a + 1 <= d
      BY <1>1
    <3> QED
      BY <3>2, <3>3
  <2>2. \A i \in 0 .. n - 1 : start[i] <= Len(file.text)
    BY <1>2, <1>3, <2>1
  <2> QED
    BY <1>1, <1>2, <2>2 DEF Readable
<1>6. ReadGraph(file) = h
  <2> HIDE DEF n, w, file
  <2>1. \A c \in Cells(n) : Digit(file.text, LineStarts(file)[c[1]], c[2]) = h.at[c]
    <3> SUFFICES ASSUME NEW i \in 0 .. n - 1, NEW j \in 0 .. n - 1
                 PROVE  Digit(file.text, LineStarts(file)[i], j) = h.at[<<i, j>>]
      BY DEF Cells
    <3> QED
      BY <1>3, <1>4
  <2>2. h.at = [c \in Cells(n) |-> h.at[c]] /\ h = [n |-> n, at |-> h.at]
    BY DEF IsGraph, n
  <2> QED
    BY <1>2, <2>1, <2>2 DEF ReadGraph
<1> QED
  BY <1>2, <1>5, <1>6
=============================================================================
