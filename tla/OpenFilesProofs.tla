---------------------------- MODULE OpenFilesProofs ----------------------------
(***************************************************************************)
(* What holds of the open files, with blocks and files of any size: what   *)
(* _do_read returns, that the commands are those of FileBlocks, and where  *)
(* the pointers are.                                                       *)
(***************************************************************************)
EXTENDS OpenFiles, FileBlocksProofs

-----------------------------------------------------------------------------
(* _do_read                                                                *)

\* The c units of a file from position at on.
Cells(s, f, at, c) == [i \in 1..c |-> Cell(s, f, at + i - 1)]

LEMMA CellsAre ==
    ASSUME NEW s, NEW f, NEW at \in Nat, NEW c \in Nat,
           NEW S, \A j \in at..at + c - 1 : Cell(s, f, j) \in S
    PROVE  Cells(s, f, at, c) \in Seq(S) /\ Len(Cells(s, f, at, c)) = c
<1>1. \A i \in 1..c : at + i - 1 \in at..at + c - 1 OBVIOUS
<1>2. Cells(s, f, at, c) \in [1..c -> S] BY <1>1 DEF Cells
<1>3. Cells(s, f, at, c) \in Seq(S) BY <1>2, SeqDef
<1>4. DOMAIN Cells(s, f, at, c) = 1..c BY DEF Cells
<1>5. Len(Cells(s, f, at, c)) \in Nat /\ 1..Len(Cells(s, f, at, c)) = 1..c
  BY <1>3, <1>4, LenProperties
<1> QED BY <1>3, <1>5

\* What lies in one block: from slot lo to slot hi of the one behind q others.
Stretch(q, lo, hi, at, c) ==
    /\ q \in Nat /\ lo \in 1..B /\ hi \in 0..B
    /\ c = hi - lo + 1 /\ at = q * B + (lo - 1)
Part(g, lo, hi) == SubSeq(g, lo, hi)
Holds(g, s, f, q) == g = s.disk[GetBlocks(s, f)[q + 1]]
LEMMA CellsOfBlock ==
    ASSUME NEW s, NEW f, NEW q, NEW lo, NEW hi, NEW at, NEW c \in Nat,
           Stretch(q, lo, hi, at, c), NEW g, Holds(g, s, f, q)
    PROVE  Part(g, lo, hi) = Cells(s, f, at, c)
<1>1. q \in Nat /\ lo \in 1..B /\ hi \in 0..B /\ c = hi - lo + 1 /\ B \in Nat
  BY Bounds DEF Stretch
<1> DEFINE S == {g[i] : i \in lo..hi}
           p == SubSeq(g, lo, hi)
<1>2. \A i \in lo..hi : g[i] \in S OBVIOUS
<1> HIDE DEF S
<1>3. /\ p \in Seq(S)
      /\ Len(p) = IF lo <= hi THEN hi - lo + 1 ELSE 0
      /\ \A i \in 1..hi - lo + 1 : p[i] = g[lo + i - 1]
  BY <1>1, <1>2, SubSeqProperties
<1> HIDE DEF p
<1>4. Len(p) = c BY <1>1, <1>3
<1>5. p \in [1..c -> S] BY <1>3, <1>4, LenProperties
<1>6. ASSUME NEW i \in 1..c PROVE p[i] = Cell(s, f, at + i - 1)
  <2> DEFINE r == lo + i - 2
             j == at + i - 1
  <2>1. p[i] = g[lo + i - 1] BY <1>1, <1>3
  <2>2. r \in 0..B - 1 /\ lo + i - 1 = r + 1 BY <1>1
  <2>3. j = B * q + r
    <3>1. q * B = B * q /\ B * q \in Nat BY <1>1
    <3> QED BY <1>1, <3>1 DEF Stretch
  <2> HIDE DEF r, j
  <2>4. j \in Nat
    <3>1. B * q \in Nat BY <1>1
    <3> QED BY <2>2, <2>3, <3>1
  <2>5. j \div B = q /\ (j % B) = r BY <1>1, <2>2, <2>3, <2>4, Quotient
  <2>6. g[r + 1] = Cell(s, f, j) BY <2>5 DEF Cell, Holds
  <2> QED BY <2>1, <2>2, <2>6 DEF j
<1>7. p = [i \in 1..c |-> Cell(s, f, at + i - 1)] BY <1>5, <1>6
<1> QED BY <1>7 DEF Cells, Part, p

\* Reading on where a part ends.
IsSum(z, x, y) == z = x + y
Glued(g, h) == g \o h
LEMMA CellsMeet ==
    ASSUME NEW s, NEW f, NEW at \in Nat, NEW c \in Nat, NEW d \in Nat,
           NEW e, IsSum(e, at, c), NEW n, IsSum(n, c, d)
    PROVE  Glued(Cells(s, f, at, c), Cells(s, f, e, d)) = Cells(s, f, at, n)
<1>0. e = at + c /\ n = c + d /\ e \in Nat /\ n \in Nat BY DEF IsSum
<1> DEFINE S == {Cell(s, f, j) : j \in at..at + n}
           g == Cells(s, f, at, c)
           h == Cells(s, f, e, d)
           w == g \o h
<1>1. \A j \in at..at + n : Cell(s, f, j) \in S OBVIOUS
<1> HIDE DEF S
<1>2. g \in Seq(S) /\ Len(g) = c
  <2>1. \A j \in at..at + c - 1 : Cell(s, f, j) \in S BY <1>0, <1>1
  <2> QED BY <2>1, CellsAre
<1>3. h \in Seq(S) /\ Len(h) = d
  <2>1. \A j \in e..e + d - 1 : Cell(s, f, j) \in S BY <1>0, <1>1
  <2> QED BY <1>0, <2>1, CellsAre
<1> HIDE DEF g, h, w
<1>4. /\ w \in Seq(S) /\ Len(w) = n
      /\ \A i \in 1..n : w[i] = IF i <= c THEN g[i] ELSE h[i - c]
  BY <1>0, <1>2, <1>3, ConcatProperties DEF w
<1>5. w \in [1..n -> S] BY <1>4, LenProperties
<1>6. ASSUME NEW i \in 1..n PROVE w[i] = Cell(s, f, at + i - 1)
  <2>1. CASE i <= c BY <1>0, <1>4, <2>1 DEF Cells, g
  <2>2. CASE ~(i <= c)
    <3>1. i - c \in 1..d /\ e + (i - c) - 1 = at + i - 1 BY <1>0, <2>2
    <3>2. h[i - c] = Cell(s, f, e + (i - c) - 1) BY <3>1 DEF Cells, h
    <3> QED BY <1>4, <2>2, <3>1, <3>2
  <2> QED BY <2>1, <2>2
<1>7. w = [i \in 1..n |-> Cell(s, f, at + i - 1)] BY <1>5, <1>6
<1> QED BY <1>7 DEF Cells, Glued, g, h, w

\* The loop over the blocks behind the first part.
Onto(s, b, size, sofar) == sofar \o SubSeq(s.disk[b], 1, Least(size - Len(sofar), B))
Reading(g, s, blocks, size, part, first, last) ==
    g = [i \in first..last |-> IF i = first THEN part ELSE Onto(s, blocks[i], size, g[i - 1])]
LEMMA ReadingExists ==
    ASSUME NEW first \in Nat, NEW last \in Nat, first <= last,
           NEW s, NEW blocks, NEW size, NEW part
    PROVE  \E g : Reading(g, s, blocks, size, part, first, last)
<1> DEFINE T == {k \in 0..last - first : \E g : Reading(g, s, blocks, size, part, first, first + k)}
           m == last - first
<1>0. m \in Nat OBVIOUS
<1>1. 0 \in T
  <2> DEFINE g == [i \in first..first + 0 |-> part]
  <2>1. \A i \in first..first + 0 : i = first OBVIOUS
  <2>2. Reading(g, s, blocks, size, part, first, first + 0) BY <2>1 DEF Reading
  <2> HIDE DEF g
  <2> QED BY <1>0, <2>2
<1>2. ASSUME NEW k \in 1..m, k - 1 \in T PROVE k \in T
  <2>1. PICK h : Reading(h, s, blocks, size, part, first, first + (k - 1)) BY <1>2
  <2> PICK n \in Nat : n = first + k BY <1>0
  <2>2. first + (k - 1) = n - 1 /\ n > first BY <1>0
  <2> DEFINE g == [i \in first..n |-> IF i < n THEN h[i] ELSE Onto(s, blocks[n], size, h[n - 1])]
  <2>3. ASSUME NEW i \in first..n
        PROVE g[i] = IF i = first THEN part ELSE Onto(s, blocks[i], size, g[i - 1])
    <3>1. CASE i = n BY <2>2, <3>1
    <3>2. CASE i < n /\ i = first
      <4>1. i \in first..n - 1 BY <3>2
      <4>2. h[i] = part BY <2>1, <2>2, <3>2, <4>1 DEF Reading
      <4>3. g[i] = h[i] BY <3>2
      <4> QED BY <3>2, <4>2, <4>3
    <3>3. CASE i < n /\ i # first
      <4>1. i \in first..n - 1 /\ i - 1 \in first..n /\ i - 1 < n BY <3>3
      <4>2. h[i] = Onto(s, blocks[i], size, h[i - 1]) BY <2>1, <2>2, <3>3, <4>1 DEF Reading
      <4>3. g[i] = h[i] /\ g[i - 1] = h[i - 1] BY <3>3, <4>1
      <4> QED BY <3>3, <4>2, <4>3
    <3> QED BY <3>1, <3>2, <3>3
  <2>4. g = [i \in first..n |-> g[i]] OBVIOUS
  <2> HIDE DEF g
  <2>5. Reading(g, s, blocks, size, part, first, n) BY <2>3, <2>4 DEF Reading
  <2>6. k \in 0..m BY <1>0
  <2> QED BY <2>5, <2>6
<1>3. m \in T
  <2> HIDE DEF T, m
  <2>1. 0..m \subseteq T BY <1>0, <1>1, <1>2, Upwards
  <2> QED BY <1>0, <2>1
<1>4. first + m = last OBVIOUS
<1> QED BY <1>3, <1>4

LEMMA InBlocks ==
    ASSUME NEW x \in Nat, NEW y \in Nat
    PROVE  (B * x <= B * y => x <= y) /\ (B * x < B * y => x + 1 <= y)
<1>1. B \in Nat /\ B > 0 BY Bounds
<1>2. ASSUME y <= x PROVE B * y <= B * x BY <1>1, <1>2
<1>3. ASSUME y + 1 <= x PROVE B * y + B <= B * x
  <2>1. B * (y + 1) <= B * x BY <1>1, <1>3
  <2> QED BY <1>1, <2>1
<1>4. B * x \in Nat /\ B * y \in Nat BY <1>1
<1> QED BY <1>1, <1>2, <1>3, <1>4

LEMMA NoCells ==
    ASSUME NEW s, NEW f, NEW at, NEW g
    PROVE  Cells(s, f, at, 0) = <<>> /\ SubSeq(g, 1, 0) = <<>>
<1>1. 1..0 = {} OBVIOUS
<1>2. Cells(s, f, at, 0) = <<>> BY <1>1 DEF Cells
<1>3. SubSeq(g, 1, 0) = <<>> BY SubSeqEmpty
<1> QED BY <1>2, <1>3

\* One turn of the loop.
IsNext(b, s, f, q) == b = GetBlocks(s, f)[q + 1]
Reach(at, size, k) == Least(size, k * B - at)
LEMMA OneTurnAdds ==
    ASSUME NEW s, NEW f, NEW at \in Nat, NEW c \in Nat,
           NEW b, NEW size, NEW d, Least(size - c, B) = d
    PROVE  Onto(s, b, size, Cells(s, f, at, c)) = Glued(Cells(s, f, at, c), SubSeq(s.disk[b], 1, d))
<1>1. Len(Cells(s, f, at, c)) = c
  <2> DEFINE S == {Cell(s, f, j) : j \in at..at + c - 1}
  <2>1. \A j \in at..at + c - 1 : Cell(s, f, j) \in S OBVIOUS
  <2> HIDE DEF S
  <2> QED BY <2>1, CellsAre
<1> QED BY <1>1 DEF Onto, Glued

\* c units are there, and the next block brings d more.
Brings(at, size, q, k, c, d, e, n) ==
    /\ c = Reach(at, size, q) /\ n = Reach(at, size, k)
    /\ d = Least(size - c, B) /\ IsSum(e, at, c) /\ IsSum(n, c, d)
    /\ d <= B /\ (d = 0 \/ e = q * B)
LEMMA NextBrings ==
    ASSUME NEW at \in Nat, NEW size \in Nat, NEW q \in Nat, at <= q * B,
           NEW k, IsSum(k, q, 1)
    PROVE  \E c \in Nat, d \in Nat, e \in Nat, n \in Nat : Brings(at, size, q, k, c, d, e, n)
<1> DEFINE c == Reach(at, size, q)
           d == Least(size - c, B)
           y == q * B
           e == at + c
           n == Reach(at, size, k)
<1>0. B \in Nat /\ B > 0 BY Bounds
<1>1. y \in Nat /\ k * B = y + B BY <1>0 DEF IsSum
<1>2. n = IF size < k * B - at THEN size ELSE k * B - at BY DEF Reach, Least
<1>3. c = IF size < y - at THEN size ELSE y - at BY DEF Reach, Least
<1>4. d = IF size - c < B THEN size - c ELSE B BY DEF Least
<1>5. at <= y /\ y = q * B /\ e = at + c OBVIOUS
<1>6. d = Least(size - c, B) /\ c = Reach(at, size, q) /\ n = Reach(at, size, k) OBVIOUS
<1> HIDE DEF c, d, y, e, n
<1>7. c \in Nat /\ c <= size /\ d \in Nat /\ d <= B BY <1>0, <1>1, <1>3, <1>4, <1>5
<1>8. n = c + d BY <1>0, <1>1, <1>2, <1>3, <1>4, <1>5
<1>9. d = 0 \/ e = y BY <1>0, <1>1, <1>3, <1>4, <1>5
<1>10. e \in Nat /\ n \in Nat BY <1>5, <1>7, <1>8
<1>11. IsSum(e, at, c) /\ IsSum(n, c, d) BY <1>5, <1>8 DEF IsSum
<1>12. Brings(at, size, q, k, c, d, e, n) BY <1>5, <1>6, <1>7, <1>9, <1>11 DEF Brings
<1> QED BY <1>7, <1>10, <1>12

LEMMA OneTurn ==
    ASSUME NEW s, NEW f, NEW at \in Nat, NEW size \in Nat, NEW q \in Nat, at <= q * B,
           NEW k, IsSum(k, q, 1), NEW b, IsNext(b, s, f, q)
    PROVE  Onto(s, b, size, Cells(s, f, at, Reach(at, size, q)))
             = Cells(s, f, at, Reach(at, size, k))
<1> PICK c \in Nat, d \in Nat, e \in Nat, n \in Nat : Brings(at, size, q, k, c, d, e, n)
  BY NextBrings
<1> DEFINE g == s.disk[b]
<1>1. Holds(g, s, f, q) BY DEF Holds, IsNext
<1>2. IsSum(e, at, c) /\ IsSum(n, c, d) BY DEF Brings
<1> HIDE DEF g
<1>3. SubSeq(g, 1, d) = Cells(s, f, e, d)
  <2>1. CASE d = 0 BY <2>1, NoCells
  <2>2. CASE d # 0
    <3>1. Stretch(q, 1, d, e, d) BY Bounds, <2>2 DEF Stretch, Brings
    <3>2. Part(g, 1, d) = Cells(s, f, e, d) BY <1>1, <3>1, CellsOfBlock
    <3> QED BY <3>2 DEF Part
  <2> QED BY <2>1, <2>2
<1>4. Onto(s, b, size, Cells(s, f, at, c)) = Glued(Cells(s, f, at, c), SubSeq(g, 1, d))
  <2>1. Least(size - c, B) = d BY DEF Brings
  <2>2. Onto(s, b, size, Cells(s, f, at, c)) = Glued(Cells(s, f, at, c), SubSeq(s.disk[b], 1, d))
    BY <2>1, OneTurnAdds
  <2> QED BY <2>2 DEF g
<1>5. Glued(Cells(s, f, at, c), Cells(s, f, e, d)) = Cells(s, f, at, n) BY <1>2, CellsMeet
<1>6. Onto(s, b, size, Cells(s, f, at, c)) = Cells(s, f, at, n) BY <1>3, <1>4, <1>5, Zenon
<1>7. c = Reach(at, size, q) /\ n = Reach(at, size, k) BY DEF Brings
<1> QED BY <1>6, <1>7, Zenon

\* The whole loop, when the first part is what it should be.
LEMMA LoopReads ==
    ASSUME NEW s, NEW f, NEW at \in Nat, NEW size \in Nat,
           NEW first \in Nat, NEW last \in Nat, first <= last, at <= first * B,
           NEW blocks, blocks = GetBlocks(s, f), NEW part,
           part = Cells(s, f, at, Reach(at, size, first)),
           NEW buf, Reading(buf, s, blocks, size, part, first, last)
    PROVE  buf[last] = Cells(s, f, at, Reach(at, size, last))
<1> DEFINE m == last - first
           T == {k \in 0..m : buf[first + k] = Cells(s, f, at, Reach(at, size, first + k))}
<1>0. m \in Nat /\ first + m = last OBVIOUS
<1>1. 0 \in T
  <2>1. first \in first..last /\ first + 0 = first OBVIOUS
  <2>2. buf[first] = part BY <2>1 DEF Reading
  <2> QED BY <1>0, <2>1, <2>2
<1>2. ASSUME NEW k \in 1..m, k - 1 \in T PROVE k \in T
  <2> DEFINE q == first + (k - 1)
  <2>1. /\ q + 1 \in first..last /\ q + 1 # first /\ q + 1 - 1 = q
        /\ q + 1 = first + k /\ q \in Nat /\ first <= q
    BY <1>0
  <2>2. buf[q] = Cells(s, f, at, Reach(at, size, q)) BY <1>2
  <2> HIDE DEF q
  <2>3. buf[q + 1] = Onto(s, blocks[q + 1], size, buf[q]) BY <2>1 DEF Reading
  <2>4. at <= q * B
    <3>1. B \in Nat BY Bounds
    <3>2. first * B <= q * B /\ first * B \in Nat /\ q * B \in Nat BY <2>1, <3>1
    <3> QED BY <3>2
  <2> DEFINE i == q + 1
  <2>5. IsSum(i, q, 1) BY DEF IsSum
  <2>6. buf[i] = Onto(s, blocks[i], size, buf[q]) BY <2>3
  <2>7. i = first + k BY <2>1
  <2> DEFINE b == blocks[i]
  <2>8. IsNext(b, s, f, q) BY DEF IsNext
  <2> HIDE DEF i, b, m
  <2>9. Onto(s, b, size, Cells(s, f, at, Reach(at, size, q))) = Cells(s, f, at, Reach(at, size, i))
    BY <2>1, <2>4, <2>5, <2>8, OneTurn
  <2>10. buf[i] = Cells(s, f, at, Reach(at, size, i)) BY <2>2, <2>6, <2>9 DEF b
  <2> QED BY <1>0, <2>7, <2>10
<1>3. m \in T
  <2> HIDE DEF T, m
  <2>1. 0..m \subseteq T BY <1>0, <1>1, <1>2, Upwards
  <2> QED BY <1>0, <2>1
<1> HIDE DEF m
<1> QED BY <1>0, <1>3

\* Where the loop begins, and what is there before.
FirstBlock(at) == IF at % B = 0 THEN at \div B ELSE (at \div B) + 1
FirstPart(s, f, at, size) ==
    IF at % B = 0 THEN <<>>
    ELSE SubSeq(s.disk[GetBlocks(s, f)[(at \div B) + 1]], (at % B) + 1,
                (at % B) + Least(size, B - (at % B)))

LEMMA FirstBlockIs ==
    ASSUME NEW at \in Nat, NEW length \in Nat, at <= length
    PROVE  /\ FirstBlock(at) \in Nat /\ at <= FirstBlock(at) * B
           /\ FirstBlock(at) <= CeilDiv(length, B)
<1>1. B \in Nat /\ B > 0 BY Bounds
<1> DEFINE index == at \div B
           frag == at % B
           last == CeilDiv(length, B)
<1>2. index \in Nat /\ frag \in 0..B - 1 /\ at = B * index + frag BY Division
<1>3. last \in Nat /\ length <= B * last BY Ceiling
<1>4. FirstBlock(at) = IF frag = 0 THEN index ELSE index + 1 BY DEF FirstBlock
<1> HIDE DEF index, frag, last
<1>5. CASE frag = 0
  <2>1. B * index <= B * last
    <3>1. B * index \in Nat /\ B * last \in Nat BY <1>1, <1>2, <1>3
    <3> QED BY <1>2, <1>3, <1>5, <3>1
  <2>2. index <= last BY <1>2, <1>3, <2>1, InBlocks
  <2>3. index * B = B * index /\ index * B \in Nat BY <1>1, <1>2
  <2> QED BY <1>2, <1>4, <1>5, <2>2, <2>3 DEF last
<1>6. CASE frag # 0
  <2>1. B * index < B * last
    <3>1. B * index \in Nat /\ B * last \in Nat BY <1>1, <1>2, <1>3
    <3> QED BY <1>2, <1>3, <1>6, <3>1
  <2>2. index + 1 <= last BY <1>2, <1>3, <2>1, InBlocks
  <2>3. (index + 1) * B = B * index + B /\ B * index \in Nat BY <1>1, <1>2
  <2>4. at <= (index + 1) * B BY <1>1, <1>2, <2>3
  <2>5. FirstBlock(at) = index + 1 BY <1>4, <1>6
  <2> QED BY <1>2, <2>2, <2>4, <2>5 DEF last
<1> QED BY <1>5, <1>6

LEMMA FirstPartReads ==
    ASSUME NEW s, NEW f, NEW at \in Nat, NEW size \in Nat
    PROVE  FirstPart(s, f, at, size) = Cells(s, f, at, Reach(at, size, FirstBlock(at)))
<1>1. B \in Nat /\ B > 0 BY Bounds
<1> DEFINE index == at \div B
           frag == at % B
<1>2. index \in Nat /\ frag \in 0..B - 1 /\ at = B * index + frag BY Division
<1>3. CASE frag = 0
  <2>1. FirstPart(s, f, at, size) = <<>> /\ FirstBlock(at) = index
    BY <1>3 DEF FirstPart, FirstBlock
  <2> HIDE DEF index, frag
  <2>2. index * B - at = 0
    <3>1. index * B = B * index /\ index * B \in Nat BY <1>1, <1>2
    <3> QED BY <1>2, <1>3, <3>1
  <2>3. Reach(at, size, index) = 0 BY <2>2 DEF Reach, Least
  <2> QED BY <2>1, <2>3, NoCells
<1>4. CASE frag # 0
  <2> DEFINE c == Least(size, B - frag)
             lo == frag + 1
             hi == frag + c
             g == s.disk[GetBlocks(s, f)[index + 1]]
  <2>1. FirstPart(s, f, at, size) = Part(g, lo, hi) /\ FirstBlock(at) = index + 1
    BY <1>4 DEF FirstPart, FirstBlock, Part
  <2>2. Holds(g, s, f, index) BY DEF Holds
  <2> HIDE DEF index, frag, g
  <2>3. c \in Nat /\ c <= B - frag BY <1>1, <1>2 DEF Least
  <2>4. Reach(at, size, index + 1) = c
    <3>1. (index + 1) * B = B * index + B /\ B * index \in Nat BY <1>1, <1>2
    <3>2. (index + 1) * B - at = B - frag BY <1>1, <1>2, <3>1
    <3> QED BY <3>2 DEF Reach
  <2> HIDE DEF c
  <2>5. Stretch(index, lo, hi, at, c)
    <3>1. index * B = B * index /\ B * index \in Nat BY <1>1, <1>2
    <3> QED BY <1>1, <1>2, <2>3, <3>1 DEF Stretch
  <2> HIDE DEF lo, hi
  <2>6. Part(g, lo, hi) = Cells(s, f, at, c) BY <2>2, <2>3, <2>5, CellsOfBlock
  <2> QED BY <2>1, <2>4, <2>6
<1> QED BY <1>3, <1>4

\* A read inside a file returns what is there, up to its end.
LEMMA DoReadIsLoop ==
    ASSUME NEW s, NEW f, NEW len, NEW at, NEW last, last = Len(GetBlocks(s, f)),
           NEW size, size = Least(len, s.fcb[f].length - at)
    PROVE  DoRead(s, f, len, at)
             = (CHOOSE g : Reading(g, s, GetBlocks(s, f), size, FirstPart(s, f, at, size),
                                   FirstBlock(at), last))[last]
BY DEF DoRead, Reading, Onto, FirstPart, FirstBlock

LEMMA ReadReturnsCells ==
    ASSUME NEW s, NEW f, s.fcb[f].length \in Nat,
           NEW len \in Nat, NEW at \in 0..s.fcb[f].length
    PROVE  DoRead(s, f, len, at) = Cells(s, f, at, Least(len, s.fcb[f].length - at))
<1> DEFINE length == s.fcb[f].length
           last == CeilDiv(length, B)
           size == Least(len, length - at)
           first == FirstBlock(at)
           part == FirstPart(s, f, at, size)
           blocks == GetBlocks(s, f)
           buf == CHOOSE g : Reading(g, s, blocks, size, part, first, last)
<1>1. length \in Nat /\ at \in Nat /\ at <= length OBVIOUS
<1>2. Len(blocks) = last
  <2>1. BlockCount(s, f) = last BY DEF BlockCount
  <2>2. last \in Nat BY <1>1, Ceiling
  <2> HIDE DEF last
  <2>3. blocks = [k \in 1..last |-> DataAt(s, f, k)] BY <2>1, GetBlocksAre
  <2> HIDE DEF blocks
  <2> QED BY <2>2, <2>3
<1>3. DoRead(s, f, len, at) = buf[last] BY <1>2, DoReadIsLoop
<1>4. last \in Nat /\ length <= B * last BY <1>1, Ceiling
<1>5. first \in Nat /\ at <= first * B /\ first <= last BY <1>1, FirstBlockIs
<1>6. size \in Nat /\ size <= length - at BY <1>1 DEF Least
<1>7. part = Cells(s, f, at, Reach(at, size, first)) BY <1>1, <1>6, FirstPartReads
<1>8. Reach(at, size, last) = size
  <2> HIDE DEF last, size, length
  <2>1. last * B = B * last /\ B * last \in Nat BY <1>4, Bounds
  <2> QED BY <1>1, <1>4, <1>6, <2>1 DEF Reach, Least
<1>9. blocks = GetBlocks(s, f) OBVIOUS
<1> HIDE DEF length, last, size, first, part, blocks
<1>10. \E g : Reading(g, s, blocks, size, part, first, last) BY <1>4, <1>5, ReadingExists
<1>11. Reading(buf, s, blocks, size, part, first, last) BY <1>10
<1> HIDE DEF buf
<1>12. buf[last] = Cells(s, f, at, Reach(at, size, last))
  BY <1>1, <1>4, <1>5, <1>6, <1>7, <1>9, <1>11, LoopReads
<1> QED BY <1>3, <1>8, <1>12 DEF size, length

-----------------------------------------------------------------------------
(* The commands are those of FileBlocks                                    *)

LEMMA OpenStepIsStep ==
    ASSUME OpenNext
    PROVE  Next \/ UNCHANGED vars
<1>1. CASE Unnoticed(Create) \/ Unnoticed(CreateFails) BY <1>1 DEF Unnoticed, Next
<1>2. ASSUME NEW f \in Files, Open(f) \/ Close(f) PROVE UNCHANGED vars
  BY <1>2 DEF Open, Close, vars
<1>3. ASSUME NEW f \in Files, Rm(f) PROVE Next BY <1>3 DEF Rm, Next
<1>4. ASSUME NEW f \in Files, NEW n, NEW at, ReadFrom(f, n, at) PROVE UNCHANGED vars
  BY <1>4 DEF ReadFrom, vars
<1>5. ASSUME NEW f \in Files, NEW n \in Sizes, WriteA(f, n) \/ WriteT(f, n) \/ Unnoticed(Copy(f, n))
      PROVE  Next
  <2>1. WriteAppend(f, n) \/ Truncate(f, n) \/ Copy(f, n)
    BY <1>5 DEF WriteA, WriteT, Unnoticed
  <2> QED BY <2>1 DEF Next
<1>6. ASSUME NEW f \in Files, NEW at \in Positions, NEW n \in Sizes, WriteO(f, at, n)
      PROVE  Next
  BY <1>6 DEF WriteO, Next
<1> QED BY <1>1, <1>2, <1>3, <1>4, <1>5, <1>6 DEF OpenNext, ReadOn

\* The table of open files changes nothing about the files: whatever holds of the
\* image in FileBlocks holds of it here.
THEOREM OpenFilesAreFiles == OpenSpec => Spec
<1>1. OpenInit => Init BY DEF OpenInit
<1>2. [OpenNext]_openVars => [Next]_vars
  <2> SUFFICES ASSUME [OpenNext]_openVars PROVE [Next]_vars OBVIOUS
  <2>1. CASE OpenNext BY <2>1, OpenStepIsStep
  <2>2. CASE UNCHANGED openVars BY <2>2 DEF openVars, vars
  <2> QED BY <2>1, <2>2
<1> QED BY <1>1, <1>2, PTL DEF OpenSpec, Spec

\* No block serves two purposes, whatever is opened, read and written by pointer.
THEOREM OwnedOnceStays == ~Shrinking => (OpenSpec => []OwnedOnce)
BY OpenFilesAreFiles, OwnedOnceHolds, PTL

\* Opening, reading and closing lose no block, and a write by pointer loses one only
\* where a write at a position does.
THEOREM OpenFilesLose == ~Shrinking => (OpenSpec => OnlyTheseLose)
BY OpenFilesAreFiles, FewCommandsLose, PTL

LEMMA CellsHoldData ==
    ASSUME NEW s, NEW f, s.fcb[f].length \in Nat, HasData(s, f),
           NEW at \in Nat, NEW c \in Nat, at + c <= s.fcb[f].length
    PROVE  Cells(s, f, at, c) = Data(f, at, c)
<1>l. PICK len \in Nat : len = s.fcb[f].length OBVIOUS
<1>1. ASSUME NEW i \in 1..c PROVE Cell(s, f, at + i - 1) = <<"data", f, at + i - 1>>
  <2>1. at + i - 1 \in 0..len - 1 BY <1>l
  <2> QED BY <1>l, <2>1 DEF HasData
<1> QED BY <1>1 DEF Cells, Data

\* A read that starts anywhere inside a file that no write has damaged returns what
\* was written there, however much it asks for and however the file got its blocks.
THEOREM ReadsReturnData == ~Shrinking => (OpenSpec => []ReadsFileData)
<1>1. DataInv => ReadsFileData
  <2> SUFFICES ASSUME DataInv, Running, NEW f \in clean \ {Root}, NEW n \in ReadSizes,
                      NEW at \in 0..Length(f)
               PROVE  DoRead(fs, f, n, at) = Data(f, at, Least(n, Length(f) - at))
    BY DEF ReadsFileData
  <2>1. HasData(fs, f) BY DEF DataInv, FilesHold
  <2>2. f \in FileNumbers /\ Sound(fs) BY RunningIsSound DEF DataInv, IInv
  <2>3. fs.fcb[f].length \in Nat BY <2>2, ClaimsAre, Bounds DEF Sound
  <2>4. n \in Nat BY OpenFilesAssumption
  <2> DEFINE len == fs.fcb[f].length
             c == Least(n, len - at)
  <2>5. Length(f) = len BY DEF Length
  <2> HIDE DEF len
  <2>6. len \in Nat /\ at \in Nat /\ at <= len BY <2>3, <2>5 DEF len
  <2>7. c \in Nat /\ at + c <= len BY <2>4, <2>6 DEF Least
  <2> HIDE DEF c
  <2>8. DoRead(fs, f, n, at) = Cells(fs, f, at, c)
    <3>1. at \in 0..fs.fcb[f].length BY <2>6 DEF len
    <3> QED BY <2>3, <2>4, <3>1, ReadReturnsCells DEF c, len
  <2>9. Cells(fs, f, at, c) = Data(f, at, c) BY <2>1, <2>3, <2>6, <2>7, CellsHoldData DEF len
  <2> QED BY <2>5, <2>8, <2>9 DEF c
<1> QED BY <1>1, OpenFilesAreFiles, DataIsHeld, PTL

-----------------------------------------------------------------------------
(* Where the pointers are                                                  *)

Short(s) == s.status = "ok" => \A f \in Files : s.fcb[f].is_used => s.fcb[f].length <= MaxLen
Inside(s, p, S) ==
    s.status = "ok" => \A f \in S : s.fcb[f].is_used /\ p[f] \in 0..s.fcb[f].length

Alike(p, q, S) == \A f \in S : q[f] = p[f]

OpenInv == IInv /\ TableTypeOK /\ Short(fs) /\ Inside(fs, p_WR, placed)

LEMMA LengthsAre ==
    ASSUME IInv, NEW f \in Files
    PROVE  Length(f) \in Nat
<1>1. Image(fs) BY DEF IInv, Good, Wild, Sound
<1>2. f \in FileNumbers BY DEF FileNumbers
<1> QED BY <1>1, <1>2, ClaimsAre, Bounds DEF Length

LEMMA LeftInside ==
    ASSUME NEW s, NEW t, NEW f \in Files, s.status = "ok", Left(s, t, {f}), Short(s),
           ~t.fcb[f].is_used \/ t.fcb[f].length = 0 \/ Wild(t),
           NEW S \in SUBSET (Files \ {f}), NEW p, Inside(s, p, S)
    PROVE  Short(t) /\ Inside(t, p, S)
<1>1. MaxLen \in Nat BY FileBlocksAssumption, Bounds
<1>2. CASE Wild(t) BY <1>2 DEF Wild, Short, Inside
<1>3. CASE ~Wild(t)
  <2>1. \A g \in Files \ {f} : t.fcb[g] = s.fcb[g] BY <1>3 DEF Left, Intact
  <2>2. Short(t) BY <1>1, <1>3, <2>1 DEF Short
  <2>3. Inside(t, p, S) BY <2>1 DEF Inside
  <2> QED BY <2>2, <2>3
<1> QED BY <1>2, <1>3

LEMMA WroteInside ==
    ASSUME NEW s, NEW t, NEW f \in Files, NEW len \in 0..MaxLen, s.status = "ok",
           Wrote(s, t, f, len), Short(s),
           NEW S \in SUBSET Files, NEW p, Inside(s, p, S \ {f}),
           NEW q, Alike(p, q, S \ {f}), f \in S => q[f] \in 0..len
    PROVE  Short(t) /\ Inside(t, q, S)
<1>1. MaxLen \in Nat BY FileBlocksAssumption, Bounds
<1>2. CASE Wild(t) BY <1>2 DEF Wild, Short, Inside
<1>3. CASE Became(s, t, f, len)
  <2>1. /\ t.fcb[f].length = len /\ t.fcb[f].is_used
        /\ \A g \in Files \ {f} : t.fcb[g] = s.fcb[g]
    BY <1>3 DEF Became, Intact, FileNumbers
  <2>2. Short(t)
    <3>1. ASSUME NEW g \in Files, t.fcb[g].is_used PROVE t.fcb[g].length <= MaxLen
      <4>1. CASE g = f BY <1>1, <2>1, <4>1
      <4>2. CASE g # f BY <2>1, <3>1, <4>2 DEF Short
      <4> QED BY <4>1, <4>2
    <3> QED BY <3>1 DEF Short
  <2>3. Inside(t, q, S)
    <3>1. ASSUME NEW g \in S PROVE t.fcb[g].is_used /\ q[g] \in 0..t.fcb[g].length
      <4>1. CASE g = f BY <2>1, <4>1
      <4>2. CASE g # f BY <2>1, <4>2 DEF Inside, Alike
      <4> QED BY <4>1, <4>2
    <3> QED BY <3>1 DEF Inside
  <2> QED BY <2>2, <2>3
<1> QED BY <1>2, <1>3 DEF Wrote

LEMMA ReadStaysInside ==
    ASSUME OpenInv, NEW f \in Files, NEW n \in Nat, NEW at \in Nat, ReadFrom(f, n, at)
    PROVE  TableTypeOK' /\ Inside(fs', p_WR', placed')
<1>0. /\ Running /\ Used(f) /\ at <= Length(f) /\ placed' = placed \cup {f} /\ fs' = fs
      /\ p_WR' = [p_WR EXCEPT ![f] = at + Len(DoRead(fs, f, n, at))]
  BY DEF ReadFrom, IsOpen
<1>1. Length(f) \in Nat BY LengthsAre DEF OpenInv
<1> DEFINE l == Length(f)
           c == Least(n, l - at)
           r == Len(DoRead(fs, f, n, at))
<1>2. l = fs.fcb[f].length BY DEF Length
<1>3. DoRead(fs, f, n, at) = Cells(fs, f, at, c) BY <1>0, <1>1, <1>2, ReadReturnsCells
<1>4. l \in Nat /\ at <= l BY <1>0, <1>1
<1>5. c \in Nat /\ at + c <= l
  <2> HIDE DEF l
  <2> QED BY <1>4 DEF Least
<1> HIDE DEF l, c
<1>6. r = c
  <2> DEFINE S == {Cell(fs, f, j) : j \in at..at + c - 1}
  <2>1. \A j \in at..at + c - 1 : Cell(fs, f, j) \in S OBVIOUS
  <2> HIDE DEF S
  <2>2. Len(Cells(fs, f, at, c)) = c BY <1>5, <2>1, CellsAre
  <2> QED BY <1>3, <2>2
<1> HIDE DEF r
<1>7. p_WR' = [p_WR EXCEPT ![f] = at + r] BY <1>0 DEF r
<1>8. at + r \in 0..l BY <1>4, <1>5, <1>6
<1>9. MaxPointer \in Nat /\ MaxLen \in Nat /\ MaxLen <= MaxPointer
  BY OpenFilesAssumption, FileBlocksAssumption, Bounds
<1>10. l <= MaxLen BY <1>0, <1>2 DEF OpenInv, Short, Running, Used
<1>11. TableTypeOK /\ placed \subseteq Files BY DEF OpenInv, TableTypeOK
<1>12. TableTypeOK'
  <2>1. at + r \in {Closed} \cup 0..MaxPointer BY <1>4, <1>8, <1>9, <1>10
  <2> QED BY <1>0, <1>7, <1>11, <2>1 DEF TableTypeOK
<1>13. Inside(fs', p_WR', placed')
  <2>1. ASSUME NEW g \in placed' PROVE fs'.fcb[g].is_used /\ p_WR'[g] \in 0..fs'.fcb[g].length
    <3>1. CASE g = f
      <4>1. p_WR'[f] = at + r BY <1>7, <1>11 DEF TableTypeOK
      <4> QED BY <1>0, <1>2, <1>8, <3>1, <4>1 DEF Used
    <3>2. CASE g # f
      <4>1. g \in placed /\ p_WR'[g] = p_WR[g] BY <1>0, <1>7, <1>11, <3>2 DEF TableTypeOK
      <4> QED BY <1>0, <4>1 DEF OpenInv, Inside, Running
    <3> QED BY <3>1, <3>2
  <2> QED BY <2>1 DEF Inside
<1> QED BY <1>12, <1>13

\* The commands that write, each with the length it gives the file.
LEMMA PointerFollows ==
    ASSUME OpenInv, NEW f \in Files, NEW len \in 0..MaxLen, Running, Wrote(fs, fs', f, len),
           NEW v \in 0..MaxPointer, p_WR' = [p_WR EXCEPT ![f] = v],
           placed' \subseteq placed \cup {f}, f \in placed' => v <= len
    PROVE  TableTypeOK' /\ Short(fs') /\ Inside(fs', p_WR', placed')
<1>1. p_WR \in [Files -> {Closed} \cup 0..MaxPointer] /\ placed \subseteq Files
  BY DEF OpenInv, TableTypeOK
<1>2. TableTypeOK' BY <1>1 DEF TableTypeOK
<1>3. /\ p_WR'[f] = v /\ \A g \in Files \ {f} : p_WR'[g] = p_WR[g] /\ placed' \subseteq Files
  BY <1>1
<1>4. fs.status = "ok" /\ Short(fs) BY DEF Running, OpenInv
<1>5. Inside(fs, p_WR, placed' \ {f}) BY DEF OpenInv, Inside
<1>6. f \in placed' => p_WR'[f] \in 0..len
  <2>1. len \in Nat /\ MaxPointer \in Nat BY FileBlocksAssumption, OpenFilesAssumption, Bounds
  <2> QED BY <1>3, <2>1
<1>7. placed' \subseteq Files BY <1>1
<1>8. Alike(p_WR, p_WR', placed' \ {f}) BY <1>3, <1>7 DEF Alike
<1> QED BY <1>2, <1>4, <1>5, <1>6, <1>7, <1>8, WroteInside

LEMMA WritesInside ==
    ASSUME ~Shrinking, OpenInv, NEW f \in Files, NEW n \in Sizes,
           \/ WriteA(f, n) \/ WriteT(f, n) \/ Unnoticed(Copy(f, n))
           \/ \E at \in Positions : WriteO(f, at, n)
    PROVE  TableTypeOK' /\ Short(fs') /\ Inside(fs', p_WR', placed')
<1>1. /\ n \in Nat /\ MaxLen \in Nat /\ MaxPointer \in Nat /\ MaxLen <= MaxPointer
  BY OpenFilesAssumption, FileBlocksAssumption, Bounds
<1>2. IInv /\ TableTypeOK BY DEF OpenInv
<1>3. p_WR \in [Files -> {Closed} \cup 0..MaxPointer] /\ placed \subseteq Files
  BY <1>2 DEF TableTypeOK
<1>4. Length(f) \in Nat BY <1>2, LengthsAre
<1>5. CASE WriteA(f, n)
  <2>1. /\ WriteAppend(f, n) /\ p_WR' = [p_WR EXCEPT ![f] = Length(f) + n]
        /\ placed' = placed \cup {f}
    BY <1>5 DEF WriteA
  <2>2. Running /\ Length(f) + n <= MaxLen BY <2>1 DEF WriteAppend
  <2>3. Wrote(fs, fs', f, Length(f) + n) BY <1>2, <2>1, WritesDo
  <2>4. Length(f) + n \in 0..MaxLen /\ Length(f) + n \in 0..MaxPointer BY <1>1, <1>4, <2>2
  <2>5. Length(f) + n <= Length(f) + n BY <2>4
  <2> QED BY <2>1, <2>2, <2>3, <2>4, <2>5, PointerFollows
<1>6. CASE WriteT(f, n)
  <2>1. Truncate(f, n) /\ p_WR' = [p_WR EXCEPT ![f] = n] /\ placed' = placed \cup {f}
    BY <1>6 DEF WriteT
  <2>2. Running /\ n <= MaxLen BY <2>1 DEF Truncate
  <2>3. Wrote(fs, fs', f, n) BY <1>2, <2>1, WritesDo
  <2>4. n \in 0..MaxLen /\ n \in 0..MaxPointer /\ n <= n BY <1>1, <2>2
  <2> QED BY <2>1, <2>2, <2>3, <2>4, PointerFollows
<1>7. CASE Unnoticed(Copy(f, n))
  <2>1. Copy(f, n) /\ p_WR' = p_WR /\ placed' = placed BY <1>7 DEF Unnoticed
  <2>2. Running /\ Length(f) + n <= MaxLen BY <2>1 DEF Copy
  <2>3. Wrote(fs, fs', f, Length(f) + n) BY <1>2, <2>1, WritesDo
  <2>4. Length(f) + n \in 0..MaxLen BY <1>1, <1>4, <2>2
  <2>5. TableTypeOK' BY <1>2, <2>1 DEF TableTypeOK
  <2>6. fs.status = "ok" /\ Short(fs) BY <2>2 DEF Running, OpenInv
  <2>7. Inside(fs, p_WR, placed \ {f}) BY DEF OpenInv, Inside
  <2>8. f \in placed => p_WR[f] \in 0..Length(f) + n
    <3>1. f \in placed => p_WR[f] \in 0..Length(f)
      BY <2>6 DEF OpenInv, Inside, Length
    <3> QED BY <1>1, <1>4, <3>1
  <2>9. Alike(p_WR, p_WR, placed \ {f}) BY DEF Alike
  <2>10. Short(fs') /\ Inside(fs', p_WR, placed)
    BY <1>3, <2>3, <2>4, <2>6, <2>7, <2>8, <2>9, WroteInside
  <2> QED BY <2>1, <2>5, <2>10
<1>8. ASSUME NEW at \in Positions, WriteO(f, at, n)
      PROVE  TableTypeOK' /\ Short(fs') /\ Inside(fs', p_WR', placed')
  <2> DEFINE len == IF at + n > Length(f) THEN at + n ELSE Length(f)
  <2>1. /\ Override(f, at, n) /\ p_WR' = [p_WR EXCEPT ![f] = @ + n]
        /\ p_WR[f] # Closed /\ p_WR[f] + n <= MaxPointer
        /\ placed' = IF p_WR[f] <= at THEN placed ELSE placed \ {f}
    BY <1>8 DEF WriteO, IsOpen
  <2>2. Running /\ Used(f) /\ at + n <= MaxLen /\ at \in Nat
    BY <2>1, FileBlocksAssumption DEF Override
  <2>3. Wrote(fs, fs', f, len) BY <1>2, <2>1, OverrideDoes
  <2>4. Length(f) <= MaxLen BY <2>2 DEF OpenInv, Short, Running, Used, Length
  <2>5. len \in 0..MaxLen /\ at + n <= len BY <1>1, <1>4, <2>2, <2>4
  <2>6. p_WR[f] \in Nat /\ p_WR[f] + n \in 0..MaxPointer
    <3>1. p_WR[f] \in {Closed} \cup 0..MaxPointer BY <1>3
    <3> QED BY <1>1, <2>1, <3>1
  <2>7. p_WR' = [p_WR EXCEPT ![f] = p_WR[f] + n] BY <2>1
  <2>8. f \in placed' => p_WR[f] + n <= len
    <3>1. f \in placed' => p_WR[f] <= at BY <2>1
    <3> HIDE DEF len
    <3> QED BY <1>1, <2>2, <2>5, <2>6, <3>1
  <2>9. placed' \subseteq placed \cup {f} BY <2>1
  <2> HIDE DEF len
  <2> QED BY <2>2, <2>3, <2>5, <2>6, <2>7, <2>8, <2>9, PointerFollows
<1> QED BY <1>5, <1>6, <1>7, <1>8

LEMMA OpenStepKeeps ==
    ASSUME ~Shrinking, OpenInv, OpenNext
    PROVE  OpenInv'
<1>1. IInv /\ TableTypeOK /\ Short(fs) /\ Inside(fs, p_WR, placed) BY DEF OpenInv
<1>2. p_WR \in [Files -> {Closed} \cup 0..MaxPointer] /\ placed \subseteq Files
  BY <1>1 DEF TableTypeOK
<1>3. IInv'
  <2>1. CASE Next BY <1>1, <2>1, StepKeeps
  <2>2. CASE UNCHANGED vars BY <1>1, <2>2 DEF vars, IInv
  <2> QED BY <2>1, <2>2, OpenStepIsStep
<1> SUFFICES TableTypeOK' /\ Short(fs') /\ Inside(fs', p_WR', placed') BY <1>3 DEF OpenInv
<1>4. CASE Unnoticed(Create)
  <2>1. Create /\ p_WR' = p_WR /\ placed' = placed BY <1>4 DEF Unnoticed
  <2>2. PICK f \in Files : ~fs.fcb[f].is_used /\ Left(fs, fs', {f}) /\ Fresh(fs', f)
    BY <1>1, <2>1, CreateDoes
  <2>3. fs.status = "ok" BY <2>1 DEF Create, Running
  <2>4. placed \in SUBSET (Files \ {f}) BY <1>1, <1>2, <2>2, <2>3 DEF Inside
  <2>5. Short(fs') /\ Inside(fs', p_WR, placed)
    BY <1>1, <1>2, <2>2, <2>3, <2>4, LeftInside DEF Fresh
  <2>6. TableTypeOK' BY <1>1, <2>1 DEF TableTypeOK
  <2> QED BY <2>1, <2>5, <2>6
<1>5. CASE Unnoticed(CreateFails)
  <2>1. CreateFails /\ p_WR' = p_WR /\ placed' = placed BY <1>5 DEF Unnoticed
  <2>2. Left(fs, fs', {}) BY <1>1, <2>1, CreateFailsDoes
  <2>3. fs.status = "ok" BY <2>1 DEF CreateFails, Running
  <2>4. CASE Wild(fs') BY <2>4, <1>1, <2>1 DEF Wild, Short, Inside, TableTypeOK
  <2>5. CASE ~Wild(fs')
    <3>1. \A g \in Files : fs'.fcb[g] = fs.fcb[g] BY <2>2, <2>5 DEF Left, Intact
    <3> QED BY <1>1, <1>2, <2>1, <2>3, <3>1 DEF Short, Inside, TableTypeOK
  <2> QED BY <2>4, <2>5
<1>6. ASSUME NEW f \in Files, Open(f)
      PROVE  TableTypeOK' /\ Short(fs') /\ Inside(fs', p_WR', placed')
  <2>1. /\ fs' = fs /\ placed' = placed /\ p_WR[f] = Closed /\ Running
        /\ \E v \in Garbage : p_WR' = [p_WR EXCEPT ![f] = v]
    BY <1>6 DEF Open
  <2>2. PICK v \in 0..MaxPointer : p_WR' = [p_WR EXCEPT ![f] = v]
    BY <2>1, OpenFilesAssumption
  <2>3. f \notin placed
    <3>1. f \in placed => p_WR[f] \in 0..fs.fcb[f].length BY <1>1, <2>1 DEF Inside, Running
    <3>2. fs.fcb[f].length \in Nat BY <1>1, LengthsAre DEF Length
    <3>3. Closed \notin 0..fs.fcb[f].length BY <3>2 DEF Closed
    <3> QED BY <2>1, <3>1, <3>3
  <2>4. TableTypeOK' BY <1>2, <2>1, <2>2 DEF TableTypeOK
  <2>5. \A g \in placed : p_WR'[g] = p_WR[g] BY <1>2, <2>2, <2>3
  <2> QED BY <1>1, <2>1, <2>4, <2>5 DEF Inside
<1>7. ASSUME NEW f \in Files, Close(f)
      PROVE  TableTypeOK' /\ Short(fs') /\ Inside(fs', p_WR', placed')
  <2>1. fs' = fs /\ placed' = placed \ {f} /\ p_WR' = [p_WR EXCEPT ![f] = Closed]
    BY <1>7 DEF Close
  <2>2. TableTypeOK' BY <1>2, <2>1 DEF TableTypeOK
  <2>3. \A g \in placed' : g \in placed /\ p_WR'[g] = p_WR[g] BY <1>2, <2>1
  <2> QED BY <1>1, <2>1, <2>2, <2>3 DEF Inside
<1>8. ASSUME NEW f \in Files, Rm(f)
      PROVE  TableTypeOK' /\ Short(fs') /\ Inside(fs', p_WR', placed')
  <2>1. Delete(f) /\ p_WR' = p_WR /\ placed' = placed \ {f} BY <1>8 DEF Rm
  <2>2. Left(fs, fs', {f}) /\ Absent(fs', f) BY <1>1, <2>1, DeleteDoes
  <2>3. fs.status = "ok" BY <2>1 DEF Delete, Running
  <2>4. placed' \in SUBSET (Files \ {f}) /\ Inside(fs, p_WR, placed')
    BY <1>1, <1>2, <2>1 DEF Inside
  <2>5. Short(fs') /\ Inside(fs', p_WR, placed')
    BY <1>1, <2>2, <2>3, <2>4, LeftInside DEF Absent
  <2>6. TableTypeOK' BY <1>2, <2>1 DEF TableTypeOK
  <2> QED BY <2>1, <2>5, <2>6
<1>9. ASSUME NEW f \in Files, NEW n \in Nat, NEW at \in Nat, ReadFrom(f, n, at)
      PROVE  TableTypeOK' /\ Short(fs') /\ Inside(fs', p_WR', placed')
  <2>1. fs' = fs BY <1>9 DEF ReadFrom
  <2>2. TableTypeOK' /\ Inside(fs', p_WR', placed') BY <1>9, ReadStaysInside
  <2> QED BY <1>1, <2>1, <2>2
<1>10. ASSUME NEW f \in Files, NEW n \in Nat, ReadOn(f, n)
       PROVE  TableTypeOK' /\ Short(fs') /\ Inside(fs', p_WR', placed')
  <2>1. ReadFrom(f, n, Start(f)) BY <1>10 DEF ReadOn
  <2>2. Start(f) \in Nat
    <3>1. p_WR[f] # Closed /\ p_WR[f] \in {Closed} \cup 0..MaxPointer
      BY <1>2, <2>1 DEF ReadFrom, IsOpen
    <3> QED BY <3>1, OpenFilesAssumption DEF Start
  <2> QED BY <1>9, <2>1, <2>2
<1>11. ReadSizes \subseteq Nat /\ Positions \subseteq Nat
  BY OpenFilesAssumption, FileBlocksAssumption
<1>12. ASSUME NEW f \in Files, NEW n \in Sizes,
              \/ WriteA(f, n) \/ WriteT(f, n) \/ Unnoticed(Copy(f, n))
              \/ \E at \in Positions : WriteO(f, at, n)
       PROVE  TableTypeOK' /\ Short(fs') /\ Inside(fs', p_WR', placed')
  BY <1>12, WritesInside
<1> QED BY <1>4, <1>5, <1>6, <1>7, <1>8, <1>9, <1>10, <1>11, <1>12 DEF OpenNext

\* A pointer that a command has set stays inside its file.
THEOREM PlacedStaysInside == ~Shrinking => (OpenSpec => []PlacedIsInside)
<1> SUFFICES ASSUME ~Shrinking PROVE OpenSpec => []PlacedIsInside OBVIOUS
<1>1. OpenInit => OpenInv
  <2> SUFFICES ASSUME OpenInit PROVE OpenInv OBVIOUS
  <2>1. Init /\ p_WR = [f \in Files |-> Closed] /\ placed = {} BY DEF OpenInit
  <2>2. IInv BY <2>1, InitIsGood
  <2>3. TableTypeOK BY <2>1 DEF TableTypeOK
  <2>4. Inside(fs, p_WR, placed) BY <2>1 DEF Inside
  <2>5. Short(fs)
    <3>1. \A f \in Files : ~fs.fcb[f].is_used
      <4> TAKE f \in Files
      <4>1. f # Root /\ f \in {Root} \cup Files BY DEF Files, Root
      <4>2. fs.fcb[f].is_used = (f = Root) BY <2>1, <4>1 DEF Init
      <4> QED BY <4>1, <4>2
    <3> QED BY <3>1 DEF Short
  <2> QED BY <2>2, <2>3, <2>4, <2>5 DEF OpenInv
<1>2. OpenInv /\ [OpenNext]_openVars => OpenInv'
  <2> SUFFICES ASSUME OpenInv, [OpenNext]_openVars PROVE OpenInv' OBVIOUS
  <2>1. CASE OpenNext BY <2>1, OpenStepKeeps
  <2>2. CASE UNCHANGED openVars
    BY <2>2 DEF openVars, OpenInv, IInv, TableTypeOK, Short, Inside
  <2> QED BY <2>1, <2>2
<1>3. OpenInv => PlacedIsInside
  BY DEF OpenInv, PlacedIsInside, Inside, Running, Used, Length
<1> QED BY <1>1, <1>2, <1>3, PTL DEF OpenSpec

=============================================================================
