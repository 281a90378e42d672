---------------------------- MODULE FileBlocksProofs ----------------------------
(***************************************************************************)
(* What holds of the files on a disk of any size, with an index of any     *)
(* shape and any number of files.                                          *)
(*                                                                         *)
(* The argument: a use of a block is a slot of a file (Slots); Held says   *)
(* that the slots of all files hold different blocks, none of them free.   *)
(* While a command is under way a file may hold fewer data blocks than its *)
(* length and its index say, so Held has two numbers for each file.  Each  *)
(* operation is described by what it does to these slots: Take and Release *)
(* to the pool, SaveBlocks to the index of one file (Saved), Put to one    *)
(* file (PutDone, Became).  A disk on which each file claims what its      *)
(* length says is Sound, and every command leads from one to the next, or  *)
(* to a refused allocation (Wild), where the model stops.                  *)
(*                                                                         *)
(* The contents go along: an operation leaves the files it does not work   *)
(* on Intact, and Laid says that a write put each unit of its buffer where *)
(* it belongs and kept every other unit of the blocks that lay before it.  *)
(* HasData, every unit of the file is the one of its position, follows for *)
(* the file that was written; DataInv says it of all the clean files.      *)
(*                                                                         *)
(* The root directory is a file of which Lists says what it holds: entry   *)
(* after entry, E is the sequence of their inodes.  touch adds one at the  *)
(* end (EntryIsListed), rm writes all but one anew (EntryIsDropped).       *)
(*                                                                         *)
(* That no block is lost is Held the other way round: what was free or in  *)
(* a slot before an operation is free or in a slot after it (Retains), as  *)
(* long as the data blocks it does not keep are not counted (Preserves).   *)
(***************************************************************************)
EXTENDS FileBlocks, TLAPS, FiniteSetTheorems, SequenceTheorems, WellFoundedInduction

LEMMA Quotient ==
    ASSUME NEW j \in Nat, NEW q \in Nat, NEW r \in 0..B - 1, j = B * q + r
    PROVE  j \div B = q /\ j % B = r
BY FileBlocksAssumption

LEMMA Division ==
    ASSUME NEW j \in Nat
    PROVE  /\ j \div B \in Nat /\ j % B \in 0..B - 1
           /\ j = B * (j \div B) + (j % B)
<1>1. B \in Nat /\ B > 0 BY FileBlocksAssumption
<1>2. j \div B \in Nat BY <1>1
<1>3. j % B \in 0..B - 1 BY <1>1
<1>4. j = B * (j \div B) + (j % B) BY <1>1
<1> QED BY <1>2, <1>3, <1>4

LEMMA Ceiling ==
    ASSUME NEW a \in Nat
    PROVE  /\ CeilDiv(a, B) \in Nat
           /\ a <= B * CeilDiv(a, B) /\ B * CeilDiv(a, B) < a + B
BY FileBlocksAssumption DEF CeilDiv

LEMMA CeilingAtMost ==
    ASSUME NEW a \in Nat, NEW m \in Nat
    PROVE  a <= B * m <=> CeilDiv(a, B) <= m
<1>1. B \in Nat /\ B > 0 BY FileBlocksAssumption
<1> DEFINE c == CeilDiv(a, B)
<1>2. c \in Nat /\ a <= B * c /\ B * c < a + B BY Ceiling
<1> HIDE DEF c
<1>3. ASSUME c <= m PROVE a <= B * m
  <2>1. B * c <= B * m BY <1>1, <1>2, <1>3
  <2> QED BY <1>1, <1>2, <2>1
<1>4. ASSUME c > m PROVE a > B * m
  <2>1. B * c >= B * (m + 1) BY <1>1, <1>2, <1>4
  <2>2. B * (m + 1) = B * m + B BY <1>1
  <2> QED BY <1>1, <1>2, <2>1, <2>2
<1>5. B * m \in Int BY <1>1
<1>6. (a <= B * m) <=> (c <= m) BY <1>2, <1>3, <1>4, <1>5
<1> QED BY <1>6 DEF c

LEMMA CeilingGrows ==
    ASSUME NEW a \in Nat, NEW b \in Nat, a <= b
    PROVE  CeilDiv(a, B) <= CeilDiv(b, B)
<1>1. CeilDiv(b, B) \in Nat /\ b <= B * CeilDiv(b, B) BY Ceiling
<1>2. B * CeilDiv(b, B) \in Int BY <1>1, FileBlocksAssumption
<1> QED BY <1>1, <1>2, CeilingAtMost

-----------------------------------------------------------------------------
(* The lowest free blocks                                                  *)

LEMMA BlocksAreFinite ==
    ASSUME NEW S \in SUBSET Blocks
    PROVE  IsFiniteSet(S) /\ Cardinality(S) \in 0..N
<1>1. IsFiniteSet(Blocks) /\ Cardinality(Blocks) = N
  BY FS_Interval, FileBlocksAssumption DEF Blocks
<1> QED BY <1>1, FS_Subset, FS_CardinalityType

\* They are as many different ones as were asked for: the number of smaller free
\* blocks tells the free blocks apart and takes every value below their number.
LEMMA LowestAre ==
    ASSUME NEW S \in SUBSET Blocks, NEW n \in 0..Cardinality(S)
    PROVE  /\ Lowest(S, n) \in [1..n -> S]
           /\ \A i, j \in 1..n : Lowest(S, n)[i] = Lowest(S, n)[j] => i = j
<1> DEFINE m == Cardinality(S)
           Below(b) == {c \in S : c < b}
           rank == [b \in S |-> Cardinality(Below(b))]
           ranks == 0..m - 1
<1>1. IsFiniteSet(S) /\ m \in Nat /\ S \subseteq Nat /\ n \in Nat /\ n <= m
  BY BlocksAreFinite DEF Blocks
<1>2. \A b \in S : IsFiniteSet(Below(b)) /\ Cardinality(Below(b)) \in Nat
  BY <1>1, FS_Subset, FS_CardinalityType
<1>3. ASSUME NEW b \in S PROVE  Cardinality(Below(b)) \in ranks
  <2>1. Below(b) \in SUBSET S /\ b \notin Below(b) BY <1>1
  <2>2. Cardinality(Below(b)) <= m /\ Cardinality(Below(b)) # m BY <1>1, <2>1, FS_Subset
  <2> QED BY <1>1, <1>2, <2>2
<1>4. ASSUME NEW b \in S, NEW c \in S, b < c
      PROVE  Cardinality(Below(b)) # Cardinality(Below(c))
  <2>1. \A x \in Below(b) : x \in Below(c)
    <3> TAKE x \in Below(b)
    <3>1. x \in Nat /\ b \in Nat /\ c \in Nat /\ x \in S /\ x < b BY <1>1
    <3> QED BY <1>4, <3>1
  <2>2. b \in Below(c) /\ b \notin Below(b) BY <1>1, <1>4
  <2> QED BY <1>2, <2>1, <2>2, FS_Subset
<1>5. \A b, c \in S : rank[b] = rank[c] => b = c BY <1>1, <1>4
<1>6. rank \in Injection(S, ranks)
  <2>1. rank \in [S -> ranks] BY <1>3
  <2> HIDE DEF rank
  <2> QED BY <1>5, <2>1 DEF Injection, IsInjective
<1>7. IsFiniteSet(ranks) /\ Cardinality(ranks) = m
  <2>1. 0 \in Int /\ m - 1 \in Int /\ (IF 0 > m - 1 THEN 0 ELSE m - 1 - 0 + 1) = m BY <1>1
  <2> QED BY <2>1, FS_Interval
<1>8. rank \in Surjection(S, ranks) BY <1>6, <1>7, FS_Injection
<1>9. \A i \in 1..n : i - 1 \in ranks BY <1>1
<1>10. \A i \in 1..n : \E b \in S : Cardinality(Below(b)) = i - 1
  BY <1>8, <1>9 DEF Surjection
<1>11. \A i \in 1..n : /\ Lowest(S, n)[i] \in S
                       /\ Cardinality(Below(Lowest(S, n)[i])) = i - 1
  BY <1>10 DEF Lowest
<1>12. Lowest(S, n) \in [1..n -> S] BY <1>11 DEF Lowest
<1>13. ASSUME NEW i \in 1..n, NEW j \in 1..n, Lowest(S, n)[i] = Lowest(S, n)[j]
       PROVE  i = j
  <2>1. i - 1 = j - 1 BY <1>11, <1>13
  <2> QED BY <2>1
<1> QED BY <1>12, <1>13

\* As many blocks as a sequence of different ones is long.
LEMMA AsManyAsIndices ==
    ASSUME NEW n \in Nat, NEW S \in SUBSET Blocks, NEW bs \in [1..n -> S],
           \A i, j \in 1..n : bs[i] = bs[j] => i = j,
           NEW T, \A x : x \in T <=> \E i \in 1..n : x = bs[i]
    PROVE  T \subseteq S /\ IsFiniteSet(T) /\ Cardinality(T) = n
<1>1. IsFiniteSet(1..n) /\ Cardinality(1..n) = n
  <2>1. 1 \in Int /\ n \in Int /\ (IF 1 > n THEN 0 ELSE n - 1 + 1) = n OBVIOUS
  <2> QED BY <2>1, FS_Interval
<1>2. bs \in [1..n -> T] OBVIOUS
<1>3. bs \in Bijection(1..n, T) BY <1>2 DEF Bijection, Injection, IsInjective, Surjection
<1>4. ExistsBijection(1..n, T) BY <1>3 DEF ExistsBijection
<1> QED BY <1>1, <1>4, FS_Bijection

\* Without them the set is smaller by as many.
LEMMA WithoutLowest ==
    ASSUME NEW S \in SUBSET Blocks, NEW n \in 0..Cardinality(S), NEW got \in [1..n -> S],
           \A i, j \in 1..n : got[i] = got[j] => i = j,
           NEW T, \A x : x \in T <=> \E i \in 1..n : x = got[i]
    PROVE  T \subseteq S /\ Cardinality(S \ T) = Cardinality(S) - n
<1>1. IsFiniteSet(S) /\ Cardinality(S) \in Nat /\ n \in Nat BY BlocksAreFinite
<1>2. T \subseteq S /\ IsFiniteSet(T) /\ Cardinality(T) = n BY <1>1, AsManyAsIndices
<1>3. S \cap T = T BY <1>2
<1>4. Cardinality(S \ T) = Cardinality(S) - Cardinality(S \cap T) BY <1>1, FS_Difference
<1> QED BY <1>2, <1>3, <1>4

-----------------------------------------------------------------------------
(* Images of the disk                                                      *)

FileNumbers == {Root} \cup Files
Fcbs == [is_used : BOOLEAN, length : 0..MAX_FILE_SIZE, mixed : [1..L0 + 2 -> 0..N]]

\* What every definition keeps true of the image it is given.
Image(s) ==
    /\ DOMAIN s = {"free", "free_block_count", "status", "fcb", "disk"}
    /\ s.free \subseteq Blocks /\ s.free_block_count \in 0..N
    /\ s.status \in {"ok", "wild_block"}
    /\ s.fcb \in [FileNumbers -> Fcbs]
    /\ DOMAIN s.disk = Blocks
    /\ s.status = "ok" => s.free_block_count = Cardinality(s.free)

\* Blocks leave the pool and nothing else changes.
LEMMA TakeDoes ==
    ASSUME NEW s, Image(s), s.status = "ok", NEW n \in Nat, CanTake(s, n),
           NEW got, got = Lowest(s.free, n), NEW t, t = Take(s, n)
    PROVE  /\ Image(t) /\ t.status = "ok" /\ t.fcb = s.fcb /\ t.disk = s.disk
           /\ \A x : x \in t.free <=> x \in s.free /\ \A i \in 1..n : x # got[i]
           /\ got \in [1..n -> s.free]
           /\ \A i, j \in 1..n : got[i] = got[j] => i = j
<1>s. PICK S \in SUBSET Blocks : S = s.free BY DEF Image
<1>t. PICK T : T = {got[i] : i \in 1..n} OBVIOUS
<1>1. /\ IsFiniteSet(S) /\ Cardinality(S) \in 0..N
      /\ s.free_block_count = Cardinality(S) /\ n \in 0..Cardinality(S)
  BY <1>s, BlocksAreFinite, FileBlocksAssumption DEF Image, CanTake
<1>2. got \in [1..n -> S] /\ \A i, j \in 1..n : got[i] = got[j] => i = j
  BY <1>s, <1>1, LowestAre
<1>3. T \subseteq S /\ Cardinality(S \ T) = Cardinality(S) - n
  <2>1. \A x : x \in T <=> \E i \in 1..n : x = got[i] BY <1>t
  <2>2. S \in SUBSET Blocks BY <1>s
  <2>3. n \in 0..Cardinality(S) BY <1>1
  <2>4. got \in [1..n -> S] BY <1>2
  <2>5. \A i, j \in 1..n : got[i] = got[j] => i = j BY <1>2
  <2> QED BY <2>1, <2>2, <2>3, <2>4, <2>5, WithoutLowest
<1>4. /\ DOMAIN t = DOMAIN s /\ t.free = S \ T
      /\ t.free_block_count = s.free_block_count - n
      /\ t.status = s.status /\ t.fcb = s.fcb /\ t.disk = s.disk
  BY <1>s, <1>t DEF Take, Image
<1>5. t.free_block_count \in 0..N /\ t.free_block_count = Cardinality(t.free)
  BY <1>1, <1>3, <1>4, FileBlocksAssumption
<1>6. Image(t) BY <1>s, <1>1, <1>4, <1>5 DEF Image
<1> QED BY <1>s, <1>t, <1>2, <1>4, <1>6

-----------------------------------------------------------------------------
(* The mixed index                                                         *)

MaxBlocks == L0 + B + B * B

LEMMA Bounds ==
    /\ MaxBlocks \in Nat /\ MAX_FILE_SIZE \in Nat /\ MAX_FILE_SIZE = B * MaxBlocks
    /\ B \in Nat /\ B > 0 /\ L0 \in Nat /\ L0 > 0
<1>1. B \in Nat /\ B > 0 /\ L0 \in Nat /\ L0 > 0 BY FileBlocksAssumption
<1>2. B * B \in Nat BY <1>1
<1>3. MaxBlocks \in Nat BY <1>1, <1>2 DEF MaxBlocks
<1>4. MAX_FILE_SIZE = B * MaxBlocks BY DEF MAX_FILE_SIZE, MaxBlocks
<1>5. B * MaxBlocks \in Nat BY <1>1, <1>3
<1> QED BY <1>1, <1>3, <1>4, <1>5

\* A file of no more than the largest size has no more than so many blocks.
LEMMA BlocksOfLength ==
    ASSUME NEW len \in 0..MAX_FILE_SIZE
    PROVE  CeilDiv(len, B) \in 0..MaxBlocks /\ MaxBlocks \in Nat
<1>1. B \in Nat /\ L0 \in Nat BY FileBlocksAssumption
<1>2. B * B \in Nat BY <1>1
<1>3. MaxBlocks \in Nat BY <1>1, <1>2 DEF MaxBlocks
<1>4. len \in Nat /\ len <= B * MaxBlocks BY <1>1, <1>2 DEF MAX_FILE_SIZE, MaxBlocks
<1> QED BY <1>3, <1>4, Ceiling, CeilingAtMost

\* The second-level index blocks fit into one index block.
LEMMA LeavesAre ==
    ASSUME NEW n \in 0..MaxBlocks
    PROVE  /\ Leaves(n) \in 0..B
           /\ n <= L0 + B <=> Leaves(n) = 0
           /\ \A o \in 0..n : Leaves(o) <= Leaves(n) /\ Leaves(o) \in Nat
<1>1. B \in Nat /\ B > 0 /\ L0 \in Nat /\ n \in Nat /\ B * B \in Nat
  BY FileBlocksAssumption DEF MaxBlocks
<1>2. ASSUME n > L0 + B PROVE Leaves(n) \in 1..B
  <2>1. n - L0 - B \in Nat /\ n - L0 - B > 0 /\ n - L0 - B <= B * B BY <1>1, <1>2 DEF MaxBlocks
  <2>2. CeilDiv(n - L0 - B, B) \in Nat /\ CeilDiv(n - L0 - B, B) <= B
    BY <1>1, <2>1, Ceiling, CeilingAtMost
  <2>3. CeilDiv(n - L0 - B, B) # 0
    <3>1. B * 0 = 0 /\ ~(n - L0 - B <= 0) BY <1>1, <2>1
    <3>2. 0 \in Nat OBVIOUS
    <3> QED BY <2>1, <3>1, Ceiling
  <2> QED BY <1>1, <1>2, <2>2, <2>3 DEF Leaves
<1>3. ASSUME n <= L0 + B PROVE Leaves(n) = 0 BY <1>3 DEF Leaves
<1>4. ASSUME NEW o \in 0..n PROVE Leaves(o) <= Leaves(n) /\ Leaves(o) \in Nat
  <2>1. CASE o <= L0 + B BY <1>1, <1>2, <1>3, <2>1 DEF Leaves
  <2>2. CASE o > L0 + B
    <3>1. /\ o - L0 - B \in Nat /\ n - L0 - B \in Nat /\ o - L0 - B <= n - L0 - B
          /\ n > L0 + B
      BY <1>1, <2>2
    <3>2. CeilDiv(o - L0 - B, B) <= CeilDiv(n - L0 - B, B) BY <3>1, CeilingGrows
    <3> QED BY <1>1, <2>2, <3>1, <3>2, Ceiling DEF Leaves
  <2> QED BY <1>1, <2>1, <2>2
<1> QED BY <1>1, <1>2, <1>3, <1>4

\* Where the number of the k-th block is, when it is in the second level.
LEMMA InLeaf ==
    ASSUME NEW n \in 0..MaxBlocks, NEW k \in 1..n, k > L0 + B,
           NEW j, j = k - L0 - B - 1
    PROVE  j \in Nat /\ (j \div B) + 1 \in 1..Leaves(n) /\ (j % B) + 1 \in 1..B
<1>1. B \in Nat /\ B > 0 /\ L0 \in Nat /\ n \in Nat /\ k \in Nat /\ j \in Nat
  BY FileBlocksAssumption DEF MaxBlocks
<1>2. /\ j \div B \in Nat /\ j % B \in 0..B - 1 /\ j = B * (j \div B) + (j % B)
  BY <1>1, Division
<1> PICK q \in Nat : q = j \div B BY <1>2
<1> PICK r \in 0..B - 1 : r = j % B BY <1>2
<1>3. j = B * q + r BY <1>2
<1>4. n - L0 - B \in Nat /\ n > L0 + B /\ j < n - L0 - B BY <1>1
<1> PICK c \in Nat : c = CeilDiv(n - L0 - B, B) BY <1>4, Ceiling
<1>5. n - L0 - B <= B * c BY <1>4, Ceiling
<1>6. q < c
  <2>1. B * q <= j /\ B * q \in Nat /\ B * c \in Nat BY <1>1, <1>3
  <2>2. B * q < B * c BY <1>1, <1>4, <1>5, <2>1
  <2> QED BY <1>1, <2>2
<1>7. q + 1 \in 1..Leaves(n) BY <1>1, <1>4, <1>6 DEF Leaves
<1> QED BY <1>1, <1>7

-----------------------------------------------------------------------------
(* What a block is used for                                                *)

IndexSlots(n) ==
    (IF n > L0 THEN {<<"index", 1>>} ELSE {})
    \cup (IF n > L0 + B THEN {<<"index", 2>>} ELSE {})
    \cup {<<"leaf", i>> : i \in 1..Leaves(n)}
Slots(k, n) == {<<"data", i>> : i \in 1..k} \cup IndexSlots(n)

LeafAt(s, f, i) == NumberAt(s, s.fcb[f].mixed[L0 + 2], i)
DataAt(s, f, k) ==
    IF k <= L0 THEN s.fcb[f].mixed[k]
    ELSE IF k <= L0 + B THEN NumberAt(s, s.fcb[f].mixed[L0 + 1], k - L0)
    ELSE LET j == k - L0 - B - 1
         IN NumberAt(s, LeafAt(s, f, (j \div B) + 1), (j % B) + 1)
BlockAt(s, f, p) ==
    IF p[1] = "data" THEN DataAt(s, f, p[2])
    ELSE IF p[1] = "leaf" THEN LeafAt(s, f, p[2])
    ELSE s.fcb[f].mixed[L0 + p[2]]

LEMMA BlocksAre ==
    ASSUME NEW s, NEW f
    PROVE  /\ \A i : /\ BlockAt(s, f, <<"data", i>>) = DataAt(s, f, i)
                     /\ BlockAt(s, f, <<"leaf", i>>) = LeafAt(s, f, i)
           /\ BlockAt(s, f, <<"index", 1>>) = s.fcb[f].mixed[L0 + 1]
           /\ BlockAt(s, f, <<"index", 2>>) = s.fcb[f].mixed[L0 + 2]
BY DEF BlockAt

\* GetBlocks reads the same numbers.
LEMMA GetBlocksAre ==
    ASSUME NEW s, NEW f
    PROVE  GetBlocks(s, f) = [k \in 1..BlockCount(s, f) |-> DataAt(s, f, k)]
BY DEF GetBlocks, DataAt, LeafAt

SameBlock(s, t, b) == \A i \in 1..B : t.disk[b][i] = s.disk[b][i]

\* The numbers of a file are the same where its index blocks are.
SlotsStay(s, w, f, k, m) == \A p \in Slots(k, m) : BlockAt(w, f, p) = BlockAt(s, f, p)
LEMMA SamePlaces ==
    ASSUME NEW s, NEW t, NEW f, NEW n \in 0..MaxBlocks, NEW k \in 0..n,
           t.fcb[f].mixed = s.fcb[f].mixed,
           \A p \in IndexSlots(n) : SameBlock(s, t, BlockAt(s, f, p))
    PROVE  SlotsStay(s, t, f, k, n)
<1>1. B \in Nat /\ B > 0 /\ L0 \in Nat /\ n \in Nat /\ k \in Nat
  BY FileBlocksAssumption DEF MaxBlocks
<1>2. Leaves(n) \in 0..B /\ (n <= L0 + B <=> Leaves(n) = 0) BY LeavesAre
<1>3. \A b : SameBlock(s, t, b) => \A i \in 1..B : NumberAt(t, b, i) = NumberAt(s, b, i)
  BY DEF SameBlock, NumberAt
<1>4. ASSUME NEW i \in 1..Leaves(n) PROVE LeafAt(t, f, i) = LeafAt(s, f, i)
  <2>1. i \in 1..B /\ <<"index", 2>> \in IndexSlots(n) BY <1>1, <1>2, <1>4 DEF IndexSlots
  <2>2. SameBlock(s, t, s.fcb[f].mixed[L0 + 2]) BY <2>1, BlocksAre
  <2> QED BY <1>3, <2>1, <2>2 DEF LeafAt
<1>5. ASSUME NEW i \in 1..k PROVE DataAt(t, f, i) = DataAt(s, f, i)
  <2>1. CASE i <= L0 BY <2>1 DEF DataAt
  <2>2. CASE i > L0 /\ i <= L0 + B
    <3>1. <<"index", 1>> \in IndexSlots(n) /\ i - L0 \in 1..B BY <1>1, <2>2 DEF IndexSlots
    <3>2. SameBlock(s, t, s.fcb[f].mixed[L0 + 1]) BY <3>1, BlocksAre
    <3>3. NumberAt(t, s.fcb[f].mixed[L0 + 1], i - L0) = NumberAt(s, s.fcb[f].mixed[L0 + 1], i - L0)
      BY <1>3, <3>1, <3>2
    <3> QED BY <1>1, <2>2, <3>3 DEF DataAt
  <2>3. CASE i > L0 + B
    <3> DEFINE j == i - L0 - B - 1
               l == (j \div B) + 1
               r == (j % B) + 1
    <3>1. l \in 1..Leaves(n) /\ r \in 1..B
      <4>1. i \in 1..n BY <1>1
      <4> QED BY <2>3, <4>1, InLeaf
    <3> HIDE DEF l, r
    <3>2. LeafAt(t, f, l) = LeafAt(s, f, l) BY <1>4, <3>1
    <3>3. <<"leaf", l>> \in IndexSlots(n) BY <3>1 DEF IndexSlots
    <3>4. SameBlock(s, t, LeafAt(s, f, l)) BY <3>3, BlocksAre
    <3>5. NumberAt(t, LeafAt(t, f, l), r) = NumberAt(s, LeafAt(s, f, l), r)
      BY <1>3, <3>1, <3>2, <3>4
    <3>6. ~(i <= L0) /\ ~(i <= L0 + B) BY <1>1, <2>3
    <3> QED BY <3>5, <3>6 DEF DataAt, l, r
  <2> QED BY <1>1, <2>1, <2>2, <2>3
<1> SUFFICES ASSUME NEW p \in Slots(k, n) PROVE BlockAt(t, f, p) = BlockAt(s, f, p)
  BY DEF SlotsStay
<1>6. CASE \E i \in 1..k : p = <<"data", i>>
  <2> PICK i \in 1..k : p = <<"data", i>> BY <1>6
  <2>1. BlockAt(t, f, p) = DataAt(t, f, i) /\ BlockAt(s, f, p) = DataAt(s, f, i) BY BlocksAre
  <2> QED BY <1>5, <2>1
<1>7. CASE \E i \in 1..Leaves(n) : p = <<"leaf", i>>
  <2> PICK i \in 1..Leaves(n) : p = <<"leaf", i>> BY <1>7
  <2>1. BlockAt(t, f, p) = LeafAt(t, f, i) /\ BlockAt(s, f, p) = LeafAt(s, f, i) BY BlocksAre
  <2> QED BY <1>4, <2>1
<1>8. CASE p = <<"index", 1>> \/ p = <<"index", 2>> BY <1>8, BlocksAre
<1> QED BY <1>6, <1>7, <1>8 DEF Slots, IndexSlots

\* No block is used twice: k[f] data blocks of each file and the index blocks
\* of a file of n[f] blocks.
Held(s, k, n) ==
    \A f \in FileNumbers : \A p \in Slots(k[f], n[f]) :
        /\ BlockAt(s, f, p) \in Blocks \ s.free
        /\ \A g \in FileNumbers : \A q \in Slots(k[g], n[g]) :
              BlockAt(s, f, p) = BlockAt(s, g, q) => f = g /\ p = q
Counts == [FileNumbers -> 0..MaxBlocks]

With(k, f, n) == [k EXCEPT ![f] = n]
LEMMA CountsChange ==
    ASSUME NEW k \in Counts, NEW f \in FileNumbers, NEW n \in 0..MaxBlocks
    PROVE  /\ With(k, f, n) \in Counts /\ With(k, f, n)[f] = n
           /\ \A g \in FileNumbers \ {f} : With(k, f, n)[g] = k[g]
BY DEF Counts, With

Owned(s, f, k, n) == {BlockAt(s, f, p) : p \in Slots(k, n)}

\* One file goes over to other blocks, of those it had and of free ones, and no
\* block of another file is touched.
LEMMA OneFileChanges ==
    ASSUME NEW s, NEW k \in Counts, NEW n \in Counts, Held(s, k, n),
           \A g \in FileNumbers : k[g] <= n[g],
           NEW f \in FileNumbers, NEW k1 \in 0..MaxBlocks, NEW n1 \in 0..MaxBlocks,
           NEW t, t.free \subseteq s.free,
           \A g \in FileNumbers \ {f} : t.fcb[g].mixed = s.fcb[g].mixed,
           \A b \in Blocks \ s.free :
              b \notin Owned(s, f, k[f], n[f]) => SameBlock(s, t, b),
           \A p \in Slots(k1, n1) :
              /\ BlockAt(t, f, p) \in Blocks \ t.free
              /\ BlockAt(t, f, p) \in s.free \cup Owned(s, f, k[f], n[f])
              /\ \A q \in Slots(k1, n1) : BlockAt(t, f, p) = BlockAt(t, f, q) => p = q
    PROVE  /\ Held(t, With(k, f, k1), With(n, f, n1))
           /\ \A g \in FileNumbers \ {f} : \A p \in Slots(k[g], n[g]) :
                 BlockAt(t, g, p) = BlockAt(s, g, p) /\ SameBlock(s, t, BlockAt(s, g, p))
<1>1. ASSUME NEW g \in FileNumbers \ {f}
      PROVE  \A p \in Slots(k[g], n[g]) : /\ BlockAt(s, g, p) \in Blocks \ s.free
                                          /\ BlockAt(s, g, p) \notin Owned(s, f, k[f], n[f])
  BY DEF Held, Owned
<1>2. ASSUME NEW g \in FileNumbers \ {f}
      PROVE  /\ \A p \in Slots(k[g], n[g]) : SameBlock(s, t, BlockAt(s, g, p))
             /\ \A p \in Slots(k[g], n[g]) : BlockAt(t, g, p) = BlockAt(s, g, p)
  <2>1. \A p \in Slots(k[g], n[g]) : SameBlock(s, t, BlockAt(s, g, p)) BY <1>1
  <2>2. n[g] \in 0..MaxBlocks /\ k[g] \in 0..n[g]
    BY BlocksOfLength DEF Counts
  <2>3. \A p \in IndexSlots(n[g]) : SameBlock(s, t, BlockAt(s, g, p)) BY <2>1 DEF Slots
  <2>4. t.fcb[g].mixed = s.fcb[g].mixed OBVIOUS
  <2> QED BY <2>1, <2>2, <2>3, <2>4, SamePlaces DEF SlotsStay
<1> DEFINE kk == With(k, f, k1)
           nn == With(n, f, n1)
<1>3. /\ kk[f] = k1 /\ nn[f] = n1
      /\ \A g \in FileNumbers \ {f} : kk[g] = k[g] /\ nn[g] = n[g]
  BY CountsChange
<1> HIDE DEF kk, nn
<1>4. ASSUME NEW g \in FileNumbers \ {f}, NEW p \in Slots(k[g], n[g]),
             NEW q \in Slots(k1, n1)
      PROVE  BlockAt(t, g, p) # BlockAt(t, f, q)
  BY <1>1, <1>2
<1>5. ASSUME NEW g \in FileNumbers \ {f}, NEW p \in Slots(k[g], n[g]),
             NEW h \in FileNumbers \ {f}, NEW q \in Slots(k[h], n[h]),
             BlockAt(t, g, p) = BlockAt(t, h, q)
      PROVE  g = h /\ p = q
  BY <1>2, <1>5 DEF Held
<1>6. \A g \in FileNumbers \ {f} : \A p \in Slots(k[g], n[g]) : BlockAt(t, g, p) \in Blocks \ t.free
  BY <1>1, <1>2
<1>7. Held(t, kk, nn) BY <1>3, <1>4, <1>5, <1>6 DEF Held
<1> QED BY <1>2, <1>7 DEF kk, nn

\* The data of a file is in the same blocks, and they are as they were.
SameCells(s, t, g, c) ==
    \A i \in 1..c : DataAt(t, g, i) = DataAt(s, g, i) /\ SameBlock(s, t, DataAt(s, g, i))
OthersKeep(s, t, f, k) == \A g \in FileNumbers \ {f} : SameCells(s, t, g, k[g])

LEMMA CellsStay ==
    ASSUME NEW s, NEW t, NEW g, NEW c, NEW m,
           \A p \in Slots(c, m) :
              BlockAt(t, g, p) = BlockAt(s, g, p) /\ SameBlock(s, t, BlockAt(s, g, p))
    PROVE  SameCells(s, t, g, c)
<1> SUFFICES ASSUME NEW i \in 1..c
             PROVE  DataAt(t, g, i) = DataAt(s, g, i) /\ SameBlock(s, t, DataAt(s, g, i))
  BY DEF SameCells
<1>1. <<"data", i>> \in Slots(c, m) BY DEF Slots
<1>2. /\ BlockAt(t, g, <<"data", i>>) = DataAt(t, g, i)
      /\ BlockAt(s, g, <<"data", i>>) = DataAt(s, g, i)
  BY BlocksAre, ZenonT(40)
<1> QED BY <1>1, <1>2

LEMMA SameDiskSameCells ==
    ASSUME NEW s, NEW t, NEW f, t.disk = s.disk, t.fcb[f].mixed = s.fcb[f].mixed, NEW c
    PROVE  SameCells(s, t, f, c)
<1>1. \A b, i : NumberAt(t, b, i) = NumberAt(s, b, i) BY DEF NumberAt
<1>2. \A i : LeafAt(t, f, i) = LeafAt(s, f, i) BY <1>1 DEF LeafAt
<1>3. \A i : DataAt(t, f, i) = DataAt(s, f, i) BY <1>1, <1>2 DEF DataAt
<1>4. \A b : SameBlock(s, t, b) BY DEF SameBlock
<1> QED BY <1>3, <1>4 DEF SameCells

LEMMA CellsStayOn ==
    ASSUME NEW s, NEW t, NEW u, NEW g, NEW c, SameCells(s, t, g, c), SameCells(t, u, g, c)
    PROVE  SameCells(s, u, g, c)
BY DEF SameCells, SameBlock

-----------------------------------------------------------------------------
(* Giving blocks back                                                      *)

\* Blocks in use that are all different go back to the pool.
LEMMA ReleaseDoes ==
    ASSUME NEW s, Image(s), s.status = "ok", NEW m \in Nat, NEW bs \in [1..m -> Blocks],
           \A i \in 1..m : bs[i] \notin s.free,
           \A i, j \in 1..m : bs[i] = bs[j] => i = j,
           NEW t, t = Release(s, bs)
    PROVE  /\ Image(t) /\ t.status = "ok" /\ t.fcb = s.fcb
           /\ \A x : x \in t.free <=> x \in s.free \/ \E i \in 1..m : x = bs[i]
           /\ \A b \in Blocks : (\A i \in 1..m : b # bs[i]) => t.disk[b] = s.disk[b]
<1> PICK S \in SUBSET Blocks : S = s.free BY DEF Image
<1>1. PICK T : \A x : x \in T <=> \E i \in 1..m : x = bs[i]
  <2>1. \A x : x \in {bs[i] : i \in 1..m} <=> \E i \in 1..m : x = bs[i] OBVIOUS
  <2> QED BY <2>1
<1>2. bs \in Seq(Blocks) /\ Len(bs) = m
  <2>1. bs \in [1..m -> Blocks] OBVIOUS
  <2>2. bs \in Seq(Blocks) BY <2>1, SeqDef
  <2>3. DOMAIN bs = 1..Len(bs) /\ Len(bs) \in Nat BY <2>2, LenProperties
  <2> QED BY <2>2, <2>3
<1>3. T \subseteq Blocks \ S /\ IsFiniteSet(T) /\ Cardinality(T) = m
  <2> PICK U \in SUBSET Blocks : U = Blocks \ s.free OBVIOUS
  <2>1. bs \in [1..m -> U] OBVIOUS
  <2>2. T \subseteq U /\ IsFiniteSet(T) /\ Cardinality(T) = m
    BY <1>1, <2>1, AsManyAsIndices
  <2> QED BY <2>2
<1>4. IsFiniteSet(S) /\ Cardinality(S) \in Nat BY BlocksAreFinite
<1>5. Cardinality(S \cup T) = Cardinality(S) + m /\ Cardinality(S \cup T) \in 0..N
  <2>1. S \cap T = {} /\ S \cup T \in SUBSET Blocks BY <1>3
  <2>2. Cardinality(S \cap T) = 0 BY <2>1, FS_EmptySet
  <2>3. Cardinality(S \cup T) = Cardinality(S) + Cardinality(T) - Cardinality(S \cap T)
    BY <1>3, <1>4, FS_Union
  <2>4. Cardinality(S \cup T) \in 0..N BY <2>1, BlocksAreFinite
  <2> QED BY <1>3, <1>4, <2>2, <2>3, <2>4
<1>0. T = {bs[i] : i \in DOMAIN bs} BY <1>1
<1>6. /\ DOMAIN t = DOMAIN s /\ t.free = S \cup T
      /\ t.free_block_count = s.free_block_count + m /\ t.fcb = s.fcb
      /\ t.disk = [b \in Blocks |-> IF b \in T THEN JunkBlock ELSE s.disk[b]]
      /\ t.status = IF T \cap S # {} THEN "freed_twice" ELSE s.status
  BY <1>0, <1>2 DEF Release, Image
<1>7. t.status = "ok" BY <1>3, <1>6
<1>8. Image(t) BY <1>3, <1>4, <1>5, <1>6, <1>7 DEF Image
<1>9. \A b \in Blocks : b \notin T => t.disk[b] = s.disk[b] BY <1>6
<1> QED BY <1>1, <1>6, <1>7, <1>8, <1>9

\* No block goes back when there is none too many.
LEMMA ReleaseNone ==
    ASSUME NEW s, Image(s), s.status = "ok", NEW t, t = Release(s, <<>>)
    PROVE  /\ Image(t) /\ t.status = "ok" /\ t.fcb = s.fcb /\ t.free = s.free
           /\ \A b \in Blocks : t.disk[b] = s.disk[b]
<1>1. {<<>>[i] : i \in DOMAIN <<>>} = {} OBVIOUS
<1>2. /\ DOMAIN t = DOMAIN s /\ t.free = s.free \cup {} /\ t.fcb = s.fcb
      /\ t.free_block_count = s.free_block_count + 0
      /\ t.disk = [b \in Blocks |-> IF b \in {} THEN JunkBlock ELSE s.disk[b]]
      /\ t.status = IF {} \cap s.free # {} THEN "freed_twice" ELSE s.status
  BY <1>1 DEF Release, Image
<1>3. t.free_block_count = s.free_block_count BY <1>2 DEF Image
<1>4. Image(t) BY <1>2, <1>3 DEF Image
<1> QED BY <1>2, <1>4

-----------------------------------------------------------------------------
(* save_blocks                                                             *)

\* How many blocks the index takes, and that there is one for each purpose.
LEMMA NeedsAre ==
    ASSUME NEW n \in 0..MaxBlocks, NEW o \in 0..n
    PROVE  /\ IndexNeed(o, n) \in Nat
           /\ GetsFirst(o, n) \in 0..1 /\ GetsSecond(o, n) \in 0..1
           /\ GetsFirst(o, n) = 1 => 1 \in 1..IndexNeed(o, n)
           /\ GetsSecond(o, n) = 1 => GetsFirst(o, n) + 1 \in 1..IndexNeed(o, n)
           /\ \A i \in 1..Leaves(n) : i > Leaves(o) =>
                 GetsFirst(o, n) + GetsSecond(o, n) + i - Leaves(o)
                    \in (GetsFirst(o, n) + GetsSecond(o, n) + 1)..IndexNeed(o, n)
           /\ \A k \in 1..IndexNeed(o, n) :
                 \/ GetsFirst(o, n) = 1 /\ k = 1
                 \/ GetsSecond(o, n) = 1 /\ k = GetsFirst(o, n) + 1
                 \/ \E i \in 1..Leaves(n) :
                       i > Leaves(o) /\ k = GetsFirst(o, n) + GetsSecond(o, n) + i - Leaves(o)
<1> PICK a : a = GetsFirst(o, n) OBVIOUS
<1> PICK b : b = GetsSecond(o, n) OBVIOUS
<1>1. a \in 0..1 /\ b \in 0..1 BY DEF GetsFirst, GetsSecond
<1>2. Leaves(n) \in Nat /\ Leaves(o) \in Nat /\ Leaves(o) <= Leaves(n) BY LeavesAre
<1>3. IndexNeed(o, n) = a + b + (Leaves(n) - Leaves(o)) /\ IndexNeed(o, n) \in Nat
  BY <1>1, <1>2 DEF IndexNeed, GetsLeaves
<1>4. ASSUME NEW k \in 1..IndexNeed(o, n), k > a + b
      PROVE  \E i \in 1..Leaves(n) : i > Leaves(o) /\ k = a + b + i - Leaves(o)
  <2> DEFINE c == Leaves(n)
             d == Leaves(o)
             i == k - a - b + d
  <2>1. /\ k \in Nat /\ k <= a + b + (c - d) /\ d <= c /\ c \in Nat /\ d \in Nat
        /\ a \in Nat /\ b \in Nat
    <3>1. a \in Nat /\ b \in Nat BY <1>1
    <3>2. k \in Nat /\ k <= IndexNeed(o, n) BY <1>3
    <3> QED BY <1>2, <1>3, <3>1, <3>2
  <2> HIDE DEF c, d
  <2>2. i \in Int BY <2>1
  <2>3. i <= c BY <2>1
  <2>4. i > d BY <1>4, <2>1
  <2>5. k = a + b + i - d BY <2>1
  <2> HIDE DEF i
  <2>6. i \in 1..c BY <2>1, <2>2, <2>3, <2>4
  <2> QED BY <2>4, <2>5, <2>6 DEF c, d
<1> QED BY <1>1, <1>2, <1>3, <1>4

\* The index of n blocks written with the blocks of ix into the FCB, the block of
\* leaves and the leaves; r is the image save_blocks starts from.
Indexed(w, u, f, o, n, need, blocks, ix, mixed, leaf, r) ==
    /\ need = IndexNeed(o, n)
    /\ \A b \in Blocks : r.disk[b] = w.disk[b]
    /\ ix \in [1..need -> w.free]
    /\ \A i, j \in 1..need : ix[i] = ix[j] => i = j
    /\ mixed = MixedIndex(w.fcb[f].mixed, blocks, o, n, ix)
    /\ leaf = LeafNumbers(r, mixed[L0 + 2], o, n, ix)
    /\ u.fcb = [w.fcb EXCEPT ![f].mixed = mixed]
    /\ u.disk = [b \in Blocks |-> WithIndex(r, mixed, leaf, blocks, n, b)]
    /\ \A x : x \in u.free <=> x \in w.free /\ \A i \in 1..need : x # ix[i]
    /\ Image(u) /\ u.status = "ok"

\* What save_blocks does to a file that does not become shorter, when the pool
\* has blocks enough for the index.
LEMMA SaveBlocksIs ==
    ASSUME NEW w, Image(w), w.status = "ok", NEW f \in FileNumbers,
           NEW n \in 0..MaxBlocks, NEW o \in 0..n, o = BlockCount(w, f),
           NEW blocks \in [1..n -> Blocks], \A i \in 1..n : blocks[i] \notin w.free,
           NEW need, need = IndexNeed(o, n), need \in Nat,
           NEW u, u = SaveBlocks(w, f, blocks)
    PROVE  \/ /\ ~CanTake(w, need)
              /\ Image(u) /\ u.status = "wild_block" /\ u.fcb = w.fcb
           \/ \E ix, mixed, leaf, r : Indexed(w, u, f, o, n, need, blocks, ix, mixed, leaf, r)
<1>1. n \in Nat /\ o \in Nat /\ Len(blocks) = n
  <2>1. n \in Nat /\ o \in Nat BY BlocksOfLength, FileBlocksAssumption DEF MaxBlocks
  <2>2. blocks \in Seq(Blocks) BY <2>1, SeqDef
  <2>3. DOMAIN blocks = 1..Len(blocks) /\ Len(blocks) \in Nat BY <2>2, LenProperties
  <2> QED BY <2>1, <2>3
<1>r. PICK r : r = IF n <= o THEN Release(w, SubSeq(GetBlocks(w, f), n + 1, o)) ELSE w OBVIOUS
<1>2. /\ Image(r) /\ r.status = "ok" /\ r.fcb = w.fcb /\ r.free = w.free
      /\ \A b \in Blocks : r.disk[b] = w.disk[b]
  <2>1. CASE n > o BY <1>r, <1>1, <2>1
  <2>2. CASE n = o
    <3>1. SubSeq(GetBlocks(w, f), n + 1, o) = <<>> BY <1>1, <2>2
    <3>2. n <= o BY <1>1, <2>2
    <3>3. r = Release(w, SubSeq(GetBlocks(w, f), n + 1, o)) BY <1>r, <3>2
    <3>4. r = Release(w, <<>>) BY <3>1, <3>3
    <3> QED BY <3>4, ReleaseNone
  <2> QED BY <1>1, <2>1, <2>2
<1>i. PICK ix : ix = Lowest(r.free, need) OBVIOUS
<1>m. PICK mixed : mixed = MixedIndex(r.fcb[f].mixed, blocks, o, n, ix) OBVIOUS
<1>l. PICK leaf : leaf = LeafNumbers(r, mixed[L0 + 2], o, n, ix) OBVIOUS
<1>3. CASE ~CanTake(r, need)
  <2>1. ~CanTake(w, need) BY <1>2, <1>3 DEF CanTake, Image
  <2>2. u = [r EXCEPT !.status = "wild_block"] BY <1>r, <1>1, <1>2, <1>3 DEF SaveBlocks
  <2>3. /\ DOMAIN u = DOMAIN r /\ u.status = "wild_block" /\ u.fcb = r.fcb /\ u.free = r.free
        /\ u.disk = r.disk /\ u.free_block_count = r.free_block_count
    BY <1>2, <2>2 DEF Image
  <2>4. Image(u) BY <1>2, <2>3 DEF Image
  <2> QED BY <1>2, <2>1, <2>3, <2>4
<1>4. CASE CanTake(r, need)
  <2>t. PICK t : t = Take(r, need) OBVIOUS
  <2>1. /\ Image(t) /\ t.status = "ok" /\ t.fcb = r.fcb /\ t.disk = r.disk
        /\ \A x : x \in t.free <=> x \in r.free /\ \A i \in 1..need : x # ix[i]
        /\ ix \in [1..need -> r.free]
        /\ \A i, j \in 1..need : ix[i] = ix[j] => i = j
    <3>1. Image(r) /\ r.status = "ok" BY <1>2
    <3> QED BY <2>t, <1>i, <1>4, <3>1, TakeDoes, SMTT(30)
  <2>2. u = [t EXCEPT !.fcb[f].mixed = mixed,
                      !.disk = [b \in Blocks |-> WithIndex(r, mixed, leaf, blocks, n, b)]]
    BY <2>t, <1>r, <1>i, <1>m, <1>l, <1>1, <1>2, <1>4 DEF SaveBlocks
  <2>3. /\ DOMAIN u = DOMAIN t /\ u.status = "ok" /\ u.free = t.free
        /\ u.free_block_count = t.free_block_count
        /\ u.fcb = [t.fcb EXCEPT ![f].mixed = mixed]
        /\ u.disk = [b \in Blocks |-> WithIndex(r, mixed, leaf, blocks, n, b)]
    <3> HIDE DEF Blocks
    <3>1. DOMAIN t = {"free", "free_block_count", "status", "fcb", "disk"} BY <2>1 DEF Image
    <3> QED BY <2>1, <2>2, <3>1
  <2>4. mixed \in [1..L0 + 2 -> 0..N]
    <3>1. w.fcb[f].mixed \in [1..L0 + 2 -> 0..N] /\ r.fcb = w.fcb
      BY <1>2 DEF Image, Fcbs
    <3>2. \A i \in 1..need : ix[i] \in 0..N
      <4>1. r.free \in SUBSET Blocks BY <1>2 DEF Image
      <4>2. \A i \in 1..need : ix[i] \in r.free BY <2>1
      <4>3. Blocks \subseteq 0..N BY DEF Blocks
      <4> QED BY <4>1, <4>2, <4>3
    <3>3. \A i \in 1..n : blocks[i] \in 0..N BY DEF Blocks
    <3>4. GetsFirst(o, n) = 1 => 1 \in 1..need BY <1>1, NeedsAre
    <3>5. GetsSecond(o, n) = 1 => GetsFirst(o, n) + 1 \in 1..need BY <1>1, NeedsAre
    <3>6. \A k \in 1..L0 + 2 : k \in Nat BY FileBlocksAssumption
    <3>7. ASSUME NEW k \in 1..L0 + 2 PROVE mixed[k] \in 0..N
      <4>1. CASE k <= L0 /\ k <= n
        <5>1. k \in 1..n BY <1>1, <3>6, <4>1
        <5>2. mixed[k] = blocks[k] BY <1>m, <4>1 DEF MixedIndex
        <5> QED BY <3>3, <5>1, <5>2
      <4>2. CASE k = L0 + 1 /\ GetsFirst(o, n) = 1
        <5>1. ~(k <= L0) BY <4>2, FileBlocksAssumption
        <5>2. mixed[k] = ix[1] BY <1>m, <4>2, <5>1 DEF MixedIndex
        <5> QED BY <3>2, <3>4, <4>2, <5>2
      <4>3. CASE k = L0 + 2 /\ GetsSecond(o, n) = 1
        BY <1>m, <3>2, <3>5, <4>3, FileBlocksAssumption DEF MixedIndex
      <4>4. CASE ~(k <= L0 /\ k <= n) /\ ~(k = L0 + 1 /\ GetsFirst(o, n) = 1)
                 /\ ~(k = L0 + 2 /\ GetsSecond(o, n) = 1)
        BY <1>m, <3>1, <4>4 DEF MixedIndex
      <4> QED BY <4>1, <4>2, <4>3, <4>4
    <3> QED BY <1>m, <3>7 DEF MixedIndex
  <2>5. Image(u)
    <3>1. t.fcb \in [FileNumbers -> Fcbs] BY <2>1 DEF Image
    <3>2. t.fcb[f] \in Fcbs BY <3>1
    <3>3. [t.fcb[f] EXCEPT !.mixed = mixed] \in Fcbs BY <2>4, <3>2 DEF Fcbs
    <3>4. u.fcb \in [FileNumbers -> Fcbs] BY <2>3, <3>1, <3>3
    <3> QED BY <2>1, <2>3, <3>4 DEF Image
  <2>6. u.fcb = [w.fcb EXCEPT ![f].mixed = mixed] BY <1>2, <2>1, <2>3
  <2>7. mixed = MixedIndex(w.fcb[f].mixed, blocks, o, n, ix) BY <1>m, <1>2
  <2>8. \A x : x \in u.free <=> x \in w.free /\ \A i \in 1..need : x # ix[i]
    BY <1>2, <2>1, <2>3
  <2>9. ix \in [1..need -> w.free] BY <1>2, <2>1
  <2>10. Indexed(w, u, f, o, n, need, blocks, ix, mixed, leaf, r)
    <3>1. \A b \in Blocks : r.disk[b] = w.disk[b] BY <1>2
    <3>2. leaf = LeafNumbers(r, mixed[L0 + 2], o, n, ix) BY <1>l
    <3>3. u.disk = [b \in Blocks |-> WithIndex(r, mixed, leaf, blocks, n, b)] BY <2>3
    <3>4. \A i, j \in 1..need : ix[i] = ix[j] => i = j BY <2>1
    <3>5. u.status = "ok" BY <2>3
    <3>6. need = IndexNeed(o, n) OBVIOUS
    <3> QED BY <2>5, <2>6, <2>7, <2>8, <2>9, <3>1, <3>2, <3>3, <3>4, <3>5, <3>6, Zenon DEF Indexed
  <2> QED BY <2>10, Zenon
<1> QED BY <1>3, <1>4

\* The index slots a longer file has more each get a block of ix of their own.
Rank(o, n, p) ==
    IF p[1] = "leaf" THEN GetsFirst(o, n) + GetsSecond(o, n) + p[2] - Leaves(o)
    ELSE IF p[2] = 1 THEN 1 ELSE GetsFirst(o, n) + 1

LEMMA SlotCases ==
    ASSUME NEW n, NEW p \in IndexSlots(n)
    PROVE  \/ n > L0 /\ p = <<"index", 1>> /\ p[1] = "index" /\ p[2] = 1
           \/ n > L0 + B /\ p = <<"index", 2>> /\ p[1] = "index" /\ p[2] = 2
           \/ \E i \in 1..Leaves(n) : p = <<"leaf", i>> /\ p[1] = "leaf" /\ p[2] = i
BY DEF IndexSlots

LEMMA SlotsAre ==
    ASSUME NEW n
    PROVE  /\ <<"index", 1>> \in IndexSlots(n) <=> n > L0
           /\ <<"index", 2>> \in IndexSlots(n) <=> n > L0 + B
           /\ \A i : <<"leaf", i>> \in IndexSlots(n) <=> i \in 1..Leaves(n)
BY DEF IndexSlots

LEMMA RanksAre ==
    ASSUME NEW n \in 0..MaxBlocks, NEW o \in 0..n, NEW p \in IndexSlots(n),
           p \notin IndexSlots(o)
    PROVE  /\ Rank(o, n, p) \in 1..IndexNeed(o, n)
           /\ p[1] = "leaf" => p[2] \in 1..Leaves(n) /\ p[2] > Leaves(o)
           /\ \A q \in IndexSlots(n) : q \notin IndexSlots(o) =>
                 (Rank(o, n, p) = Rank(o, n, q) => p = q)
<1> DEFINE a == GetsFirst(o, n)
           b == GetsSecond(o, n)
           c == Leaves(n)
           d == Leaves(o)
           x == IndexNeed(o, n)
<1>1. /\ n \in Nat /\ o \in Nat /\ L0 \in Nat /\ B \in Nat /\ o <= n
  BY FileBlocksAssumption, BlocksOfLength DEF MaxBlocks
<1>2. /\ c \in Nat /\ d \in Nat /\ d <= c BY LeavesAre
<1>3. ASSUME NEW q \in IndexSlots(n), q \notin IndexSlots(o)
      PROVE  \/ q = <<"index", 1>> /\ a = 1 /\ Rank(o, n, q) = 1 /\ q[1] # "leaf"
             \/ q = <<"index", 2>> /\ b = 1 /\ Rank(o, n, q) = a + 1 /\ q[1] # "leaf"
             \/ \E i \in 1..c : /\ i > d /\ q = <<"leaf", i>> /\ q[2] = i
                                /\ Rank(o, n, q) = a + b + i - d
  <2>1. CASE n > L0 /\ q = <<"index", 1>>
    BY <1>1, <1>3, <2>1, SlotsAre DEF Rank, GetsFirst
  <2>2. CASE n > L0 + B /\ q = <<"index", 2>>
    BY <1>1, <1>3, <2>2, SlotsAre DEF Rank, GetsSecond
  <2>3. ASSUME NEW i \in 1..c, q = <<"leaf", i>>
        PROVE  i > d /\ q[2] = i /\ Rank(o, n, q) = a + b + i - d
    <3>1. i \notin 1..d BY <1>3, <2>3, SlotsAre
    <3> QED BY <1>1, <1>2, <2>3, <3>1 DEF Rank
  <2> QED BY <1>3, <2>1, <2>2, <2>3, SlotCases
<1>4. /\ a \in 0..1 /\ b \in 0..1 /\ (a = 1 => 1 \in 1..x) /\ (b = 1 => a + 1 \in 1..x)
      /\ \A i \in 1..c : i > d => a + b + i - d \in (a + b + 1)..x /\ a + b + i - d \in 1..x
  BY <1>1, <1>2, NeedsAre
<1> HIDE DEF a, b, c, d, x
<1>5. Rank(o, n, p) \in 1..x BY <1>3, <1>4
<1>6. p[1] = "leaf" => p[2] \in 1..c /\ p[2] > d BY <1>3
<1>7. ASSUME NEW q \in IndexSlots(n), q \notin IndexSlots(o), Rank(o, n, p) = Rank(o, n, q)
      PROVE  p = q
  BY <1>2, <1>3, <1>4, <1>7
<1> QED BY <1>5, <1>6, <1>7 DEF c, d, x

\* A longer file has the index slots of the shorter one, and each block of ix has its slot.
LEMMA IndexGrows ==
    ASSUME NEW n \in 0..MaxBlocks, NEW o \in 0..n
    PROVE  /\ IndexSlots(o) \subseteq IndexSlots(n)
           /\ \A i \in 1..IndexNeed(o, n) :
                 \E p \in IndexSlots(n) : p \notin IndexSlots(o) /\ Rank(o, n, p) = i
<1>1. /\ n \in Nat /\ o \in Nat /\ L0 \in Nat /\ B \in Nat /\ o <= n
  BY FileBlocksAssumption, BlocksOfLength DEF MaxBlocks
<1>2. Leaves(n) \in Nat /\ Leaves(o) \in Nat /\ Leaves(o) <= Leaves(n) BY LeavesAre
<1>3. IndexSlots(o) \subseteq IndexSlots(n)
  <2>1. (o > L0 => n > L0) /\ (o > L0 + B => n > L0 + B) BY <1>1
  <2>2. 1..Leaves(o) \subseteq 1..Leaves(n) BY <1>2
  <2> QED BY <2>1, <2>2 DEF IndexSlots
<1>4. ASSUME NEW i \in 1..IndexNeed(o, n)
      PROVE  \E p \in IndexSlots(n) : p \notin IndexSlots(o) /\ Rank(o, n, p) = i
  <2>1. CASE GetsFirst(o, n) = 1 /\ i = 1
    <3>1. ~(o > L0) /\ n > L0 BY <1>1, <2>1 DEF GetsFirst
    <3>2. Rank(o, n, <<"index", 1>>) = 1 BY DEF Rank
    <3> QED BY <2>1, <3>1, <3>2, SlotsAre
  <2>2. CASE GetsSecond(o, n) = 1 /\ i = GetsFirst(o, n) + 1
    <3>1. ~(o > L0 + B) /\ n > L0 + B BY <1>1, <2>2 DEF GetsSecond
    <3>2. Rank(o, n, <<"index", 2>>) = GetsFirst(o, n) + 1 BY DEF Rank
    <3> QED BY <2>2, <3>1, <3>2, SlotsAre
  <2>3. ASSUME NEW j \in 1..Leaves(n), j > Leaves(o),
               i = GetsFirst(o, n) + GetsSecond(o, n) + j - Leaves(o)
        PROVE  \E p \in IndexSlots(n) : p \notin IndexSlots(o) /\ Rank(o, n, p) = i
    <3>1. j \notin 1..Leaves(o) BY <1>2, <2>3
    <3>2. Rank(o, n, <<"leaf", j>>) = GetsFirst(o, n) + GetsSecond(o, n) + j - Leaves(o)
      BY DEF Rank
    <3> QED BY <2>3, <3>1, <3>2, SlotsAre
  <2> QED BY <2>1, <2>2, <2>3, NeedsAre
<1> QED BY <1>3, <1>4

\* What the new index slots hold.
NewAt(mixed, leaf, p) == IF p[1] = "leaf" THEN leaf[p[2]] ELSE mixed[L0 + p[2]]
IndexInUse(w, f, o) == \A p \in IndexSlots(o) : BlockAt(w, f, p) \in Blocks
IndexBecomes(w, f, o, n, ix, mixed, leaf) ==
    \A p \in IndexSlots(n) :
       NewAt(mixed, leaf, p) = IF p \in IndexSlots(o) THEN BlockAt(w, f, p)
                               ELSE ix[Rank(o, n, p)]

LEMMA NewIndexIs ==
    ASSUME NEW w, NEW u, NEW f \in FileNumbers, NEW n \in 0..MaxBlocks, NEW o \in 0..n,
           NEW need, NEW blocks, NEW ix, NEW mixed, NEW leaf, NEW r,
           Indexed(w, u, f, o, n, need, blocks, ix, mixed, leaf, r), IndexInUse(w, f, o)
    PROVE  IndexBecomes(w, f, o, n, ix, mixed, leaf)
<1>1. /\ n \in Nat /\ o \in Nat /\ L0 \in Nat /\ L0 > 0 /\ B \in Nat /\ B > 0 /\ o <= n
  BY FileBlocksAssumption, BlocksOfLength DEF MaxBlocks
<1> DEFINE old == w.fcb[f].mixed
<1>2. /\ mixed[L0 + 1] = IF GetsFirst(o, n) = 1 THEN ix[1] ELSE old[L0 + 1]
      /\ mixed[L0 + 2] = IF GetsSecond(o, n) = 1 THEN ix[GetsFirst(o, n) + 1] ELSE old[L0 + 2]
  <2>1. mixed = MixedIndex(old, blocks, o, n, ix) BY DEF Indexed
  <2>2. L0 + 1 \in 1..L0 + 2 /\ L0 + 2 \in 1..L0 + 2 /\ ~(L0 + 1 <= L0) /\ ~(L0 + 2 <= L0)
        /\ L0 + 1 # L0 + 2
    BY <1>1
  <2> QED BY <2>1, <2>2 DEF MixedIndex
<1>3. ASSUME n > L0
      PROVE  NewAt(mixed, leaf, <<"index", 1>>) = IF <<"index", 1>> \in IndexSlots(o)
                                                  THEN BlockAt(w, f, <<"index", 1>>)
                                                  ELSE ix[Rank(o, n, <<"index", 1>>)]
  <2>1. NewAt(mixed, leaf, <<"index", 1>>) = mixed[L0 + 1] BY DEF NewAt
  <2>2. Rank(o, n, <<"index", 1>>) = 1 BY DEF Rank
  <2>3. GetsFirst(o, n) = 1 <=> ~(o > L0) BY <1>1, <1>3 DEF GetsFirst
  <2> QED BY <1>2, <2>1, <2>2, <2>3, SlotsAre, BlocksAre
<1>4. ASSUME n > L0 + B
      PROVE  NewAt(mixed, leaf, <<"index", 2>>) = IF <<"index", 2>> \in IndexSlots(o)
                                                  THEN BlockAt(w, f, <<"index", 2>>)
                                                  ELSE ix[Rank(o, n, <<"index", 2>>)]
  <2>1. NewAt(mixed, leaf, <<"index", 2>>) = mixed[L0 + 2] BY DEF NewAt
  <2>2. Rank(o, n, <<"index", 2>>) = GetsFirst(o, n) + 1 BY DEF Rank
  <2>3. GetsSecond(o, n) = 1 <=> ~(o > L0 + B) BY <1>1, <1>4 DEF GetsSecond
  <2> QED BY <1>2, <2>1, <2>2, <2>3, SlotsAre, BlocksAre
<1>5. ASSUME NEW i \in 1..Leaves(n)
      PROVE  NewAt(mixed, leaf, <<"leaf", i>>) = IF <<"leaf", i>> \in IndexSlots(o)
                                                 THEN BlockAt(w, f, <<"leaf", i>>)
                                                 ELSE ix[Rank(o, n, <<"leaf", i>>)]
  <2>1. NewAt(mixed, leaf, <<"leaf", i>>) = leaf[i] BY DEF NewAt
  <2>2. Rank(o, n, <<"leaf", i>>) = GetsFirst(o, n) + GetsSecond(o, n) + i - Leaves(o)
    BY DEF Rank
  <2>3. Leaves(o) \in Nat /\ Leaves(n) \in Nat BY LeavesAre
  <2>4. <<"leaf", i>> \in IndexSlots(o) <=> i <= Leaves(o) BY <2>3, SlotsAre
  <2>5. leaf[i] = IF i <= Leaves(o) THEN NumberAt(r, mixed[L0 + 2], i)
                  ELSE ix[GetsFirst(o, n) + GetsSecond(o, n) + i - Leaves(o)]
    BY DEF Indexed, LeafNumbers
  <2>6. ASSUME i <= Leaves(o) PROVE NumberAt(r, mixed[L0 + 2], i) = LeafAt(w, f, i)
    <3>0. o \in 0..MaxBlocks /\ Leaves(o) # 0 BY <1>1, <2>3, <2>6, Bounds
    <3>1. o > L0 + B
      <4>1. o <= L0 + B <=> Leaves(o) = 0 BY <3>0, LeavesAre
      <4> QED BY <1>1, <3>0, <4>1
    <3>2. mixed[L0 + 2] = old[L0 + 2] BY <1>1, <1>2, <3>1 DEF GetsSecond
    <3>3. old[L0 + 2] \in Blocks BY <3>1, SlotsAre, BlocksAre DEF IndexInUse
    <3>4. r.disk[old[L0 + 2]] = w.disk[old[L0 + 2]] BY <3>3 DEF Indexed
    <3> QED BY <3>2, <3>4 DEF NumberAt, LeafAt
  <2> QED BY <2>1, <2>2, <2>4, <2>5, <2>6, BlocksAre
<1> QED BY <1>3, <1>4, <1>5, SlotCases DEF IndexBecomes

\* The index blocks of the longer file are those it had and free ones, and no two
\* of them are the same.
IndexApart(w, f, o, n, blocks) ==
    \A p \in IndexSlots(o) :
        /\ BlockAt(w, f, p) \in Blocks \ w.free
        /\ \A i \in 1..n : BlockAt(w, f, p) # blocks[i]
        /\ \A q \in IndexSlots(o) : BlockAt(w, f, p) = BlockAt(w, f, q) => p = q
NewIndexApart(w, u, f, o, n, blocks, mixed, leaf) ==
    \A p \in IndexSlots(n) :
        /\ NewAt(mixed, leaf, p) \in Blocks \ u.free
        /\ \/ p \in IndexSlots(o) /\ NewAt(mixed, leaf, p) = BlockAt(w, f, p)
           \/ NewAt(mixed, leaf, p) \in w.free
        /\ \A i \in 1..n : NewAt(mixed, leaf, p) # blocks[i]
        /\ \A q \in IndexSlots(n) : NewAt(mixed, leaf, p) = NewAt(mixed, leaf, q) => p = q
LEMMA NewIndexIsSound ==
    ASSUME NEW w, Image(w), NEW u, NEW f \in FileNumbers, NEW n \in 0..MaxBlocks, NEW o \in 0..n,
           NEW need, NEW blocks \in [1..n -> Blocks], \A i \in 1..n : blocks[i] \notin w.free,
           NEW ix, NEW mixed, NEW leaf, NEW r,
           Indexed(w, u, f, o, n, need, blocks, ix, mixed, leaf, r),
           IndexApart(w, f, o, n, blocks)
    PROVE  NewIndexApart(w, u, f, o, n, blocks, mixed, leaf)
<1> DEFINE New(p) == NewAt(mixed, leaf, p)
<1>1. /\ \A p \in IndexSlots(n) : p \in IndexSlots(o) => New(p) = BlockAt(w, f, p)
      /\ \A p \in IndexSlots(n) : p \notin IndexSlots(o) => New(p) = ix[Rank(o, n, p)]
  <2> HIDE DEF New
  <2>1. IndexInUse(w, f, o) BY DEF IndexInUse, IndexApart
  <2>2. IndexBecomes(w, f, o, n, ix, mixed, leaf) BY <2>1, NewIndexIs
  <2> QED BY <2>2 DEF IndexBecomes, New
<1>2. /\ ix \in [1..need -> w.free] /\ need = IndexNeed(o, n)
      /\ \A i, j \in 1..need : ix[i] = ix[j] => i = j
      /\ \A x : x \in u.free <=> x \in w.free /\ \A i \in 1..need : x # ix[i]
  BY DEF Indexed
<1>3. w.free \subseteq Blocks BY DEF Image
<1>4. ASSUME NEW p \in IndexSlots(n), p \notin IndexSlots(o)
      PROVE  /\ Rank(o, n, p) \in 1..need
             /\ \A q \in IndexSlots(n) : q \notin IndexSlots(o) =>
                   (Rank(o, n, p) = Rank(o, n, q) => p = q)
  BY <1>2, <1>4, RanksAre
<1>5. ASSUME NEW p \in IndexSlots(n), p \notin IndexSlots(o)
      PROVE  New(p) \in w.free /\ New(p) \notin u.free
  BY <1>1, <1>2, <1>4, <1>5
<1> HIDE DEF New
<1>6. ASSUME NEW p \in IndexSlots(n), p \in IndexSlots(o)
      PROVE  /\ New(p) \in Blocks \ w.free /\ New(p) \notin u.free
             /\ \A i \in 1..n : New(p) # blocks[i]
  BY <1>1, <1>2, <1>6 DEF IndexApart
<1>7. ASSUME NEW p \in IndexSlots(n), NEW q \in IndexSlots(n), New(p) = New(q)
      PROVE  p = q
  <2>1. CASE p \in IndexSlots(o) /\ q \in IndexSlots(o) BY <1>1, <1>7, <2>1 DEF IndexApart
  <2>2. CASE p \in IndexSlots(o) /\ q \notin IndexSlots(o) BY <1>5, <1>6, <1>7, <2>2
  <2>3. CASE p \notin IndexSlots(o) /\ q \in IndexSlots(o) BY <1>5, <1>6, <1>7, <2>3
  <2>4. CASE p \notin IndexSlots(o) /\ q \notin IndexSlots(o)
    <3>1. ix[Rank(o, n, p)] = ix[Rank(o, n, q)] BY <1>1, <1>7, <2>4
    <3>2. Rank(o, n, p) = Rank(o, n, q) BY <1>2, <1>4, <2>4, <3>1
    <3> QED BY <1>4, <2>4, <3>2
  <2> QED BY <2>1, <2>2, <2>3, <2>4
<1>8. ASSUME NEW p \in IndexSlots(n)
      PROVE  /\ New(p) \in Blocks \ u.free
             /\ (p \in IndexSlots(o) /\ New(p) = BlockAt(w, f, p)) \/ New(p) \in w.free
             /\ \A i \in 1..n : New(p) # blocks[i]
  BY <1>1, <1>3, <1>5, <1>6
<1> QED BY <1>7, <1>8 DEF New, NewIndexApart

\* A part of a sequence of blocks.
LEMMA PartIs ==
    ASSUME NEW n \in Nat, NEW blocks \in [1..n -> Blocks], NEW a \in 0..n, NEW e \in a..n
    PROVE  /\ Len(SubSeq(blocks, a + 1, e)) = e - a
           /\ \A i \in 1..e - a : SubSeq(blocks, a + 1, e)[i] = blocks[a + i]
<1>1. blocks \in Seq(Blocks) BY SeqDef
<1>2. Len(blocks) = n BY <1>1, LenProperties
<1>3. e - a \in Nat OBVIOUS
<1>4. SubSeq(blocks, a + 1, e) = [i \in 1..e - a |-> blocks[a + i]] BY <1>1, <1>2
<1> QED BY <1>3, <1>4

\* The number of a block of the second level is in one place of one leaf.
LEMMA PlaceInLeaf ==
    ASSUME NEW n \in 0..MaxBlocks, NEW k \in 1..n, k > L0 + B
    PROVE  \E l \in 1..Leaves(n), i \in 1..B :
              /\ k = L0 + B + (l - 1) * B + i
              /\ \A s, f : DataAt(s, f, k) = NumberAt(s, LeafAt(s, f, l), i)
<1> DEFINE j == k - L0 - B - 1
           l == (j \div B) + 1
           i == (j % B) + 1
<1>1. l \in 1..Leaves(n) /\ i \in 1..B BY InLeaf
<1>2. k = L0 + B + (l - 1) * B + i
  <2>1. B \in Nat /\ L0 \in Nat /\ k \in Nat /\ j \in Nat BY Bounds
  <2> PICK q \in Nat : q = j \div B BY <2>1, Division
  <2> PICK r \in Nat : r = j % B BY <2>1, Division
  <2>2. j = B * q + r BY <2>1, Division
  <2>3. (l - 1) * B = B * q BY <2>1
  <2>4. i = r + 1 OBVIOUS
  <2> QED BY <2>1, <2>2, <2>3, <2>4
<1>3. ~(k <= L0) /\ ~(k <= L0 + B)
  <2>1. B \in Nat /\ L0 \in Nat /\ n \in Nat BY Bounds
  <2> QED BY <2>1
<1>4. \A s, f : DataAt(s, f, k) = NumberAt(s, LeafAt(s, f, l), i) BY <1>3 DEF DataAt
<1> HIDE DEF l, i
<1> QED BY <1>1, <1>2, <1>4

\* The numbers a..a + B of a file are read back from the block they were written to.
HasPart(u, r, b, blocks, n, a) ==
    u.disk[b] = Numbers(r, b, SubSeq(blocks, a + 1, Least(n, a + B)))
LEMMA PartReadsBack ==
    ASSUME NEW n \in Nat, NEW blocks \in [1..n -> Blocks], NEW a \in 0..n,
           NEW r, NEW u, NEW b, HasPart(u, r, b, blocks, n, a),
           NEW k \in 1..n, a < k, k <= a + B
    PROVE  NumberAt(u, b, k - a) = blocks[k]
<1>1. B \in Nat /\ B > 0 BY Bounds
<1> PICK e \in a..n : e = Least(n, a + B) /\ k <= e /\ e <= a + B BY <1>1 DEF Least
<1> PICK part : part = SubSeq(blocks, a + 1, e) OBVIOUS
<1>2. Len(part) = e - a /\ \A i \in 1..e - a : part[i] = blocks[a + i] BY PartIs
<1>3. k - a \in 1..e - a /\ k - a \in 1..B /\ k - a <= Len(part) BY <1>1, <1>2
<1>4. part[k - a] = blocks[k]
  <2>1. part[k - a] = blocks[a + (k - a)] BY <1>2, <1>3
  <2>2. a + (k - a) = k OBVIOUS
  <2> QED BY <2>1, <2>2
<1>5. Numbers(r, b, part)[k - a] = <<"num", part[k - a], 0>> BY <1>3 DEF Numbers
<1>6. NumberAt(u, b, k - a) = part[k - a]
  <2>1. u.disk[b] = Numbers(r, b, part) BY DEF HasPart
  <2> QED BY <1>5, <2>1 DEF NumberAt
<1> QED BY <1>4, <1>6

\* The index written by save_blocks leads to the blocks it was given, and no other
\* block is written.
IndexLeads(w, u, f, n, blocks, mixed, leaf) ==
    /\ \A p \in IndexSlots(n) : BlockAt(u, f, p) = NewAt(mixed, leaf, p)
    /\ \A i \in 1..n : DataAt(u, f, i) = blocks[i]
    /\ \A b \in Blocks :
          (\A p \in IndexSlots(n) : b # NewAt(mixed, leaf, p)) => u.disk[b] = w.disk[b]
LEMMA IndexHolds ==
    ASSUME NEW w, Image(w), NEW u, NEW f \in FileNumbers, NEW n \in 0..MaxBlocks,
           NEW o \in 0..n, NEW need, NEW blocks \in [1..n -> Blocks],
           NEW ix, NEW mixed, NEW leaf, NEW r,
           Indexed(w, u, f, o, n, need, blocks, ix, mixed, leaf, r),
           NewIndexApart(w, u, f, o, n, blocks, mixed, leaf)
    PROVE  IndexLeads(w, u, f, n, blocks, mixed, leaf)
<1> DEFINE New(p) == NewAt(mixed, leaf, p)
           first == <<"index", 1>>
           second == <<"index", 2>>
           third(l) == <<"leaf", l>>
<1>1. /\ n \in Nat /\ L0 \in Nat /\ L0 > 0 /\ B \in Nat /\ B > 0
  BY Bounds
<1>2. u.fcb[f].mixed = mixed
  <2>1. u.fcb = [w.fcb EXCEPT ![f].mixed = mixed] BY DEF Indexed
  <2>2. w.fcb[f] \in Fcbs /\ f \in DOMAIN w.fcb BY DEF Image
  <2> QED BY <2>1, <2>2 DEF Fcbs
<1>3. \A b \in Blocks : u.disk[b] = WithIndex(r, mixed, leaf, blocks, n, b) /\ r.disk[b] = w.disk[b]
  BY DEF Indexed
<1>4. Leaves(n) \in 0..B /\ (n <= L0 + B <=> Leaves(n) = 0) BY LeavesAre
<1>5. /\ New(first) = mixed[L0 + 1] /\ New(second) = mixed[L0 + 2]
      /\ \A l : New(third(l)) = leaf[l]
  BY DEF NewAt
<1>6. \A p \in IndexSlots(n) : /\ New(p) \in Blocks
                               /\ \A q \in IndexSlots(n) : New(p) = New(q) => p = q
  BY DEF NewIndexApart
<1> HIDE DEF New
<1>7. ASSUME n > L0
      PROVE  HasPart(u, r, mixed[L0 + 1], blocks, n, L0)
  <2>1. mixed[L0 + 1] \in Blocks BY <1>5, <1>6, <1>7, SlotsAre
  <2> QED BY <1>3, <1>7, <2>1 DEF WithIndex, HasPart
<1>8. ASSUME n > L0 + B
      PROVE  u.disk[mixed[L0 + 2]] = Numbers(r, mixed[L0 + 2], leaf)
  <2>1. first \in IndexSlots(n) /\ second \in IndexSlots(n) /\ first # second
    BY <1>1, <1>8, SlotsAre
  <2>2. mixed[L0 + 2] \in Blocks /\ mixed[L0 + 2] # mixed[L0 + 1] BY <1>5, <1>6, <2>1
  <2> QED BY <1>3, <1>8, <2>2 DEF WithIndex
<1>9. ASSUME NEW l \in 1..Leaves(n)
      PROVE  HasPart(u, r, leaf[l], blocks, n, L0 + B + (l - 1) * B)
  <2>1. n > L0 + B BY <1>1, <1>4, <1>9
  <2>2. /\ first \in IndexSlots(n) /\ second \in IndexSlots(n) /\ third(l) \in IndexSlots(n)
        /\ first # third(l) /\ second # third(l)
    BY <1>1, <2>1, SlotsAre
  <2>3. leaf[l] \in Blocks /\ leaf[l] # mixed[L0 + 1] /\ leaf[l] # mixed[L0 + 2]
    BY <1>5, <1>6, <2>2
  <2>4. ASSUME NEW i \in 1..Leaves(n), leaf[i] = leaf[l] PROVE i = l
    <3>1. third(i) \in IndexSlots(n) /\ New(third(i)) = New(third(l)) BY <1>5, <2>4, SlotsAre
    <3>2. third(i) = third(l) BY <1>6, <2>2, <3>1
    <3> QED BY <3>2
  <2>5. {i \in 1..Leaves(n) : leaf[i] = leaf[l]} = {l} BY <2>4
  <2>6. (CHOOSE i \in {l} : TRUE) = l OBVIOUS
  <2>7. WithIndex(r, mixed, leaf, blocks, n, leaf[l]) =
           Numbers(r, leaf[l], SubSeq(blocks, L0 + B + (l - 1) * B + 1,
                                      Least(n, L0 + B + (l - 1) * B + B)))
    BY <2>3, <2>5, <2>6 DEF WithIndex
  <2> QED BY <1>3, <2>3, <2>7 DEF HasPart
<1>10. ASSUME NEW i \in 1..Leaves(n) PROVE LeafAt(u, f, i) = leaf[i]
  <2>1. n > L0 + B /\ i \in 1..B BY <1>1, <1>4, <1>10
  <2>2. Len(leaf) = Leaves(n) BY <1>4 DEF Indexed, LeafNumbers
  <2>3. u.disk[mixed[L0 + 2]] = Numbers(r, mixed[L0 + 2], leaf) BY <1>8, <2>1
  <2>4. i <= Len(leaf) BY <1>4, <2>2
  <2>5. Numbers(r, mixed[L0 + 2], leaf)[i] = <<"num", leaf[i], 0>> BY <2>1, <2>4 DEF Numbers
  <2> QED BY <1>2, <2>3, <2>5 DEF LeafAt, NumberAt
<1>11. \A p \in IndexSlots(n) : BlockAt(u, f, p) = New(p)
  <2> SUFFICES ASSUME NEW p \in IndexSlots(n) PROVE BlockAt(u, f, p) = New(p)
    OBVIOUS
  <2>1. CASE p = first BY <1>2, <1>5, <2>1, BlocksAre
  <2>2. CASE p = second BY <1>2, <1>5, <2>2, BlocksAre
  <2>3. ASSUME NEW l \in 1..Leaves(n), p = third(l) PROVE BlockAt(u, f, p) = New(p)
    <3>1. BlockAt(u, f, third(l)) = LeafAt(u, f, l) BY BlocksAre
    <3> QED BY <1>5, <1>10, <2>3, <3>1
  <2> QED BY <2>1, <2>2, <2>3, SlotCases
<1>12. ASSUME NEW k \in 1..n PROVE DataAt(u, f, k) = blocks[k]
  <2>1. CASE k <= L0
    <3>1. mixed = MixedIndex(w.fcb[f].mixed, blocks, o, n, ix) BY DEF Indexed
    <3>2. k \in 1..L0 + 2 /\ k <= n BY <1>1, <2>1
    <3>3. mixed[k] = blocks[k] BY <2>1, <3>1, <3>2 DEF MixedIndex
    <3> QED BY <1>2, <2>1, <3>3 DEF DataAt
  <2>2. CASE k > L0 /\ k <= L0 + B
    <3>1. n > L0 /\ L0 \in 0..n BY <1>1, <2>2
    <3>2. HasPart(u, r, mixed[L0 + 1], blocks, n, L0) BY <1>7, <3>1
    <3>3. NumberAt(u, mixed[L0 + 1], k - L0) = blocks[k]
      BY <1>1, <2>2, <3>1, <3>2, PartReadsBack
    <3> QED BY <1>1, <1>2, <2>2, <3>3 DEF DataAt
  <2>3. CASE k > L0 + B
    <3> PICK l \in 1..Leaves(n), i \in 1..B :
               /\ k = L0 + B + (l - 1) * B + i
               /\ \A s, g : DataAt(s, g, k) = NumberAt(s, LeafAt(s, g, l), i)
      BY <2>3, PlaceInLeaf
    <3>1. LeafAt(u, f, l) = leaf[l] BY <1>10
    <3> PICK a : a = L0 + B + (l - 1) * B OBVIOUS
    <3>2. (l - 1) * B \in Nat BY <1>1, <1>4
    <3>3. a \in Nat /\ k = a + i BY <1>1, <3>2
    <3>4. HasPart(u, r, leaf[l], blocks, n, a) BY <1>9
    <3>5. a \in 0..n /\ a < k /\ k <= a + B /\ k - a = i BY <1>1, <3>3
    <3>6. NumberAt(u, leaf[l], k - a) = blocks[k] BY <1>1, <3>4, <3>5, PartReadsBack
    <3> QED BY <3>1, <3>5, <3>6
  <2> QED BY <1>1, <2>1, <2>2, <2>3
<1>13. ASSUME NEW b \in Blocks, \A p \in IndexSlots(n) : b # New(p)
       PROVE  u.disk[b] = w.disk[b]
  <2>1. n > L0 => b # mixed[L0 + 1] BY <1>5, <1>13, SlotsAre
  <2>2. n > L0 + B => b # mixed[L0 + 2] BY <1>5, <1>13, SlotsAre
  <2>3. \A i \in 1..Leaves(n) : leaf[i] # b BY <1>5, <1>13, SlotsAre
  <2>4. {i \in 1..Leaves(n) : leaf[i] = b} = {} BY <2>3
  <2>5. WithIndex(r, mixed, leaf, blocks, n, b) = r.disk[b] BY <2>1, <2>2, <2>4 DEF WithIndex
  <2> QED BY <1>3, <2>5
<1> QED BY <1>11, <1>12, <1>13 DEF New, IndexLeads

-----------------------------------------------------------------------------
(* Writing                                                                 *)

LEMMA AsSequence ==
    ASSUME NEW m \in Nat, NEW g \in [1..m -> Blocks]
    PROVE  g \in Seq(Blocks) /\ Len(g) = m
<1>1. g \in Seq(Blocks) BY SeqDef
<1>2. Len(g) \in Nat /\ 1..Len(g) = 1..m BY <1>1, LenProperties
<1> QED BY <1>1, <1>2

LEMMA Joined ==
    ASSUME NEW a \in Nat, NEW b \in Nat, NEW g \in [1..a -> Blocks], NEW h \in [1..b -> Blocks]
    PROVE  /\ g \o h \in [1..a + b -> Blocks]
           /\ \A i \in 1..a : (g \o h)[i] = g[i]
           /\ \A i \in 1..b : (g \o h)[a + i] = h[i]
<1>1. g \in Seq(Blocks) /\ Len(g) = a /\ h \in Seq(Blocks) /\ Len(h) = b BY AsSequence
<1>2. /\ g \o h \in Seq(Blocks) /\ Len(g \o h) = a + b
      /\ \A i \in 1..a + b : (g \o h)[i] = IF i <= a THEN g[i] ELSE h[i - a]
  BY <1>1, ConcatProperties
<1>3. g \o h \in [1..a + b -> Blocks] BY <1>2, LenProperties
<1>4. \A i \in 1..a : (g \o h)[i] = g[i] BY <1>2
<1>5. ASSUME NEW i \in 1..b PROVE (g \o h)[a + i] = h[i]
  <2>1. a + i \in 1..a + b /\ ~(a + i <= a) /\ a + i - a = i OBVIOUS
  <2> QED BY <1>2, <2>1
<1> QED BY <1>3, <1>4, <1>5

\* The beginning of a sequence.
LEMMA Beginning ==
    ASSUME NEW g, NEW a \in Nat, \A i \in 1..a : g[i] \in Blocks
    PROVE  /\ SubSeq(g, 1, a) \in [1..a -> Blocks]
           /\ \A i \in 1..a : SubSeq(g, 1, a)[i] = g[i]
<1>1. /\ SubSeq(g, 1, a) \in Seq(Blocks)
      /\ Len(SubSeq(g, 1, a)) = IF 1 <= a THEN a - 1 + 1 ELSE 0
      /\ \A i \in 1..a - 1 + 1 : SubSeq(g, 1, a)[i] = g[1 + i - 1]
  BY SubSeqProperties
<1>2. Len(SubSeq(g, 1, a)) = a BY <1>1
<1>3. SubSeq(g, 1, a) \in [1..a -> Blocks] BY <1>1, <1>2, LenProperties
<1>4. ASSUME NEW i \in 1..a PROVE SubSeq(g, 1, a)[i] = g[i]
  <2>1. i \in 1..a - 1 + 1 /\ 1 + i - 1 = i OBVIOUS
  <2> QED BY <1>1, <2>1
<1> QED BY <1>3, <1>4

\* The blocks of a file after a write: those before the position and fresh ones.
Keeps(s, f, keep, m, got, blocks) ==
    /\ blocks \in [1..keep + m -> Blocks]
    /\ \A i \in 1..keep : blocks[i] = DataAt(s, f, i)
    /\ \A i \in 1..m : blocks[keep + i] = got[i]
LEMMA KeptAndFresh ==
    ASSUME NEW s, NEW f, BlockCount(s, f) \in Nat, NEW keep \in 0..BlockCount(s, f),
           \A i \in 1..keep : DataAt(s, f, i) \in Blocks,
           NEW m \in Nat, NEW got \in [1..m -> Blocks]
    PROVE  Keeps(s, f, keep, m, got, SubSeq(GetBlocks(s, f), 1, keep) \o got)
<1>1. \A i \in 1..keep : GetBlocks(s, f)[i] = DataAt(s, f, i) BY GetBlocksAre
<1> PICK all : all = GetBlocks(s, f) OBVIOUS
<1>2. keep \in Nat /\ \A i \in 1..keep : all[i] = DataAt(s, f, i) BY <1>1
<1>3. PICK k \in [1..keep -> Blocks] :
         k = SubSeq(all, 1, keep) /\ \A i \in 1..keep : k[i] = all[i]
  <2>1. \A i \in 1..keep : all[i] \in Blocks BY <1>2
  <2> QED BY <1>2, <2>1, Beginning
<1>4. /\ k \o got \in [1..keep + m -> Blocks]
      /\ \A i \in 1..keep : (k \o got)[i] = k[i]
      /\ \A i \in 1..m : (k \o got)[keep + i] = got[i]
  BY <1>2, Joined
<1> PICK bs : bs = k \o got OBVIOUS
<1>5. Keeps(s, f, keep, m, got, bs) BY <1>2, <1>3, <1>4 DEF Keeps
<1> QED BY <1>3, <1>5

\* The data goes into these blocks only.
WroteInto(s, t, w, n, blocks) ==
    /\ Image(w) /\ w.status = t.status /\ w.fcb = t.fcb /\ w.free = t.free
    /\ \A b \in Blocks : (\A i \in 1..n : b # blocks[i]) => SameBlock(s, w, b)
Filled(s, w, blocks, at, toks) ==
    \A b \in Blocks : \A i \in 1..B : w.disk[b][i] = CellWith(s, blocks, at, toks, b, i)
LEMMA WritesOnlyInto ==
    ASSUME NEW s, NEW t, Image(t), NEW n, NEW blocks \in [1..n -> Blocks],
           NEW at, NEW toks, t.disk = s.disk
    PROVE  /\ WroteInto(s, t, [t EXCEPT !.disk = DiskWith(s, blocks, at, toks)], n, blocks)
           /\ Filled(s, [t EXCEPT !.disk = DiskWith(s, blocks, at, toks)], blocks, at, toks)
<1> PICK w : w = [t EXCEPT !.disk = DiskWith(s, blocks, at, toks)] OBVIOUS
<1>1. /\ DOMAIN w = DOMAIN t /\ w.status = t.status /\ w.fcb = t.fcb /\ w.free = t.free
      /\ w.free_block_count = t.free_block_count
      /\ w.disk = DiskWith(s, blocks, at, toks)
  BY DEF Image
<1>2. /\ DOMAIN w.disk = Blocks
      /\ \A b \in Blocks : \A i \in 1..B : w.disk[b][i] = CellWith(s, blocks, at, toks, b, i)
  BY <1>1 DEF DiskWith
<1>3. Image(w) BY <1>1, <1>2 DEF Image
<1>4. ASSUME NEW b \in Blocks, \A i \in 1..n : b # blocks[i], NEW i \in 1..B
      PROVE  w.disk[b][i] = s.disk[b][i]
  <2>1. {k \in DOMAIN blocks : blocks[k] = b /\ UnitFor(at, Len(toks), k, i) # 0} = {}
    BY <1>4
  <2>2. CellWith(s, blocks, at, toks, b, i) = s.disk[b][i] BY <2>1 DEF CellWith
  <2> QED BY <1>2, <2>2
<1>5. WroteInto(s, t, w, n, blocks) BY <1>1, <1>3, <1>4 DEF SameBlock, WroteInto
<1>6. Filled(s, w, blocks, at, toks) BY <1>2 DEF Filled
<1> QED BY <1>5, <1>6

\* What the slots of these blocks hold.
SlotHas(s, w, b, i, toks, unit) ==
    w.disk[b][i] = IF unit = 0 THEN s.disk[b][i] ELSE toks[unit]
LEMMA SlotGets ==
    ASSUME NEW s, NEW w, NEW n, NEW blocks \in [1..n -> Blocks],
           \A i, j \in 1..n : blocks[i] = blocks[j] => i = j,
           NEW at, NEW toks, Filled(s, w, blocks, at, toks)
    PROVE  \A k \in 1..n : \A i \in 1..B :
              SlotHas(s, w, blocks[k], i, toks, UnitFor(at, Len(toks), k, i))
<1> SUFFICES ASSUME NEW k \in 1..n, NEW i \in 1..B
             PROVE  SlotHas(s, w, blocks[k], i, toks, UnitFor(at, Len(toks), k, i))
  OBVIOUS
<1> DEFINE hit == {j \in DOMAIN blocks : blocks[j] = blocks[k]
                                         /\ UnitFor(at, Len(toks), j, i) # 0}
<1>1. w.disk[blocks[k]][i] = IF hit = {} THEN s.disk[blocks[k]][i]
                             ELSE toks[UnitFor(at, Len(toks), CHOOSE j \in hit : TRUE, i)]
  BY DEF Filled, CellWith
<1>2. CASE UnitFor(at, Len(toks), k, i) = 0
  <2>1. hit = {} BY <1>2
  <2> QED BY <1>1, <1>2, <2>1 DEF SlotHas
<1>3. CASE UnitFor(at, Len(toks), k, i) # 0
  <2>1. hit = {k} BY <1>3
  <2> HIDE DEF hit
  <2>2. (CHOOSE j \in hit : TRUE) = k BY <2>1
  <2>3. hit # {} BY <2>1
  <2> QED BY <1>1, <1>3, <2>2, <2>3 DEF SlotHas
<1> QED BY <1>2, <1>3

\* What was free or in the first keep blocks is free or in the new list.
Relisted(s, w, f, keep, n, blocks) ==
    \A x : x \in s.free \/ (\E i \in 1..keep : x = DataAt(s, f, i)) =>
              x \in w.free \/ (\E i \in 1..n : x = blocks[i])

\* Data was written at the end of the first keep blocks of a file and into fresh
\* ones; its index is as before.
Written(s, w, f, keep, n, blocks) ==
    /\ Image(w) /\ w.status = "ok" /\ w.fcb = s.fcb
    /\ w.free \subseteq s.free
    /\ blocks \in [1..n -> Blocks]
    /\ \A i \in 1..n : blocks[i] \notin w.free
    /\ \A i \in 1..n : \/ i \in 1..keep /\ blocks[i] = DataAt(s, f, i)
                       \/ i \notin 1..keep /\ blocks[i] \in s.free
    /\ \A i, j \in 1..n : blocks[i] = blocks[j] => i = j
    /\ \A b \in Blocks : (\A i \in 1..n : b # blocks[i]) => SameBlock(s, w, b)
    /\ Relisted(s, w, f, keep, n, blocks)

Took(s, m, got, t) ==
    /\ Image(t) /\ t.status = "ok" /\ t.fcb = s.fcb /\ t.disk = s.disk
    /\ \A x : x \in t.free <=> x \in s.free /\ \A i \in 1..m : x # got[i]
    /\ got \in [1..m -> s.free]
    /\ \A i, j \in 1..m : got[i] = got[j] => i = j
LEMMA TakeTakes ==
    ASSUME NEW s, Image(s), s.status = "ok", NEW m \in Nat, CanTake(s, m)
    PROVE  Took(s, m, Lowest(s.free, m), Take(s, m))
BY TakeDoes DEF Took

LEMMA FreshIsWritten ==
    ASSUME NEW s, Image(s), NEW f, NEW keep \in Nat, NEW m \in Nat,
           \A i \in 1..keep : /\ DataAt(s, f, i) \in Blocks \ s.free
                              /\ \A j \in 1..keep : DataAt(s, f, i) = DataAt(s, f, j) => i = j,
           NEW got, NEW t, NEW blocks, NEW w,
           Took(s, m, got, t), Keeps(s, f, keep, m, got, blocks),
           WroteInto(s, t, w, keep + m, blocks)
    PROVE  Written(s, w, f, keep, keep + m, blocks)
<1>2. /\ t.status = "ok" /\ t.fcb = s.fcb
      /\ \A x : x \in t.free <=> x \in s.free /\ \A i \in 1..m : x # got[i]
      /\ got \in [1..m -> s.free]
      /\ \A i, j \in 1..m : got[i] = got[j] => i = j
  BY DEF Took
<1>3. s.free \subseteq Blocks BY DEF Image
<1>4. /\ blocks \in [1..keep + m -> Blocks]
      /\ \A i \in 1..keep : blocks[i] = DataAt(s, f, i)
      /\ \A i \in 1..m : blocks[keep + i] = got[i]
  BY DEF Keeps
<1>5. ASSUME NEW i \in 1..keep + m, i \notin 1..keep
      PROVE  \E j \in 1..m : i = keep + j /\ blocks[i] = got[j] /\ got[j] \in s.free
  <2>1. i - keep \in 1..m /\ i = keep + (i - keep) BY <1>5
  <2> QED BY <1>2, <1>4, <2>1
<1>6. /\ Image(w) /\ w.status = "ok" /\ w.fcb = s.fcb /\ w.free = t.free
      /\ \A b \in Blocks : (\A i \in 1..keep + m : b # blocks[i]) => SameBlock(s, w, b)
  BY <1>2 DEF WroteInto
<1> HIDE DEF Blocks
<1>7. ASSUME NEW i \in 1..keep + m, i \in 1..keep
      PROVE  blocks[i] = DataAt(s, f, i) /\ blocks[i] \in Blocks \ s.free
  BY <1>4, <1>7
<1>8. \A i \in 1..keep + m : blocks[i] \notin w.free BY <1>2, <1>5, <1>6, <1>7
<1>9. ASSUME NEW i \in 1..keep + m, NEW j \in 1..keep + m, blocks[i] = blocks[j] PROVE i = j
  <2>1. CASE i \in 1..keep /\ j \in 1..keep BY <1>7, <1>9, <2>1
  <2>2. CASE i \in 1..keep /\ j \notin 1..keep BY <1>5, <1>7, <1>9, <2>2
  <2>3. CASE i \notin 1..keep /\ j \in 1..keep BY <1>5, <1>7, <1>9, <2>3
  <2>4. CASE i \notin 1..keep /\ j \notin 1..keep
    <3>1. PICK a \in 1..m : i = keep + a /\ blocks[i] = got[a] BY <1>5, <2>4
    <3>2. PICK b \in 1..m : j = keep + b /\ blocks[j] = got[b] BY <1>5, <2>4
    <3>3. a = b BY <1>2, <1>9, <3>1, <3>2
    <3> QED BY <3>1, <3>2, <3>3
  <2> QED BY <2>1, <2>2, <2>3, <2>4
<1>10. \A i \in 1..keep + m : \/ i \in 1..keep /\ blocks[i] = DataAt(s, f, i)
                              \/ i \notin 1..keep /\ blocks[i] \in s.free
  BY <1>5, <1>7
<1>11. w.free \subseteq s.free BY <1>2, <1>6
<1>12. Relisted(s, w, f, keep, keep + m, blocks)
  <2>1. ASSUME NEW x \in s.free PROVE x \in w.free \/ \E i \in 1..keep + m : x = blocks[i]
    <3>1. CASE \A i \in 1..m : x # got[i] BY <1>2, <1>6, <3>1
    <3>2. ASSUME NEW i \in 1..m, x = got[i] PROVE \E j \in 1..keep + m : x = blocks[j]
      <4>1. keep + i \in 1..keep + m /\ blocks[keep + i] = x BY <1>4, <3>2
      <4> QED BY <4>1
    <3> QED BY <3>1, <3>2
  <2>2. ASSUME NEW i \in 1..keep PROVE \E j \in 1..keep + m : DataAt(s, f, i) = blocks[j]
    <3>1. i \in 1..keep + m /\ blocks[i] = DataAt(s, f, i) BY <1>4
    <3> QED BY <3>1
  <2> QED BY <2>1, <2>2 DEF Relisted
<1> QED BY <1>4, <1>6, <1>8, <1>9, <1>10, <1>11, <1>12 DEF Written

\* Writing data leaves the index alone, and none of its blocks is in the new list.
LEMMA IndexStaysApart ==
    ASSUME NEW s, NEW k \in Counts, NEW m \in Counts, Held(s, k, m), NEW f \in FileNumbers,
           k[f] <= m[f],
           NEW n \in Nat, NEW blocks, NEW w, Written(s, w, f, k[f], n, blocks)
    PROVE  /\ IndexApart(w, f, m[f], n, blocks)
           /\ SlotsStay(s, w, f, k[f], m[f])
<1>1. m[f] \in 0..MaxBlocks /\ k[f] \in 0..m[f]
  <2>1. m[f] \in 0..MaxBlocks /\ k[f] \in 0..MaxBlocks BY DEF Counts
  <2> QED BY <2>1, Bounds
<1>2. \A p \in Slots(k[f], m[f]) :
         /\ BlockAt(s, f, p) \in Blocks \ s.free
         /\ \A q \in Slots(k[f], m[f]) : BlockAt(s, f, p) = BlockAt(s, f, q) => p = q
  BY DEF Held
<1>3. /\ IndexSlots(m[f]) \subseteq Slots(k[f], m[f])
      /\ \A i \in 1..k[f] : /\ <<"data", i>> \in Slots(k[f], m[f])
                            /\ <<"data", i>> \notin IndexSlots(m[f])
                            /\ BlockAt(s, f, <<"data", i>>) = DataAt(s, f, i)
  BY BlocksAre DEF Slots, IndexSlots
<1>4. ASSUME NEW p \in IndexSlots(m[f]), NEW i \in 1..n PROVE BlockAt(s, f, p) # blocks[i]
  <2>1. BlockAt(s, f, p) \notin s.free BY <1>2, <1>3
  <2>2. ASSUME i \in 1..k[f], blocks[i] = DataAt(s, f, i), BlockAt(s, f, p) = blocks[i]
        PROVE  FALSE
    <3>1. p = <<"data", i>> BY <1>2, <1>3, <2>2
    <3> QED BY <1>3, <2>2, <3>1
  <2> QED BY <2>1, <2>2 DEF Written
<1>5. \A p \in IndexSlots(m[f]) : SameBlock(s, w, BlockAt(s, f, p))
  <2> TAKE p \in IndexSlots(m[f])
  <2>1. BlockAt(s, f, p) \in Blocks BY <1>2, <1>3
  <2> QED BY <1>4, <2>1 DEF Written
<1>6. \A p \in Slots(k[f], m[f]) : BlockAt(w, f, p) = BlockAt(s, f, p)
  <2>1. w.fcb[f].mixed = s.fcb[f].mixed BY DEF Written
  <2> QED BY <1>1, <1>5, <2>1, SamePlaces DEF SlotsStay
<1>7. w.free \subseteq s.free BY DEF Written
<1>8. IndexApart(w, f, m[f], n, blocks) BY <1>2, <1>3, <1>4, <1>6, <1>7 DEF IndexApart
<1> QED BY <1>6, <1>8 DEF SlotsStay

\* What was free or the file's is free or the file's.
Conserved(s, u, f, keep, o, n) ==
    \A x : x \in s.free \/ x \in Owned(s, f, keep, o) =>
              x \in u.free \/ x \in Owned(u, f, n, n)

\* A file has become one of n blocks, of its own and of free ones.
Saved(s, u, f, keep, o, n) ==
    /\ Image(u) /\ u.status = "ok"
    /\ u.free \subseteq s.free
    /\ \A g \in FileNumbers \ {f} : u.fcb[g] = s.fcb[g]
    /\ u.fcb[f].is_used = s.fcb[f].is_used
    /\ \A b \in Blocks \ s.free : b \notin Owned(s, f, keep, o) => SameBlock(s, u, b)
    /\ \A p \in Slots(n, n) :
          /\ BlockAt(u, f, p) \in Blocks \ u.free
          /\ BlockAt(u, f, p) \in s.free \cup Owned(s, f, keep, o)
          /\ \A q \in Slots(n, n) : BlockAt(u, f, p) = BlockAt(u, f, q) => p = q
    /\ Conserved(s, u, f, keep, o, n)

\* It consists of these blocks, and they hold what they held.
Carries(w, u, f, n, blocks) ==
    \A k \in 1..n : DataAt(u, f, k) = blocks[k] /\ u.disk[blocks[k]] = w.disk[blocks[k]]

LEMMA IndexedIsSaved ==
    ASSUME NEW s, NEW f \in FileNumbers, NEW n \in 0..MaxBlocks, NEW o \in 0..n,
           NEW keep \in Nat, NEW blocks, NEW w, Written(s, w, f, keep, n, blocks),
           IndexApart(w, f, o, n, blocks),
           SlotsStay(s, w, f, keep, o),
           NEW u, NEW need, NEW ix, NEW mixed, NEW leaf, NEW r,
           Indexed(w, u, f, o, n, need, blocks, ix, mixed, leaf, r)
    PROVE  Saved(s, u, f, keep, o, n) /\ Carries(w, u, f, n, blocks)
<1> DEFINE New(p) == NewAt(mixed, leaf, p)
           own == Owned(s, f, keep, o)
<1>1. /\ Image(w) /\ w.fcb = s.fcb /\ w.free \subseteq s.free
      /\ blocks \in [1..n -> Blocks]
      /\ \A i \in 1..n : blocks[i] \notin w.free
      /\ \A i \in 1..n : \/ i \in 1..keep /\ blocks[i] = DataAt(s, f, i)
                         \/ i \notin 1..keep /\ blocks[i] \in s.free
      /\ \A i, j \in 1..n : blocks[i] = blocks[j] => i = j
      /\ \A b \in Blocks : (\A i \in 1..n : b # blocks[i]) => SameBlock(s, w, b)
  BY DEF Written
<1>2. NewIndexApart(w, u, f, o, n, blocks, mixed, leaf) BY <1>1, NewIndexIsSound
<1>3. /\ \A p \in IndexSlots(n) : BlockAt(u, f, p) = New(p)
      /\ \A i \in 1..n : DataAt(u, f, i) = blocks[i]
      /\ \A b \in Blocks : (\A p \in IndexSlots(n) : b # New(p)) => u.disk[b] = w.disk[b]
  <2>1. IndexLeads(w, u, f, n, blocks, mixed, leaf) BY <1>1, <1>2, IndexHolds
  <2> QED BY <2>1 DEF IndexLeads
<1>4. /\ Image(u) /\ u.status = "ok"
      /\ \A x : x \in u.free => x \in w.free
      /\ u.fcb = [w.fcb EXCEPT ![f].mixed = mixed]
  BY DEF Indexed
<1>5. /\ \A g \in FileNumbers \ {f} : u.fcb[g] = s.fcb[g]
      /\ u.fcb[f].is_used = s.fcb[f].is_used
  <2>1. w.fcb[f] \in Fcbs /\ DOMAIN w.fcb = FileNumbers BY <1>1 DEF Image
  <2> QED BY <1>1, <1>4, <2>1 DEF Fcbs
<1>6. \A i \in 1..n : blocks[i] \in s.free \cup own
  <2> TAKE i \in 1..n
  <2>1. ASSUME i \in 1..keep, blocks[i] = DataAt(s, f, i) PROVE blocks[i] \in own
    <3>1. <<"data", i>> \in Slots(keep, o) BY <2>1 DEF Slots
    <3>2. BlockAt(s, f, <<"data", i>>) = DataAt(s, f, i) BY BlocksAre
    <3> QED BY <2>1, <3>1, <3>2 DEF Owned
  <2> QED BY <1>1, <2>1
<1>7. \A p \in IndexSlots(n) : New(p) \in s.free \cup own
  <2> TAKE p \in IndexSlots(n)
  <2>1. ASSUME p \in IndexSlots(o), New(p) = BlockAt(w, f, p) PROVE New(p) \in own
    <3>1. p \in Slots(keep, o) BY <2>1 DEF Slots
    <3> QED BY <2>1, <3>1 DEF Owned, SlotsStay
  <2> QED BY <1>1, <1>2, <2>1 DEF NewIndexApart
<1>8. /\ \A p \in IndexSlots(n) : New(p) \in Blocks \ u.free
      /\ \A p \in IndexSlots(n) : \A i \in 1..n : New(p) # blocks[i]
      /\ \A p, q \in IndexSlots(n) : New(p) = New(q) => p = q
  BY <1>2 DEF NewIndexApart
<1> HIDE DEF New, own, Blocks
<1>9. ASSUME NEW b \in Blocks \ s.free, b \notin own PROVE SameBlock(s, u, b)
  <2>1. SameBlock(s, w, b) BY <1>1, <1>6, <1>9
  <2>2. u.disk[b] = w.disk[b] BY <1>3, <1>7, <1>9
  <2> QED BY <2>1, <2>2 DEF SameBlock
<1>10. ASSUME NEW p \in Slots(n, n)
       PROVE  \/ p \in IndexSlots(n) /\ BlockAt(u, f, p) = New(p)
              \/ \E i \in 1..n : p = <<"data", i>> /\ BlockAt(u, f, p) = blocks[i]
  <2>1. ASSUME NEW i \in 1..n, p = <<"data", i>> PROVE BlockAt(u, f, p) = blocks[i]
    <3>1. BlockAt(u, f, <<"data", i>>) = DataAt(u, f, i) BY BlocksAre
    <3>2. DataAt(u, f, i) = blocks[i] BY <1>3
    <3> QED BY <2>1, <3>1, <3>2, Zenon
  <2> QED BY <1>3, <2>1 DEF Slots
<1>11. ASSUME NEW p \in Slots(n, n)
       PROVE  /\ BlockAt(u, f, p) \in Blocks \ u.free
              /\ BlockAt(u, f, p) \in s.free \cup own
  BY <1>1, <1>4, <1>6, <1>7, <1>8, <1>10
<1>12. ASSUME NEW p \in Slots(n, n), NEW q \in Slots(n, n), BlockAt(u, f, p) = BlockAt(u, f, q)
       PROVE  p = q
  BY <1>1, <1>8, <1>10, <1>12
<1>13. Carries(w, u, f, n, blocks)
  <2>1. ASSUME NEW k \in 1..n PROVE u.disk[blocks[k]] = w.disk[blocks[k]]
    <3>1. blocks[k] \in Blocks /\ \A p \in IndexSlots(n) : blocks[k] # New(p) BY <1>1, <1>8
    <3> QED BY <1>3, <3>1
  <2> QED BY <1>3, <2>1 DEF Carries
<1>15. \A i \in 1..n : blocks[i] \in Owned(u, f, n, n)
  <2> TAKE i \in 1..n
  <2>1. <<"data", i>> \in Slots(n, n) BY DEF Slots
  <2>2. BlockAt(u, f, <<"data", i>>) = DataAt(u, f, i) BY BlocksAre
  <2>3. DataAt(u, f, i) = blocks[i] BY <1>3
  <2> QED BY <2>1, <2>2, <2>3 DEF Owned
<1>16. \A p \in IndexSlots(n) : New(p) \in Owned(u, f, n, n)
  <2> TAKE p \in IndexSlots(n)
  <2>1. p \in Slots(n, n) BY DEF Slots
  <2>2. BlockAt(u, f, p) = New(p) BY <1>3
  <2> QED BY <2>1, <2>2 DEF Owned
<1>17. \A p \in IndexSlots(n) : New(p) = IF p \in IndexSlots(o) THEN BlockAt(w, f, p)
                                        ELSE ix[Rank(o, n, p)]
  <2>1. IndexInUse(w, f, o) BY DEF IndexInUse, IndexApart
  <2>2. IndexBecomes(w, f, o, n, ix, mixed, leaf) BY <2>1, NewIndexIs
  <2> QED BY <2>2 DEF IndexBecomes, New
<1>18. ASSUME NEW x \in w.free PROVE x \in u.free \/ x \in Owned(u, f, n, n)
  <2>1. /\ x \in u.free <=> x \in w.free /\ \A i \in 1..need : x # ix[i]
        /\ need = IndexNeed(o, n)
    BY DEF Indexed
  <2>2. ASSUME NEW i \in 1..need, x = ix[i] PROVE x \in Owned(u, f, n, n)
    <3>1. PICK p \in IndexSlots(n) : p \notin IndexSlots(o) /\ Rank(o, n, p) = i
      BY <2>1, IndexGrows
    <3> QED BY <1>16, <1>17, <2>2, <3>1
  <2> QED BY <2>1, <2>2
<1>19. Conserved(s, u, f, keep, o, n)
  <2>1. \A x : x \in s.free \/ (\E i \in 1..keep : x = DataAt(s, f, i)) =>
                  x \in w.free \/ (\E i \in 1..n : x = blocks[i])
    BY DEF Written, Relisted
  <2>2. ASSUME NEW p \in IndexSlots(o) PROVE BlockAt(s, f, p) \in Owned(u, f, n, n)
    <3>1. p \in Slots(keep, o) BY DEF Slots
    <3>2. BlockAt(w, f, p) = BlockAt(s, f, p) BY <3>1 DEF SlotsStay
    <3>3. p \in IndexSlots(n) BY IndexGrows
    <3> QED BY <1>16, <1>17, <3>2, <3>3
  <2>3. ASSUME NEW i \in 1..keep
        PROVE  DataAt(s, f, i) \in u.free \/ DataAt(s, f, i) \in Owned(u, f, n, n)
    BY <1>15, <1>18, <2>1
  <2>4. ASSUME NEW x \in Owned(s, f, keep, o) PROVE x \in u.free \/ x \in Owned(u, f, n, n)
    <3>1. PICK p \in Slots(keep, o) : x = BlockAt(s, f, p) BY DEF Owned
    <3>2. ASSUME NEW i \in 1..keep, p = <<"data", i>> PROVE x = DataAt(s, f, i)
      BY <3>1, <3>2, BlocksAre
    <3> QED BY <2>2, <2>3, <3>1, <3>2 DEF Slots
  <2> QED BY <1>15, <1>18, <2>1, <2>4 DEF Conserved
<1>20. Saved(s, u, f, keep, o, n) BY <1>1, <1>4, <1>5, <1>9, <1>11, <1>12, <1>19 DEF Saved, own
<1> QED BY <1>13, <1>20

Wild(t) == Image(t) /\ t.status = "wild_block"

LEMMA SavedOrWild ==
    ASSUME NEW s, NEW k \in Counts, NEW m \in Counts, Held(s, k, m), NEW f \in FileNumbers,
           k[f] <= m[f], m[f] = BlockCount(s, f), NEW n \in 0..MaxBlocks, m[f] <= n,
           NEW blocks, NEW w, Written(s, w, f, k[f], n, blocks)
    PROVE  \/ Wild(SaveBlocks(w, f, blocks))
           \/ /\ Saved(s, SaveBlocks(w, f, blocks), f, k[f], m[f], n)
              /\ Carries(w, SaveBlocks(w, f, blocks), f, n, blocks)
<1>1. m[f] \in 0..n /\ k[f] \in Nat /\ n \in Nat
  <2>1. m[f] \in 0..MaxBlocks /\ k[f] \in 0..MaxBlocks BY DEF Counts
  <2> QED BY <2>1, Bounds
<1>2. /\ IndexApart(w, f, m[f], n, blocks)
      /\ SlotsStay(s, w, f, k[f], m[f])
  BY <1>1, IndexStaysApart
<1>3. /\ Image(w) /\ w.status = "ok" /\ w.fcb = s.fcb
      /\ blocks \in [1..n -> Blocks] /\ \A i \in 1..n : blocks[i] \notin w.free
  BY DEF Written
<1>4. m[f] = BlockCount(w, f) BY <1>3 DEF BlockCount
<1>5. IndexNeed(m[f], n) \in Nat BY <1>1, NeedsAre
<1>6. PICK need, u : need = IndexNeed(m[f], n) /\ u = SaveBlocks(w, f, blocks) OBVIOUS
<1>7. \/ Image(u) /\ u.status = "wild_block"
      \/ \E ix, mixed, leaf, r : Indexed(w, u, f, m[f], n, need, blocks, ix, mixed, leaf, r)
  BY <1>1, <1>3, <1>4, <1>5, <1>6, SaveBlocksIs
<1>8. Wild(u) \/ (Saved(s, u, f, k[f], m[f], n) /\ Carries(w, u, f, n, blocks))
  BY <1>1, <1>2, <1>7, IndexedIsSaved DEF Wild
<1> QED BY <1>6, <1>8

\* A block is free or one of those that the files claim; and no such block is lost.
HasBlock(s, k, m, x) ==
    x \in s.free \/ \E g \in FileNumbers : x \in Owned(s, g, k[g], m[g])
Retains(s, k, m, t, k1, m1) == \A x : HasBlock(s, k, m, x) => HasBlock(t, k1, m1, x)

\* What a write leaves: n blocks of the file that are its own, and the other files
\* as they were.
PutDone(s, t, f, k, m, n, newLen) ==
    /\ Image(t) /\ t.status = "ok"
    /\ Held(t, With(k, f, n), With(m, f, n))
    /\ t.fcb[f].length = newLen /\ t.fcb[f].is_used = s.fcb[f].is_used
    /\ \A g \in FileNumbers \ {f} : t.fcb[g] = s.fcb[g]
    /\ OthersKeep(s, t, f, k)
    /\ Retains(s, k, m, t, With(k, f, n), With(m, f, n))

\* Another length in an FCB leads to the same blocks.
OnlyLength(u, t, f, len) ==
    /\ Image(t) /\ t.status = u.status /\ t.free = u.free /\ t.disk = u.disk
    /\ t.fcb[f].length = len /\ t.fcb[f].is_used = u.fcb[f].is_used
    /\ \A g \in FileNumbers : t.fcb[g].mixed = u.fcb[g].mixed
    /\ \A g \in FileNumbers \ {f} : t.fcb[g] = u.fcb[g]

LEMMA LengthSet ==
    ASSUME NEW u, Image(u), NEW f \in FileNumbers, NEW len \in 0..MAX_FILE_SIZE
    PROVE  OnlyLength(u, [u EXCEPT !.fcb[f].length = len], f, len)
<1> PICK t : t = [u EXCEPT !.fcb[f].length = len] OBVIOUS
<1>1. u.fcb \in [FileNumbers -> Fcbs] /\ u.fcb[f] \in Fcbs BY DEF Image
<1>2. /\ DOMAIN t = DOMAIN u /\ t.free = u.free /\ t.free_block_count = u.free_block_count
      /\ t.status = u.status /\ t.disk = u.disk
      /\ t.fcb = [u.fcb EXCEPT ![f].length = len]
  BY DEF Image
<1>3. [u.fcb[f] EXCEPT !.length = len] \in Fcbs BY <1>1 DEF Fcbs
<1>4. t.fcb \in [FileNumbers -> Fcbs] BY <1>1, <1>2, <1>3
<1>5. /\ t.fcb[f].length = len /\ t.fcb[f].is_used = u.fcb[f].is_used
      /\ \A g \in FileNumbers : t.fcb[g].mixed = u.fcb[g].mixed
      /\ \A g \in FileNumbers \ {f} : t.fcb[g] = u.fcb[g]
  BY <1>1, <1>2 DEF Fcbs
<1>6. Image(t) BY <1>2, <1>4 DEF Image
<1> QED BY <1>2, <1>5, <1>6 DEF OnlyLength

LEMMA SameDiskSameBlocks ==
    ASSUME NEW u, NEW t, NEW f, t.disk = u.disk, t.fcb[f].mixed = u.fcb[f].mixed
    PROVE  \A p : BlockAt(t, f, p) = BlockAt(u, f, p)
<1>1. \A b, i : NumberAt(t, b, i) = NumberAt(u, b, i) BY DEF NumberAt
<1>2. \A i : LeafAt(t, f, i) = LeafAt(u, f, i) BY <1>1 DEF LeafAt
<1>3. \A i : DataAt(t, f, i) = DataAt(u, f, i) BY <1>1, <1>2 DEF DataAt
<1> QED BY <1>2, <1>3 DEF BlockAt

LEMMA SavedAndSet ==
    ASSUME NEW s, NEW k \in Counts, NEW m \in Counts, Held(s, k, m),
           \A g \in FileNumbers : k[g] <= m[g], NEW f \in FileNumbers,
           NEW n \in 0..MaxBlocks, NEW newLen,
           NEW u, Saved(s, u, f, k[f], m[f], n),
           NEW t, OnlyLength(u, t, f, newLen)
    PROVE  PutDone(s, t, f, k, m, n, newLen)
<1>1. Image(u) /\ u.status = "ok" BY DEF Saved
<1>2. /\ Image(t) /\ t.status = "ok" /\ t.free = u.free /\ t.disk = u.disk
      /\ t.fcb[f].length = newLen /\ t.fcb[f].is_used = u.fcb[f].is_used
      /\ \A g \in FileNumbers : t.fcb[g].mixed = u.fcb[g].mixed
      /\ \A g \in FileNumbers \ {f} : t.fcb[g] = u.fcb[g]
  BY <1>1 DEF OnlyLength
<1>3. \A p : BlockAt(t, f, p) = BlockAt(u, f, p) BY <1>2, SameDiskSameBlocks
<1>4. \A b : SameBlock(s, u, b) <=> SameBlock(s, t, b) BY <1>2 DEF SameBlock
<1>5. /\ t.free \subseteq s.free
      /\ \A g \in FileNumbers \ {f} : t.fcb[g].mixed = s.fcb[g].mixed
      /\ \A b \in Blocks \ s.free :
             b \notin Owned(s, f, k[f], m[f]) => SameBlock(s, t, b)
  BY <1>2, <1>4 DEF Saved
<1>6. \A p \in Slots(n, n) :
          /\ BlockAt(t, f, p) \in Blocks \ t.free
          /\ BlockAt(t, f, p) \in s.free \cup Owned(s, f, k[f], m[f])
          /\ \A q \in Slots(n, n) : BlockAt(t, f, p) = BlockAt(t, f, q) => p = q
  BY <1>2, <1>3 DEF Saved
<1>7. /\ Held(t, With(k, f, n), With(m, f, n))
      /\ \A g \in FileNumbers \ {f} : \A p \in Slots(k[g], m[g]) :
            BlockAt(t, g, p) = BlockAt(s, g, p) /\ SameBlock(s, t, BlockAt(s, g, p))
  BY <1>5, <1>6, OneFileChanges
<1>8. OthersKeep(s, t, f, k) BY <1>7, CellsStay DEF OthersKeep
<1>9. Retains(s, k, m, t, With(k, f, n), With(m, f, n))
  <2>1. /\ With(k, f, n)[f] = n /\ With(m, f, n)[f] = n
        /\ \A g \in FileNumbers \ {f} : With(k, f, n)[g] = k[g] /\ With(m, f, n)[g] = m[g]
    BY CountsChange
  <2>2. Owned(t, f, n, n) = Owned(u, f, n, n) BY <1>3 DEF Owned
  <2>3. ASSUME NEW g \in FileNumbers \ {f}
        PROVE  Owned(t, g, k[g], m[g]) = Owned(s, g, k[g], m[g])
    BY <1>7 DEF Owned
  <2>4. ASSUME NEW x, x \in s.free \/ x \in Owned(s, f, k[f], m[f])
        PROVE  x \in t.free \/ x \in Owned(t, f, n, n)
    <3>1. Conserved(s, u, f, k[f], m[f], n) BY DEF Saved
    <3> QED BY <1>2, <2>2, <2>4, <3>1 DEF Conserved
  <2> SUFFICES ASSUME NEW x, HasBlock(s, k, m, x)
               PROVE  HasBlock(t, With(k, f, n), With(m, f, n), x)
    BY DEF Retains
  <2>5. CASE x \in s.free BY <2>1, <2>4, <2>5 DEF HasBlock
  <2>6. ASSUME NEW g \in FileNumbers, x \in Owned(s, g, k[g], m[g])
        PROVE  HasBlock(t, With(k, f, n), With(m, f, n), x)
    <3>1. CASE g = f BY <2>1, <2>4, <2>6, <3>1 DEF HasBlock
    <3>2. CASE g # f BY <2>1, <2>3, <2>6, <3>2 DEF HasBlock
    <3> QED BY <3>1, <3>2
  <2> QED BY <2>5, <2>6 DEF HasBlock
<1> QED BY <1>2, <1>7, <1>8, <1>9 DEF PutDone, Saved

\* What the slots of the written file hold: a unit of the data, or, in the blocks that
\* were kept, what was there.
Laid(s, t, f, at, toks, n) ==
    \A k \in 1..n : \A i \in 1..B :
        /\ UnitFor(at, Len(toks), k, i) # 0 =>
              t.disk[DataAt(t, f, k)][i] = toks[UnitFor(at, Len(toks), k, i)]
        /\ UnitFor(at, Len(toks), k, i) = 0 /\ k <= CeilDiv(at, B) =>
              t.disk[DataAt(t, f, k)][i] = s.disk[DataAt(s, f, k)][i]
LEMMA CarriedIsLaid ==
    ASSUME NEW s, NEW f \in FileNumbers, NEW at \in Nat, NEW n, NEW blocks, NEW w,
           Written(s, w, f, CeilDiv(at, B), n, blocks),
           NEW toks, Filled(s, w, blocks, at, toks),
           NEW u, Carries(w, u, f, n, blocks), NEW t, NEW len, OnlyLength(u, t, f, len)
    PROVE  Laid(s, t, f, at, toks, n)
<1> SUFFICES ASSUME NEW k \in 1..n, NEW i \in 1..B
             PROVE  /\ UnitFor(at, Len(toks), k, i) # 0 =>
                          t.disk[DataAt(t, f, k)][i] = toks[UnitFor(at, Len(toks), k, i)]
                    /\ UnitFor(at, Len(toks), k, i) = 0 /\ k <= CeilDiv(at, B) =>
                          t.disk[DataAt(t, f, k)][i] = s.disk[DataAt(s, f, k)][i]
  BY DEF Laid
<1>1. /\ blocks \in [1..n -> Blocks]
      /\ \A j, l \in 1..n : blocks[j] = blocks[l] => j = l
      /\ k \in 1..CeilDiv(at, B) => blocks[k] = DataAt(s, f, k)
  BY DEF Written
<1>2. t.disk[DataAt(t, f, k)] = w.disk[blocks[k]]
  <2>1. t.disk = u.disk /\ t.fcb[f].mixed = u.fcb[f].mixed BY DEF OnlyLength
  <2>2. SameCells(u, t, f, n) BY <2>1, SameDiskSameCells
  <2>3. DataAt(t, f, k) = DataAt(u, f, k) BY <2>2 DEF SameCells
  <2> QED BY <2>1, <2>3 DEF Carries
<1>3. SlotHas(s, w, blocks[k], i, toks, UnitFor(at, Len(toks), k, i)) BY <1>1, SlotGets
<1>4. k <= CeilDiv(at, B) => k \in 1..CeilDiv(at, B)
  <2>1. k \in Nat /\ k >= 1 OBVIOUS
  <2> QED BY <2>1, Ceiling
<1> QED BY <1>1, <1>2, <1>3, <1>4 DEF SlotHas

LEMMA HeldData ==
    ASSUME NEW s, NEW k, NEW m, Held(s, k, m), NEW f \in FileNumbers
    PROVE  \A i \in 1..k[f] :
              /\ DataAt(s, f, i) \in Blocks \ s.free
              /\ \A j \in 1..k[f] : DataAt(s, f, i) = DataAt(s, f, j) => i = j
<1>1. \A i \in 1..k[f] : <<"data", i>> \in Slots(k[f], m[f]) BY DEF Slots
<1>2. \A i \in 1..k[f] : BlockAt(s, f, <<"data", i>>) = DataAt(s, f, i) BY BlocksAre
<1>3. ASSUME NEW i \in 1..k[f] PROVE DataAt(s, f, i) \in Blocks \ s.free
  <2>1. \A p \in Slots(k[f], m[f]) : BlockAt(s, f, p) \in Blocks \ s.free BY DEF Held
  <2> QED BY <1>1, <1>2, <2>1
<1>4. ASSUME NEW i \in 1..k[f], NEW j \in 1..k[f], DataAt(s, f, i) = DataAt(s, f, j)
      PROVE  i = j
  <2>1. BlockAt(s, f, <<"data", i>>) = BlockAt(s, f, <<"data", j>>) BY <1>2, <1>4
  <2>2. <<"data", i>> = <<"data", j>> BY <1>1, <2>1 DEF Held
  <2> QED BY <2>2
<1> QED BY <1>3, <1>4

\* The common part of all writes, of a file that does not become shorter.
LEMMA PutDoes ==
    ASSUME NEW s, Image(s), s.status = "ok", NEW k \in Counts, NEW m \in Counts, Held(s, k, m),
           \A g \in FileNumbers : k[g] <= m[g], NEW f \in FileNumbers,
           NEW at \in Nat, k[f] = CeilDiv(at, B), m[f] = BlockCount(s, f),
           NEW newLen \in 0..MAX_FILE_SIZE, m[f] <= CeilDiv(newLen, B), NEW toks
    PROVE  \/ Wild(Put(s, f, at, toks, newLen))
           \/ /\ PutDone(s, Put(s, f, at, toks, newLen), f, k, m, CeilDiv(newLen, B), newLen)
              /\ Laid(s, Put(s, f, at, toks, newLen), f, at, toks, CeilDiv(newLen, B))
<1> DEFINE keep == CeilDiv(at, B)
           n == CeilDiv(newLen, B)
           fresh == n - keep
           got == Lowest(s.free, fresh)
           blocks == SubSeq(GetBlocks(s, f), 1, keep) \o got
           w == [Take(s, fresh) EXCEPT !.disk = DiskWith(s, blocks, at, toks)]
           u == SaveBlocks(w, f, blocks)
           t == [u EXCEPT !.fcb[f].length = newLen]
           put == Put(s, f, at, toks, newLen)
<1>1. /\ keep \in Nat /\ n \in 0..MaxBlocks /\ n \in Nat /\ keep <= n /\ fresh \in Nat
      /\ keep \in 0..BlockCount(s, f) /\ BlockCount(s, f) \in Nat
  <2>1. k[f] \in 0..MaxBlocks /\ m[f] \in 0..MaxBlocks /\ k[f] <= m[f] BY DEF Counts
  <2>2. n \in 0..MaxBlocks BY BlocksOfLength
  <2> HIDE DEF n
  <2>3. k[f] \in Nat /\ m[f] \in Nat /\ n \in Nat /\ k[f] = keep BY <2>1, <2>2, Bounds
  <2>4. m[f] <= n BY DEF n
  <2> QED BY <2>1, <2>2, <2>3, <2>4
<1>2. /\ ~CanTake(s, fresh) => put = [s EXCEPT !.status = "wild_block"]
      /\ CanTake(s, fresh) => put = t
  BY DEF Put
<1>3. ASSUME ~CanTake(s, fresh) PROVE Wild(put)
  <2> PICK v : v = [s EXCEPT !.status = "wild_block"] OBVIOUS
  <2>1. /\ DOMAIN v = DOMAIN s /\ v.free = s.free /\ v.free_block_count = s.free_block_count
        /\ v.fcb = s.fcb /\ v.disk = s.disk /\ v.status = "wild_block"
    BY DEF Image
  <2>2. Wild(v) BY <2>1 DEF Image, Wild
  <2> QED BY <1>2, <1>3, <2>2
<1>4. ASSUME CanTake(s, fresh)
      PROVE  Written(s, w, f, keep, n, blocks) /\ Filled(s, w, blocks, at, toks)
  <2>1. \A i \in 1..keep : /\ DataAt(s, f, i) \in Blocks \ s.free
                           /\ \A j \in 1..keep : DataAt(s, f, i) = DataAt(s, f, j) => i = j
    BY HeldData
  <2> HIDE DEF keep, fresh
  <2>2. Took(s, fresh, got, Take(s, fresh)) BY <1>1, <1>4, TakeTakes
  <2>3. Keeps(s, f, keep, fresh, got, blocks)
    <3>1. got \in [1..fresh -> Blocks]
      <4> HIDE DEF got
      <4> QED BY <2>2 DEF Took, Image
    <3>2. \A i \in 1..keep : DataAt(s, f, i) \in Blocks BY <2>1
    <3> HIDE DEF got
    <3> QED BY <1>1, <3>1, <3>2, KeptAndFresh
  <2>4. WroteInto(s, Take(s, fresh), w, keep + fresh, blocks) /\ Filled(s, w, blocks, at, toks)
    <3>1. /\ Image(Take(s, fresh)) /\ Take(s, fresh).disk = s.disk
          /\ blocks \in [1..keep + fresh -> Blocks]
      BY <2>2, <2>3 DEF Took, Keeps
    <3> HIDE DEF blocks
    <3> QED BY <3>1, WritesOnlyInto
  <2> HIDE DEF w, blocks, got
  <2>5. Written(s, w, f, keep, keep + fresh, blocks)
    BY <1>1, <2>1, <2>2, <2>3, <2>4, FreshIsWritten
  <2>6. keep + fresh = n BY <1>1 DEF fresh
  <2> QED BY <2>4, <2>5, <2>6
<1>5. ASSUME CanTake(s, fresh)
      PROVE  Wild(t) \/ (PutDone(s, t, f, k, m, n, newLen) /\ Laid(s, t, f, at, toks, n))
  <2>1. k[f] = keep /\ m[f] <= n OBVIOUS
  <2>2. Written(s, w, f, k[f], n, blocks) /\ Filled(s, w, blocks, at, toks)
    BY <1>4, <1>5, <2>1
  <2>7. Written(s, w, f, CeilDiv(at, B), n, blocks) BY <2>2
  <2> HIDE DEF w, blocks, n, keep, fresh
  <2>3. Wild(u) \/ (Saved(s, u, f, k[f], m[f], n) /\ Carries(w, u, f, n, blocks))
    BY <1>1, <2>1, <2>2, SavedOrWild
  <2> HIDE DEF u
  <2>4. OnlyLength(u, t, f, newLen) BY <2>3, LengthSet DEF Wild, Saved
  <2> HIDE DEF t
  <2>5. Wild(u) => Wild(t) BY <2>4 DEF Wild, OnlyLength
  <2>6. Saved(s, u, f, k[f], m[f], n) => PutDone(s, t, f, k, m, n, newLen)
    BY <1>1, <2>4, SavedAndSet
  <2>8. Carries(w, u, f, n, blocks) => Laid(s, t, f, at, toks, n)
    BY <2>2, <2>4, <2>7, CarriedIsLaid
  <2> QED BY <2>3, <2>5, <2>6, <2>8
<1> HIDE DEF t, put
<1>6. Wild(put) \/ (PutDone(s, put, f, k, m, n, newLen) /\ Laid(s, put, f, at, toks, n))
  BY <1>2, <1>3, <1>5
<1> QED BY <1>6 DEF put

-----------------------------------------------------------------------------
(* What the files hold                                                     *)

\* The unit at position j of a file.
Cell(s, f, j) == s.disk[GetBlocks(s, f)[(j \div B) + 1]][(j % B) + 1]
HasData(s, f) == \A j \in 0..s.fcb[f].length - 1 : Cell(s, f, j) = <<"data", f, j>>

LEMMA PlaceOf ==
    ASSUME NEW len \in Nat, NEW j \in 0..len - 1
    PROVE  (j \div B) + 1 \in 1..CeilDiv(len, B) /\ (j % B) + 1 \in 1..B
<1>1. B \in Nat /\ B > 0 /\ len \in Nat /\ j \in Nat /\ j < len BY Bounds
<1>q. PICK q \in Nat : q = j \div B BY <1>1, Division
<1>r. PICK r \in 0..B - 1 : r = j % B BY <1>1, Division
<1>2. j = B * q + r BY <1>1, <1>q, <1>r, Division
<1>c. PICK c \in Nat : c = CeilDiv(len, B) /\ len <= B * c BY Ceiling
<1>3. q < c
  <2>1. B * q \in Nat /\ B * c \in Nat BY <1>1
  <2>2. B * q < B * c BY <1>1, <1>2, <1>c, <2>1
  <2> QED BY <1>1, <2>2
<1> QED BY <1>1, <1>3, <1>q, <1>r, <1>c

LEMMA CellIs ==
    ASSUME NEW s, NEW f, s.fcb[f].length \in Nat, NEW j \in 0..s.fcb[f].length - 1
    PROVE  Cell(s, f, j) = s.disk[DataAt(s, f, (j \div B) + 1)][(j % B) + 1]
<1>1. (j \div B) + 1 \in 1..BlockCount(s, f) BY PlaceOf DEF BlockCount
<1>2. GetBlocks(s, f) = [k \in 1..BlockCount(s, f) |-> DataAt(s, f, k)] BY GetBlocksAre
<1>3. GetBlocks(s, f)[(j \div B) + 1] = DataAt(s, f, (j \div B) + 1) BY <1>1, <1>2
<1> QED BY <1>3 DEF Cell

\* Which unit of the data goes to the place of position j.
UnitIs(at, size, j, k, i) ==
    /\ at <= j /\ j < at + size => UnitFor(at, size, k, i) = j - at + 1
    /\ j < at => UnitFor(at, size, k, i) = 0 /\ k <= CeilDiv(at, B)
    /\ j >= at + size => UnitFor(at, size, k, i) = 0

LEMMA NoLengthNoBlocks == CeilDiv(0, B) = 0
<1>1. 0 \in Nat /\ 0 <= B * 0 BY Bounds
<1> QED BY <1>1, CeilingAtMost, Ceiling

LEMMA UnitFromStart ==
    ASSUME NEW size \in Nat, NEW q \in Nat, NEW r \in 0..B - 1, NEW j \in Nat, j = B * q + r
    PROVE  UnitIs(0, size, j, q + 1, r + 1)
<1>1. B \in Nat /\ B > 0 /\ 0 % B = 0 BY Bounds
<1>2. CeilDiv(0, B) = 0 BY NoLengthNoBlocks
<1>3. (q + 1 - 0 - 1) * B = B * q BY <1>1
<1>4. UnitFor(0, size, q + 1, r + 1) = IF j + 1 <= size THEN j + 1 ELSE 0
  <2>1. 0 + (q + 1 - 0 - 1) * B + (r + 1) = j + 1
    <3>1. B * q \in Nat BY <1>1
    <3> QED BY <1>1, <1>3, <3>1
  <2>2. q + 1 # 0 /\ q + 1 > 0 OBVIOUS
  <2> QED BY <1>2, <2>1, <2>2 DEF UnitFor
<1> QED BY <1>4 DEF UnitIs

LEMMA KeptBlocks ==
    ASSUME NEW at \in Nat, NEW h \in Nat, NEW a \in 1..B - 1, at = B * h + a
    PROVE  CeilDiv(at, B) = h + 1 /\ at % B = a
<1>1. B \in Nat /\ B > 0 BY Bounds
<1>2. at % B = a
  <2>1. a \in 0..B - 1 BY <1>1
  <2> QED BY <2>1, Quotient
<1>3. at <= B * (h + 1) /\ ~(at <= B * h)
  <2>1. B * h \in Nat /\ B * (h + 1) = B * h + B BY <1>1
  <2> QED BY <1>1, <2>1
<1>4. CeilDiv(at, B) \in Nat /\ CeilDiv(at, B) <= h + 1 /\ ~(CeilDiv(at, B) <= h)
  BY <1>3, Ceiling, CeilingAtMost
<1> QED BY <1>2, <1>4

LEMMA UnitInside ==
    ASSUME NEW at \in Nat, NEW h \in Nat, NEW a \in 1..B - 1, at = B * h + a, NEW size \in Nat,
           NEW q \in Nat, NEW r \in 0..B - 1, NEW j \in Nat, j = B * q + r
    PROVE  UnitIs(at, size, j, q + 1, r + 1)
<1>1. B \in Nat /\ B > 0 /\ a \in Nat /\ r \in Nat /\ a < B /\ a > 0 /\ r < B BY Bounds
<1>2. CeilDiv(at, B) = h + 1 /\ at % B = a BY KeptBlocks
<1>f. PICK first \in Nat : first = Least(size, B - a)
  <2>1. Least(size, B - a) = size \/ Least(size, B - a) = B - a BY DEF Least
  <2>2. B - a \in Nat BY <1>1
  <2> QED BY <2>1, <2>2
<1>3. /\ first <= size /\ first <= B - a
      /\ first = size \/ first = B - a
  BY <1>1, <1>f DEF Least
<1>d. PICK d : d = (q + 1 - (h + 1) - 1) * B OBVIOUS
<1>u. PICK u : u = UnitFor(at, size, q + 1, r + 1) OBVIOUS
<1>4. u = IF q + 1 = h + 1 /\ a < r + 1 /\ r + 1 - a <= first THEN r + 1 - a
          ELSE IF q + 1 > h + 1 /\ first + d + (r + 1) <= size THEN first + d + (r + 1)
          ELSE 0
  BY <1>2, <1>f, <1>d, <1>u DEF UnitFor
<1>x. PICK x \in Nat : x = B * q BY <1>1
<1>y. PICK y \in Nat : y = B * h BY <1>1
<1>5. at = y + a /\ j = x + r BY <1>x, <1>y
<1>6. CASE q < h
  <2>1. B * (q + 1) <= B * h BY <1>1, <1>6
  <2>2. B * (q + 1) = B * q + B BY <1>1
  <2>3. x + B <= y BY <1>x, <1>y, <2>1, <2>2
  <2>4. j < at BY <1>1, <1>5, <2>3
  <2>5. u = 0 BY <1>4, <1>6
  <2> QED BY <1>2, <1>6, <1>u, <2>4, <2>5 DEF UnitIs
<1>7. CASE q = h
  <2>1. x = y BY <1>7, <1>x, <1>y
  <2>2. u = IF a < r + 1 /\ r + 1 - a <= first THEN r + 1 - a ELSE 0 BY <1>4, <1>7
  <2>3. at <= j /\ j < at + size => u = j - at + 1 BY <1>1, <1>3, <1>5, <2>1, <2>2
  <2>4. j < at => u = 0 BY <1>1, <1>5, <2>1, <2>2
  <2>5. j >= at + size => u = 0 BY <1>1, <1>3, <1>5, <2>1, <2>2
  <2> QED BY <1>2, <1>7, <1>u, <2>3, <2>4, <2>5 DEF UnitIs
<1>8. CASE q > h
  <2>1. d = x - y - B
    <3>1. (q + 1 - (h + 1) - 1) * B = B * q - B * h - B BY <1>1
    <3> QED BY <3>1, <1>d, <1>x, <1>y
  <2>2. x >= y + B
    <3>1. B * (h + 1) <= B * q BY <1>1, <1>8
    <3>2. B * (h + 1) = B * h + B BY <1>1
    <3> QED BY <1>x, <1>y, <3>1, <3>2
  <2>3. u = IF first + d + (r + 1) <= size THEN first + d + (r + 1) ELSE 0 BY <1>4, <1>8
  <2>4. at <= j BY <1>1, <1>5, <2>2
  <2>5. j < at + size => u = j - at + 1 BY <1>1, <1>3, <1>5, <2>1, <2>2, <2>3
  <2>6. j >= at + size => u = 0 BY <1>1, <1>3, <1>5, <2>1, <2>2, <2>3
  <2>7. ~(j < at) BY <1>5, <2>4
  <2> QED BY <1>u, <2>4, <2>5, <2>6, <2>7 DEF UnitIs
<1> QED BY <1>6, <1>7, <1>8

\* Unless the data starts where a block has just ended, each unit goes to its place.
Starts(at) == at = 0 \/ at % B # 0
LEMMA UnitsGoWhere ==
    ASSUME NEW at \in Nat, Starts(at), NEW size \in Nat, NEW j \in Nat
    PROVE  UnitIs(at, size, j, (j \div B) + 1, (j % B) + 1)
<1>1. B \in Nat /\ B > 0 BY Bounds
<1>q. PICK q \in Nat : q = j \div B BY Division
<1>r. PICK r \in 0..B - 1 : r = j % B BY Division
<1>2. j = B * q + r BY <1>q, <1>r, Division
<1>3. CASE at = 0
  <2>1. UnitIs(0, size, j, q + 1, r + 1) BY <1>2, UnitFromStart
  <2> QED BY <1>3, <1>q, <1>r, <2>1
<1>4. CASE at % B # 0
  <2>h. PICK h \in Nat : h = at \div B BY Division
  <2>a. PICK a \in 1..B - 1 : a = at % B
    <3>1. at % B \in 0..B - 1 BY Division
    <3>2. at % B \in 1..B - 1 BY <1>1, <1>4, <3>1
    <3> QED BY <3>2
  <2>1. at = B * h + a BY <2>h, <2>a, Division
  <2>2. UnitIs(at, size, j, q + 1, r + 1) BY <1>2, <2>1, UnitInside
  <2> QED BY <1>q, <1>r, <2>2
<1> QED BY <1>3, <1>4 DEF Starts

LEMMA DataIs ==
    ASSUME NEW f, NEW at, NEW n \in Nat
    PROVE  Len(Data(f, at, n)) = n
BY DEF Data

\* So the data is where it belongs after the write, and what it did not replace is
\* where it was.
Remains(s, f, at, size, newLen) ==
    \A j \in 0..newLen - 1 : j < at \/ j >= at + size =>
        /\ j < s.fcb[f].length /\ (j \div B) + 1 <= CeilDiv(at, B)
        /\ Cell(s, f, j) = <<"data", f, j>>
LEMMA PutHasData ==
    ASSUME NEW s, NEW t, NEW f, NEW at \in Nat, Starts(at), NEW size \in Nat, NEW newLen \in Nat,
           Laid(s, t, f, at, Data(f, at, size), CeilDiv(newLen, B)),
           s.fcb[f].length \in Nat, t.fcb[f].length = newLen,
           Remains(s, f, at, size, newLen)
    PROVE  HasData(t, f)
<1> SUFFICES ASSUME NEW j \in 0..newLen - 1 PROVE Cell(t, f, j) = <<"data", f, j>>
  BY DEF HasData
<1>k. PICK k : k = (j \div B) + 1 OBVIOUS
<1>i. PICK i : i = (j % B) + 1 OBVIOUS
<1>u. PICK u : u = UnitFor(at, size, k, i) OBVIOUS
<1>1. k \in 1..CeilDiv(newLen, B) /\ i \in 1..B BY <1>k, <1>i, PlaceOf
<1>2. Cell(t, f, j) = t.disk[DataAt(t, f, k)][i] BY <1>k, <1>i, CellIs
<1>3. UnitIs(at, size, j, k, i)
  <2>1. j \in Nat OBVIOUS
  <2> QED BY <1>k, <1>i, <2>1, UnitsGoWhere
<1>t. PICK toks : toks = Data(f, at, size) OBVIOUS
<1>4. Len(toks) = size /\ Laid(s, t, f, at, toks, CeilDiv(newLen, B)) BY <1>t, DataIs
<1>7. UnitFor(at, Len(toks), k, i) = u BY <1>4, <1>u
<1>8. /\ u # 0 => t.disk[DataAt(t, f, k)][i] = toks[u]
      /\ u = 0 /\ k <= CeilDiv(at, B) =>
            t.disk[DataAt(t, f, k)][i] = s.disk[DataAt(s, f, k)][i]
  BY <1>1, <1>4, <1>7, Zenon DEF Laid
<1>5. CASE at <= j /\ j < at + size
  <2>1. u = j - at + 1 /\ u \in 1..size BY <1>3, <1>5, <1>u DEF UnitIs
  <2>2. t.disk[DataAt(t, f, k)][i] = toks[u] BY <1>8, <2>1
  <2>3. at + u - 1 = j BY <2>1
  <2>4. toks[u] = <<"data", f, j>> BY <1>t, <2>1, <2>3 DEF Data
  <2> QED BY <1>2, <2>2, <2>4
<1>6. CASE j < at \/ j >= at + size
  <2>1. u = 0 BY <1>3, <1>6, <1>u DEF UnitIs
  <2>2. /\ j < s.fcb[f].length /\ k <= CeilDiv(at, B) /\ Cell(s, f, j) = <<"data", f, j>>
    BY <1>6, <1>k DEF Remains
  <2>3. t.disk[DataAt(t, f, k)][i] = s.disk[DataAt(s, f, k)][i]
    BY <1>8, <2>1, <2>2
  <2>4. Cell(s, f, j) = s.disk[DataAt(s, f, k)][i]
    <3>1. j \in 0..s.fcb[f].length - 1 BY <2>2
    <3> QED BY <1>k, <1>i, <3>1, CellIs
  <2> QED BY <1>2, <2>2, <2>3, <2>4
<1> QED BY <1>5, <1>6

LEMMA AppendedHasData ==
    ASSUME NEW s, NEW t, NEW f, s.fcb[f].length \in Nat, Starts(s.fcb[f].length), HasData(s, f),
           NEW n \in Nat, t.fcb[f].length = s.fcb[f].length + n, NEW at, at = s.fcb[f].length,
           Laid(s, t, f, at, Data(f, at, n), CeilDiv(at + n, B))
    PROVE  HasData(t, f)
<1>1. at \in Nat /\ at + n \in Nat /\ Starts(at) /\ t.fcb[f].length = at + n OBVIOUS
<1>2. Remains(s, f, at, n, at + n)
  <2> SUFFICES ASSUME NEW j \in 0..(at + n) - 1, j < at \/ j >= at + n
               PROVE  /\ j < s.fcb[f].length /\ (j \div B) + 1 <= CeilDiv(at, B)
                      /\ Cell(s, f, j) = <<"data", f, j>>
    BY DEF Remains
  <2>1. j \in 0..at - 1 BY <1>1
  <2>2. (j \div B) + 1 \in 1..CeilDiv(at, B) BY <1>1, <2>1, PlaceOf
  <2> QED BY <2>1, <2>2 DEF HasData
<1> QED BY <1>1, <1>2, PutHasData

LEMMA Offset ==
    ASSUME NEW at \in Nat, NEW n \in Nat, NEW i \in 1..n
    PROVE  /\ at + i - 1 \in 0..(at + n) - 1
           /\ ~(at + i - 1 < at) /\ (at + i - 1) - at + 1 = i
OBVIOUS

\* What do_write adds is behind what the file held.
Appended(s, t, f, toks) ==
    /\ t.fcb[f].length = s.fcb[f].length + Len(toks)
    /\ \A j \in 0..s.fcb[f].length - 1 : Cell(t, f, j) = Cell(s, f, j)
    /\ \A i \in 1..Len(toks) : Cell(t, f, s.fcb[f].length + i - 1) = toks[i]
LEMMA LaidAppends ==
    ASSUME NEW s, NEW t, NEW f, NEW at \in Nat, at = s.fcb[f].length, Starts(at),
           NEW toks, NEW n \in Nat, Len(toks) = n, t.fcb[f].length = at + n,
           Laid(s, t, f, at, toks, CeilDiv(at + n, B))
    PROVE  Appended(s, t, f, toks)
<1>1. ASSUME NEW j \in 0..(at + n) - 1
      PROVE  Cell(t, f, j) = IF j < at THEN Cell(s, f, j) ELSE toks[j - at + 1]
  <2>k. PICK k : k = (j \div B) + 1 OBVIOUS
  <2>i. PICK i : i = (j % B) + 1 OBVIOUS
  <2>u. PICK u : u = UnitFor(at, n, k, i) OBVIOUS
  <2>l. PICK newLen \in Nat : newLen = at + n OBVIOUS
  <2>0. j \in Nat /\ j \in 0..newLen - 1 /\ j < at + n BY <2>l
  <2>1. k \in 1..CeilDiv(newLen, B) /\ i \in 1..B BY <2>k, <2>i, <2>0, PlaceOf
  <2>2. Cell(t, f, j) = t.disk[DataAt(t, f, k)][i] BY <2>k, <2>i, <2>l, <2>0, CellIs
  <2>3. UnitIs(at, n, j, k, i) BY <2>k, <2>i, <2>0, UnitsGoWhere
  <2>4. Laid(s, t, f, at, toks, CeilDiv(newLen, B)) BY <2>l
  <2>5. /\ u # 0 => t.disk[DataAt(t, f, k)][i] = toks[u]
        /\ u = 0 /\ k <= CeilDiv(at, B) =>
              t.disk[DataAt(t, f, k)][i] = s.disk[DataAt(s, f, k)][i]
    <3>1. UnitFor(at, Len(toks), k, i) = u BY <2>u
    <3> QED BY <2>1, <2>4, <3>1, Zenon DEF Laid
  <2>6. CASE j < at
    <3>1. u = 0 /\ k <= CeilDiv(at, B) BY <2>3, <2>6, <2>u DEF UnitIs
    <3>2. t.disk[DataAt(t, f, k)][i] = s.disk[DataAt(s, f, k)][i] BY <2>5, <3>1
    <3>3. Cell(s, f, j) = s.disk[DataAt(s, f, k)][i]
      <4>1. j \in 0..s.fcb[f].length - 1 BY <2>0, <2>6
      <4> QED BY <2>k, <2>i, <4>1, CellIs
    <3> QED BY <2>2, <2>6, <3>2, <3>3
  <2>7. CASE ~(j < at)
    <3>1. u = j - at + 1 BY <2>0, <2>3, <2>7, <2>u DEF UnitIs
    <3>2. u # 0 BY <2>0, <2>7, <3>1
    <3> QED BY <2>2, <2>5, <2>7, <3>1, <3>2
  <2> QED BY <2>6, <2>7
<1>2. ASSUME NEW j \in 0..at - 1 PROVE Cell(t, f, j) = Cell(s, f, j)
  <2>1. j \in 0..(at + n) - 1 /\ j < at OBVIOUS
  <2> QED BY <1>1, <2>1
<1>3. ASSUME NEW i \in 1..n PROVE Cell(t, f, at + i - 1) = toks[i]
  <2> PICK j : j = at + i - 1 OBVIOUS
  <2>1. j \in 0..(at + n) - 1 /\ ~(j < at) /\ j - at + 1 = i BY Offset
  <2> QED BY <1>1, <2>1
<1> QED BY <1>2, <1>3 DEF Appended

-----------------------------------------------------------------------------
(* Every command                                                           *)

\* A file that claims fewer blocks claims none that another one has.
LEMMA FewerHeld ==
    ASSUME NEW s, NEW k \in Counts, NEW m \in Counts, Held(s, k, m),
           NEW k1 \in Counts, NEW m1 \in Counts,
           \A g \in FileNumbers : k1[g] <= k[g] /\ (m1[g] = m[g] \/ m1[g] = 0)
    PROVE  Held(s, k1, m1)
<1>1. ASSUME NEW g \in FileNumbers PROVE Slots(k1[g], m1[g]) \subseteq Slots(k[g], m[g])
  <2>1. k1[g] \in Nat /\ k[g] \in Nat /\ k1[g] <= k[g] BY Bounds DEF Counts
  <2>2. 1..k1[g] \subseteq 1..k[g] BY <2>1
  <2>3. IndexSlots(0) = {}
    <3>1. 0 \in 0..MaxBlocks /\ ~(0 > L0) /\ ~(0 > L0 + B) /\ 0 <= L0 + B BY Bounds
    <3>2. Leaves(0) = 0 BY <3>1, LeavesAre
    <3> QED BY <3>1, <3>2 DEF IndexSlots
  <2>4. IndexSlots(m1[g]) \subseteq IndexSlots(m[g]) BY <2>3
  <2> QED BY <2>2, <2>4 DEF Slots
<1> QED BY <1>1 DEF Held

\* The data blocks of a file go back to the pool, its index stays.
GaveBack(s, t, c, bs) ==
    /\ Image(t) /\ t.status = "ok" /\ t.fcb = s.fcb
    /\ \A x : x \in t.free <=> x \in s.free \/ \E i \in 1..c : x = bs[i]
    /\ \A b \in Blocks : (\A i \in 1..c : b # bs[i]) => t.disk[b] = s.disk[b]
LEMMA FileGivesBack ==
    ASSUME NEW s, Image(s), s.status = "ok", NEW k \in Counts, NEW m, Held(s, k, m),
           NEW f \in FileNumbers, k[f] = BlockCount(s, f)
    PROVE  /\ GaveBack(s, Release(s, GetBlocks(s, f)), k[f], GetBlocks(s, f))
           /\ \A i \in 1..k[f] : GetBlocks(s, f)[i] = DataAt(s, f, i)
<1>1. /\ \A i \in 1..k[f] : DataAt(s, f, i) \in Blocks \ s.free
      /\ \A i, j \in 1..k[f] : DataAt(s, f, i) = DataAt(s, f, j) => i = j
  BY HeldData
<1>2. k[f] \in Nat BY Bounds DEF Counts
<1> PICK c, bs, t : c = k[f] /\ bs = GetBlocks(s, f) /\ t = Release(s, bs) OBVIOUS
<1>3. bs \in [1..c -> Blocks] /\ \A i \in 1..c : bs[i] = DataAt(s, f, i) BY <1>1, GetBlocksAre
<1>4. GaveBack(s, t, c, bs)
  <2>1. /\ \A i \in 1..c : bs[i] \notin s.free
        /\ \A i, j \in 1..c : bs[i] = bs[j] => i = j
    BY <1>1, <1>3
  <2> QED BY <1>2, <1>3, <2>1, ReleaseDoes DEF GaveBack
<1> QED BY <1>3, <1>4

LEMMA RestIsHeld ==
    ASSUME NEW s, NEW k \in Counts, NEW m \in Counts, Held(s, k, m),
           \A g \in FileNumbers : k[g] <= m[g], NEW f \in FileNumbers,
           NEW bs, \A i \in 1..k[f] : bs[i] = DataAt(s, f, i), NEW t, GaveBack(s, t, k[f], bs),
           NEW kk \in Counts, kk[f] = 0, \A g \in FileNumbers \ {f} : kk[g] = k[g]
    PROVE  Held(t, kk, m) /\ OthersKeep(s, t, f, k) /\ Retains(s, k, m, t, kk, m)
<1>4. /\ t.fcb = s.fcb
      /\ \A x : x \in t.free <=> x \in s.free \/ \E i \in 1..k[f] : x = bs[i]
      /\ \A b \in Blocks : (\A i \in 1..k[f] : b # bs[i]) => t.disk[b] = s.disk[b]
  BY DEF GaveBack
<1>5. kk[f] = 0 /\ \A g \in FileNumbers \ {f} : kk[g] = k[g] OBVIOUS
<1>6. ASSUME NEW g \in FileNumbers, NEW p \in Slots(kk[g], m[g]), NEW i \in 1..k[f]
      PROVE  p \in Slots(k[g], m[g]) /\ BlockAt(s, g, p) # bs[i]
  <2> DEFINE d == <<"data", i>>
  <2>1. d \in Slots(k[f], m[f]) BY DEF Slots
  <2>2. BlockAt(s, f, d) = DataAt(s, f, i) BY DEF BlockAt
  <2>3. BlockAt(s, f, d) = bs[i] BY <2>2
  <2>6. d \notin IndexSlots(m[f]) BY DEF IndexSlots
  <2> HIDE DEF d
  <2>4. CASE g # f
    <3>1. kk[g] = k[g] BY <1>5, <2>4
    <3>2. p \in Slots(k[g], m[g]) BY <3>1
    <3> QED BY <2>1, <2>3, <2>4, <3>2 DEF Held
  <2>5. CASE g = f
    <3>1. p \in IndexSlots(m[f])
      <4>1. p \in Slots(0, m[f]) BY <1>5, <2>5
      <4>2. 1..0 = {} OBVIOUS
      <4> QED BY <4>1, <4>2 DEF Slots
    <3>2. p \in Slots(k[f], m[f]) BY <3>1 DEF Slots
    <3>4. p # d BY <2>6, <3>1
    <3>5. BlockAt(s, f, p) # BlockAt(s, f, d) BY <2>1, <3>2, <3>4 DEF Held
    <3> QED BY <2>3, <2>5, <3>2, <3>5
  <2> QED BY <2>4, <2>5
<1>7. ASSUME NEW g \in FileNumbers
      PROVE  \A p \in Slots(kk[g], m[g]) : p \in Slots(k[g], m[g])
  <2>1. kk[g] \in Nat /\ k[g] \in Nat /\ kk[g] <= k[g] BY <1>5, Bounds DEF Counts
  <2>2. 1..kk[g] \subseteq 1..k[g] BY <2>1
  <2> QED BY <2>2 DEF Slots
<1>8. ASSUME NEW g \in FileNumbers, NEW p \in Slots(kk[g], m[g])
      PROVE  BlockAt(s, g, p) \in Blocks \ t.free /\ SameBlock(s, t, BlockAt(s, g, p))
  <2>1. BlockAt(s, g, p) \in Blocks \ s.free BY <1>7 DEF Held
  <2>2. \A i \in 1..k[f] : BlockAt(s, g, p) # bs[i] BY <1>6
  <2>3. t.disk[BlockAt(s, g, p)] = s.disk[BlockAt(s, g, p)] BY <1>4, <2>1, <2>2
  <2> QED BY <1>4, <2>1, <2>2, <2>3 DEF SameBlock
<1>9. ASSUME NEW g \in FileNumbers
      PROVE  \A p \in Slots(kk[g], m[g]) : BlockAt(t, g, p) = BlockAt(s, g, p)
  <2>1. m[g] \in 0..MaxBlocks /\ kk[g] \in 0..m[g]
    <3>1. m[g] \in 0..MaxBlocks /\ k[g] \in 0..MaxBlocks /\ k[g] <= m[g] BY DEF Counts
    <3> QED BY <1>5, <3>1, Bounds
  <2>2. t.fcb[g].mixed = s.fcb[g].mixed BY <1>4
  <2>3. \A p \in IndexSlots(m[g]) : p \in Slots(kk[g], m[g]) BY DEF Slots
  <2>4. \A p \in IndexSlots(m[g]) : SameBlock(s, t, BlockAt(s, g, p)) BY <1>8, <2>3
  <2> QED BY <2>1, <2>2, <2>4, SamePlaces DEF SlotsStay
<1>10. ASSUME NEW g \in FileNumbers, NEW p \in Slots(kk[g], m[g]),
              NEW h \in FileNumbers, NEW q \in Slots(kk[h], m[h]),
              BlockAt(t, g, p) = BlockAt(t, h, q)
       PROVE  g = h /\ p = q
  <2>1. BlockAt(s, g, p) = BlockAt(s, h, q) BY <1>9, <1>10
  <2>2. p \in Slots(k[g], m[g]) /\ q \in Slots(k[h], m[h]) BY <1>7
  <2> QED BY <2>1, <2>2 DEF Held
<1>11. Held(t, kk, m) BY <1>8, <1>9, <1>10 DEF Held
<1>12. ASSUME NEW g \in FileNumbers \ {f} PROVE SameCells(s, t, g, k[g])
  <2>1. kk[g] = k[g] BY <1>5
  <2> QED BY <1>8, <1>9, <2>1, CellsStay
<1>13. ASSUME NEW g \in FileNumbers, NEW p \in Slots(k[g], m[g])
       PROVE  BlockAt(s, g, p) \in t.free \/ BlockAt(s, g, p) \in Owned(t, g, kk[g], m[g])
  <2>1. CASE p \in Slots(kk[g], m[g]) BY <1>9, <2>1 DEF Owned
  <2>2. CASE p \notin Slots(kk[g], m[g])
    <3>1. g = f BY <1>5, <2>2
    <3>2. PICK i \in 1..k[f] : p = <<"data", i>> BY <2>2, <3>1 DEF Slots
    <3>3. BlockAt(s, f, <<"data", i>>) = DataAt(s, f, i) BY DEF BlockAt
    <3>4. BlockAt(s, f, p) = bs[i] BY <3>2, <3>3
    <3> QED BY <1>4, <3>1, <3>4
  <2> QED BY <2>1, <2>2
<1>14. Retains(s, k, m, t, kk, m) BY <1>4, <1>13 DEF Retains, HasBlock, Owned
<1> QED BY <1>11, <1>12, <1>14 DEF OthersKeep

Released(s, t, f, k, m) ==
    /\ Image(t) /\ t.status = "ok" /\ t.fcb = s.fcb
    /\ Held(t, With(k, f, 0), m)
    /\ OthersKeep(s, t, f, k)
    /\ Retains(s, k, m, t, With(k, f, 0), m)
LEMMA FileReleased ==
    ASSUME NEW s, Image(s), s.status = "ok", NEW k \in Counts, NEW m \in Counts, Held(s, k, m),
           \A g \in FileNumbers : k[g] <= m[g], NEW f \in FileNumbers, k[f] = BlockCount(s, f)
    PROVE  Released(s, Release(s, GetBlocks(s, f)), f, k, m)
<1>1. /\ GaveBack(s, Release(s, GetBlocks(s, f)), k[f], GetBlocks(s, f))
      /\ \A i \in 1..k[f] : GetBlocks(s, f)[i] = DataAt(s, f, i)
  BY FileGivesBack
<1>2. /\ With(k, f, 0) \in Counts /\ With(k, f, 0)[f] = 0
      /\ \A g \in FileNumbers \ {f} : With(k, f, 0)[g] = k[g]
  <2>1. 0 \in 0..MaxBlocks BY Bounds
  <2> QED BY <2>1, CountsChange
<1>3. /\ Held(Release(s, GetBlocks(s, f)), With(k, f, 0), m)
      /\ OthersKeep(s, Release(s, GetBlocks(s, f)), f, k)
      /\ Retains(s, k, m, Release(s, GetBlocks(s, f)), With(k, f, 0), m)
  BY <1>1, <1>2, RestIsHeld
<1> QED BY <1>1, <1>3 DEF Released, GaveBack

\* The blocks a file claims are those its length says, when it exists.
Claims(s) == [g \in FileNumbers |-> IF s.fcb[g].is_used THEN BlockCount(s, g) ELSE 0]
Sound(s) == Image(s) /\ s.status = "ok" /\ Held(s, Claims(s), Claims(s))

LEMMA ClaimsAre ==
    ASSUME NEW s, Image(s)
    PROVE  Claims(s) \in Counts /\ \A g \in FileNumbers : s.fcb[g].length \in 0..MAX_FILE_SIZE
<1>1. ASSUME NEW g \in FileNumbers
      PROVE  s.fcb[g].length \in 0..MAX_FILE_SIZE /\ BlockCount(s, g) \in 0..MaxBlocks
  <2>1. s.fcb[g] \in Fcbs BY DEF Image
  <2>2. s.fcb[g].length \in 0..MAX_FILE_SIZE BY <2>1 DEF Fcbs
  <2> QED BY <2>2, BlocksOfLength DEF BlockCount
<1>2. 0 \in 0..MaxBlocks BY Bounds
<1> QED BY <1>1, <1>2 DEF Claims, Counts

\* No block is lost that was free or one of those the files claim, the data blocks of
\* each counted up to k.
Preserves(s, k, t) == Retains(s, k, Claims(s), t, Claims(t), Claims(t))
Spares(s, t) == Wild(t) \/ Preserves(s, Claims(s), t)

LEMMA RetainsOn ==
    ASSUME NEW s, NEW k, NEW m, NEW t, NEW k1, NEW m1, Retains(s, k, m, t, k1, m1),
           NEW u, NEW k2, NEW m2, Retains(t, k1, m1, u, k2, m2)
    PROVE  Retains(s, k, m, u, k2, m2)
BY DEF Retains

LEMMA SparesOn ==
    ASSUME NEW s, NEW t, NEW u, Preserves(s, Claims(s), t), Spares(t, u)
    PROVE  Spares(s, u)
BY RetainsOn DEF Spares, Preserves

LEMMA SameCounts ==
    ASSUME NEW s, NEW k, NEW m, NEW t, NEW k1, NEW m1, Retains(s, k, m, t, k1, m1),
           NEW j, NEW l, \A g \in FileNumbers : j[g] = k[g] /\ l[g] = m[g],
           NEW j1, NEW l1, \A g \in FileNumbers : j1[g] = k1[g] /\ l1[g] = m1[g]
    PROVE  Retains(s, j, l, t, j1, l1)
BY DEF Retains, HasBlock

\* A file is as it was.
Intact(s, t, g) == t.fcb[g] = s.fcb[g] /\ SameCells(s, t, g, Claims(s)[g])

LEMMA IntactStays ==
    ASSUME NEW s, NEW t, NEW u, NEW g \in FileNumbers, Intact(s, t, g), Intact(t, u, g)
    PROVE  Intact(s, u, g)
<1>1. Claims(t)[g] = Claims(s)[g] BY DEF Claims, BlockCount, Intact
<1> QED BY <1>1, CellsStayOn DEF Intact

LEMMA SameIsIntact ==
    ASSUME NEW s, NEW t, NEW g, t.disk = s.disk, t.fcb[g] = s.fcb[g]
    PROVE  Intact(s, t, g)
BY SameDiskSameCells DEF Intact

\* A file whose blocks are as they were holds what it held.
LEMMA IntactCells ==
    ASSUME NEW s, NEW t, NEW f \in FileNumbers, s.fcb[f].length \in Nat, s.fcb[f].is_used,
           Intact(s, t, f), NEW j \in 0..s.fcb[f].length - 1
    PROVE  t.fcb[f] = s.fcb[f] /\ Cell(t, f, j) = Cell(s, f, j)
<1>1. t.fcb[f] = s.fcb[f] /\ SameCells(s, t, f, BlockCount(s, f)) BY DEF Intact, Claims
<1> PICK k, i : k = (j \div B) + 1 /\ i = (j % B) + 1 OBVIOUS
<1>2. k \in 1..BlockCount(s, f) BY PlaceOf DEF BlockCount
<1>3. Cell(s, f, j) = s.disk[DataAt(s, f, k)][i] BY CellIs
<1>4. Cell(t, f, j) = t.disk[DataAt(t, f, k)][i] BY <1>1, CellIs
<1>5. t.disk[DataAt(t, f, k)][i] = s.disk[DataAt(s, f, k)][i]
  BY <1>1, <1>2, PlaceOf DEF SameCells, SameBlock
<1> QED BY <1>1, <1>3, <1>4, <1>5

LEMMA IntactData ==
    ASSUME NEW s, NEW t, NEW f \in FileNumbers, s.fcb[f].length \in Nat, s.fcb[f].is_used,
           Intact(s, t, f), HasData(s, f)
    PROVE  HasData(t, f)
<1>1. t.fcb[f] = s.fcb[f] BY DEF Intact
<1>2. \A j \in 0..s.fcb[f].length - 1 : Cell(t, f, j) = Cell(s, f, j) BY IntactCells
<1> QED BY <1>1, <1>2 DEF HasData

Became(s, t, f, len) ==
    /\ Sound(t)
    /\ t.fcb[f].length = len /\ t.fcb[f].is_used
    /\ \A g \in FileNumbers \ {f} : Intact(s, t, g)

LEMMA DoneIsSound ==
    ASSUME NEW s, Image(s), NEW f \in FileNumbers, s.fcb[f].is_used,
           NEW k \in Counts, \A g \in FileNumbers \ {f} : k[g] = Claims(s)[g],
           NEW newLen \in 0..MAX_FILE_SIZE, NEW t,
           PutDone(s, t, f, k, Claims(s), CeilDiv(newLen, B), newLen)
    PROVE  Became(s, t, f, newLen) /\ Preserves(s, k, t)
<1>0. CeilDiv(newLen, B) \in 0..MaxBlocks BY BlocksOfLength
<1> PICK n \in 0..MaxBlocks : n = CeilDiv(newLen, B) BY <1>0
<1>1. /\ Image(t) /\ t.status = "ok"
      /\ Held(t, With(k, f, n), With(Claims(s), f, n))
      /\ t.fcb[f].length = newLen /\ t.fcb[f].is_used
      /\ \A g \in FileNumbers \ {f} : t.fcb[g] = s.fcb[g]
  BY DEF PutDone
<1>2. BlockCount(t, f) = n /\ \A g \in FileNumbers \ {f} : BlockCount(t, g) = BlockCount(s, g)
  BY <1>1 DEF BlockCount
<1>3. Claims(s) \in Counts BY ClaimsAre
<1>4. /\ With(k, f, n)[f] = n /\ With(Claims(s), f, n)[f] = n
      /\ \A g \in FileNumbers \ {f} : /\ With(k, f, n)[g] = k[g]
                                      /\ With(Claims(s), f, n)[g] = Claims(s)[g]
  BY <1>3, CountsChange
<1>5. \A g \in FileNumbers : /\ With(k, f, n)[g] = Claims(t)[g]
                             /\ With(Claims(s), f, n)[g] = Claims(t)[g]
  BY <1>1, <1>2, <1>4 DEF Claims
<1>6. Held(t, Claims(t), Claims(t)) BY <1>1, <1>5 DEF Held
<1>7. \A g \in FileNumbers \ {f} : Intact(s, t, g)
  <2>1. OthersKeep(s, t, f, k) BY DEF PutDone
  <2> QED BY <1>1, <2>1 DEF OthersKeep, Intact
<1>8. Preserves(s, k, t)
  <2>1. Retains(s, k, Claims(s), t, With(k, f, n), With(Claims(s), f, n)) BY DEF PutDone
  <2>2. Retains(s, k, Claims(s), t, Claims(t), Claims(t)) BY <1>5, <2>1, SameCounts
  <2> QED BY <2>2 DEF Preserves
<1> QED BY <1>1, <1>6, <1>7, <1>8 DEF Became, Sound

LEMMA PutSound ==
    ASSUME NEW s, Image(s), s.status = "ok", NEW f \in FileNumbers, s.fcb[f].is_used,
           NEW k \in Counts, Held(s, k, Claims(s)), k[f] <= Claims(s)[f],
           \A g \in FileNumbers \ {f} : k[g] = Claims(s)[g],
           NEW at \in Nat, k[f] = CeilDiv(at, B),
           NEW newLen \in 0..MAX_FILE_SIZE, BlockCount(s, f) <= CeilDiv(newLen, B), NEW toks
    PROVE  \/ Wild(Put(s, f, at, toks, newLen))
           \/ /\ Became(s, Put(s, f, at, toks, newLen), f, newLen)
              /\ Laid(s, Put(s, f, at, toks, newLen), f, at, toks, CeilDiv(newLen, B))
              /\ Preserves(s, k, Put(s, f, at, toks, newLen))
<1>1. Claims(s) \in Counts BY ClaimsAre
<1>2. \A g \in FileNumbers : k[g] <= Claims(s)[g]
  <2>1. \A g \in FileNumbers : Claims(s)[g] \in Nat BY <1>1, Bounds DEF Counts
  <2> QED BY <2>1
<1>3. Claims(s)[f] = BlockCount(s, f) BY DEF Claims
<1>4. \/ Wild(Put(s, f, at, toks, newLen))
      \/ /\ PutDone(s, Put(s, f, at, toks, newLen), f, k, Claims(s), CeilDiv(newLen, B), newLen)
         /\ Laid(s, Put(s, f, at, toks, newLen), f, at, toks, CeilDiv(newLen, B))
  BY <1>1, <1>2, <1>3, PutDoes
<1> QED BY <1>4, DoneIsSound

LEMMA ExtendSound ==
    ASSUME NEW s, Sound(s), NEW f \in FileNumbers, s.fcb[f].is_used, NEW toks,
           Len(toks) \in Nat, s.fcb[f].length + Len(toks) \in 0..MAX_FILE_SIZE
    PROVE  \/ Wild(Extend(s, f, toks))
           \/ /\ Became(s, Extend(s, f, toks), f, s.fcb[f].length + Len(toks))
              /\ Laid(s, Extend(s, f, toks), f, s.fcb[f].length, toks,
                      CeilDiv(s.fcb[f].length + Len(toks), B))
              /\ Preserves(s, Claims(s), Extend(s, f, toks))
<1>1. /\ Image(s) /\ s.status = "ok" /\ Held(s, Claims(s), Claims(s)) BY DEF Sound
<1> PICK at, newLen : at = s.fcb[f].length /\ newLen = s.fcb[f].length + Len(toks) OBVIOUS
<1>2. Claims(s) \in Counts /\ at \in Nat /\ at <= newLen /\ newLen \in Nat
  BY <1>1, ClaimsAre, Bounds
<1>3. Claims(s)[f] = BlockCount(s, f) /\ BlockCount(s, f) = CeilDiv(at, B)
  BY DEF Claims, BlockCount
<1>4. CeilDiv(at, B) <= CeilDiv(newLen, B) BY <1>2, CeilingGrows
<1>5. Extend(s, f, toks) = Put(s, f, at, toks, newLen) BY DEF Extend
<1>6. Claims(s)[f] <= Claims(s)[f] BY <1>2, Bounds DEF Counts
<1>7. \/ Wild(Put(s, f, at, toks, newLen))
      \/ /\ Became(s, Put(s, f, at, toks, newLen), f, newLen)
         /\ Laid(s, Put(s, f, at, toks, newLen), f, at, toks, CeilDiv(newLen, B))
         /\ Preserves(s, Claims(s), Put(s, f, at, toks, newLen))
  BY <1>1, <1>2, <1>3, <1>4, <1>6, PutSound
<1> QED BY <1>5, <1>7

\* Nothing is lost at the end of a file.
LEMMA ExtendSpares ==
    ASSUME NEW s, Sound(s), NEW f \in FileNumbers, s.fcb[f].is_used, NEW toks,
           Len(toks) \in Nat, s.fcb[f].length + Len(toks) \in 0..MAX_FILE_SIZE
    PROVE  Spares(s, Extend(s, f, toks))
BY ExtendSound DEF Spares

LEMMA WildStays ==
    ASSUME NEW s, Wild(s), NEW f, NEW toks
    PROVE  Extend(s, f, toks) = s
BY DEF Wild, Extend, Put

LEMMA ExtendAppends ==
    ASSUME NEW s, Sound(s), NEW f \in FileNumbers, s.fcb[f].is_used, NEW toks, NEW n \in Nat,
           Len(toks) = n, s.fcb[f].length + n \in 0..MAX_FILE_SIZE, Starts(s.fcb[f].length)
    PROVE  \/ Wild(Extend(s, f, toks))
           \/ /\ Became(s, Extend(s, f, toks), f, s.fcb[f].length + n)
              /\ Appended(s, Extend(s, f, toks), f, toks)
<1> PICK t : t = Extend(s, f, toks) OBVIOUS
<1> PICK at : at = s.fcb[f].length OBVIOUS
<1>1. at \in Nat BY ClaimsAre, Bounds DEF Sound
<1>2. Wild(t) \/ (Became(s, t, f, at + n) /\ Laid(s, t, f, at, toks, CeilDiv(at + n, B)))
  BY ExtendSound
<1>3. ASSUME Became(s, t, f, at + n), Laid(s, t, f, at, toks, CeilDiv(at + n, B))
      PROVE  Appended(s, t, f, toks)
  <2>1. t.fcb[f].length = at + n BY <1>3 DEF Became
  <2> QED BY <1>1, <1>3, <2>1, LaidAppends
<1>4. Wild(t) \/ (Became(s, t, f, at + n) /\ Appended(s, t, f, toks)) BY <1>2, <1>3
<1> QED BY <1>4

\* The root directory has an entry for itself and one for every file.
UsedFiles(s) == {f \in Files : s.fcb[f].is_used}
RootFull(s) ==
    /\ s.fcb[Root].is_used
    /\ s.fcb[Root].length = Entry * (1 + Cardinality(UsedFiles(s)))

LEMMA UsedFilesAre ==
    ASSUME NEW S \in SUBSET Files
    PROVE  /\ IsFiniteSet(S) /\ Cardinality(S) \in Nat /\ Cardinality(S) <= Inodes
           /\ Entry * (1 + Cardinality(S)) \in 0..MAX_FILE_SIZE
           /\ Inodes \in Nat /\ Entry \in Nat /\ Entry > 0
<1>1. Inodes \in Nat /\ Entry \in Nat /\ Entry > 0 BY FileBlocksAssumption
<1>2. IsFiniteSet(Files) /\ Cardinality(Files) = Inodes
  <2>1. 1 \in Int /\ Inodes \in Int /\ (IF 1 > Inodes THEN 0 ELSE Inodes - 1 + 1) = Inodes
    BY <1>1
  <2> QED BY <2>1, FS_Interval DEF Files
<1>3. IsFiniteSet(S) /\ Cardinality(S) \in Nat /\ Cardinality(S) <= Inodes
  BY <1>2, FS_Subset, FS_CardinalityType
<1> PICK c \in Nat : c = Cardinality(S) BY <1>3
<1>4. Entry * (1 + c) \in Nat BY <1>1
<1>5. Entry * (1 + c) <= Entry * (1 + Inodes) BY <1>1, <1>3
<1>6. Entry * (1 + Inodes) = (Inodes + 1) * Entry /\ (Inodes + 1) * Entry \in Nat BY <1>1
<1>7. Entry * (1 + c) <= MAX_FILE_SIZE
  <2>1. (Inodes + 1) * Entry <= MAX_FILE_SIZE BY FileBlocksAssumption
  <2> QED BY <1>4, <1>5, <1>6, <2>1, Bounds
<1> QED BY <1>1, <1>3, <1>4, <1>7, Bounds

\* Writing a file leaves the root directory as it is.
LEMMA RootStaysFull ==
    ASSUME NEW s, RootFull(s), NEW f \in Files, s.fcb[f].is_used, NEW t, NEW len,
           Became(s, t, f, len)
    PROVE  RootFull(t)
<1>1. Root \in FileNumbers \ {f} /\ Files \subseteq FileNumbers BY DEF FileNumbers, Root, Files
<1>2. t.fcb[f].is_used /\ \A g \in FileNumbers \ {f} : t.fcb[g] = s.fcb[g]
  BY DEF Became, Intact
<1>3. t.fcb[Root] = s.fcb[Root] BY <1>1, <1>2
<1>4. UsedFiles(t) = UsedFiles(s) BY <1>1, <1>2 DEF UsedFiles
<1> QED BY <1>3, <1>4 DEF RootFull

\* Blocks may leave the pool.
LEMMA LessFree ==
    ASSUME NEW s, NEW k, NEW m, Held(s, k, m), NEW t, t.disk = s.disk,
           \A x : x \in t.free => x \in s.free,
           \A g \in FileNumbers : t.fcb[g].mixed = s.fcb[g].mixed
    PROVE  Held(t, k, m)
<1>1. \A g \in FileNumbers : \A p : BlockAt(t, g, p) = BlockAt(s, g, p)
  BY SameDiskSameBlocks
<1> QED BY <1>1 DEF Held

Good(s) == Wild(s) \/ (Sound(s) /\ RootFull(s))

\* A command leads to such an image and leaves the files alone but those in S.
Left(s, t, S) ==
    Wild(t) \/ (Sound(t) /\ RootFull(t) /\ \A g \in Files \ S : Intact(s, t, g))
\* The file is new, or gone.
Fresh(t, f) == Wild(t) \/ (t.fcb[f].is_used /\ t.fcb[f].length = 0)
Absent(t, f) == Wild(t) \/ ~t.fcb[f].is_used
\* The file holds its data.
Reads(t, f) == Wild(t) \/ HasData(t, f)
\* A write sets the length of one file.
Wrote(s, t, f, len) == Wild(t) \/ Became(s, t, f, len)

LEMMA TakeLeaves ==
    ASSUME NEW s, Sound(s), RootFull(s), CanTake(s, 1)
    PROVE  Left(s, Take(s, 1), {})
<1> PICK got, t : got = Lowest(s.free, 1) /\ t = Take(s, 1) OBVIOUS
<1>1. /\ Image(s) /\ s.status = "ok" /\ Held(s, Claims(s), Claims(s)) BY DEF Sound
<1>2. Took(s, 1, got, t) BY <1>1, TakeTakes
<1>3. /\ Image(t) /\ t.status = "ok" /\ t.fcb = s.fcb /\ t.disk = s.disk
      /\ \A x : x \in t.free => x \in s.free
  BY <1>2 DEF Took
<1>4. Claims(t) = Claims(s) /\ RootFull(t) BY <1>3 DEF Claims, BlockCount, RootFull, UsedFiles
<1>5. Held(t, Claims(s), Claims(s)) BY <1>1, <1>3, LessFree
<1>6. \A g \in Files : Intact(s, t, g) BY <1>3, SameIsIntact
<1>7. Left(s, t, {}) BY <1>3, <1>4, <1>5, <1>6 DEF Left, Sound
<1> QED BY <1>7

\* An inode is set up for a file of no length.
Made(t, v, f) ==
    /\ Image(v) /\ v.status = t.status /\ v.free = t.free /\ v.disk = t.disk
    /\ v.fcb[f].is_used /\ v.fcb[f].length = 0
    /\ \A g \in FileNumbers : v.fcb[g].mixed = t.fcb[g].mixed
    /\ \A g \in FileNumbers \ {f} : v.fcb[g] = t.fcb[g]
LEMMA InodeIsMade ==
    ASSUME NEW t, Image(t), NEW f \in FileNumbers
    PROVE  Made(t, [t EXCEPT !.fcb[f].is_used = TRUE, !.fcb[f].length = 0], f)
<1> PICK v : v = [t EXCEPT !.fcb[f].is_used = TRUE, !.fcb[f].length = 0] OBVIOUS
<1>1. t.fcb \in [FileNumbers -> Fcbs] /\ t.fcb[f] \in Fcbs BY DEF Image
<1>2. /\ DOMAIN v = DOMAIN t /\ v.free = t.free /\ v.free_block_count = t.free_block_count
      /\ v.status = t.status /\ v.disk = t.disk
      /\ v.fcb = [[t.fcb EXCEPT ![f].is_used = TRUE] EXCEPT ![f].length = 0]
  BY DEF Image
<1> PICK e : e = [[t.fcb[f] EXCEPT !.is_used = TRUE] EXCEPT !.length = 0] OBVIOUS
<1>3. e \in Fcbs /\ e.is_used /\ e.length = 0 /\ e.mixed = t.fcb[f].mixed
  <2> PICK a : a = [t.fcb[f] EXCEPT !.is_used = TRUE] OBVIOUS
  <2>1. a \in Fcbs /\ a.is_used /\ a.mixed = t.fcb[f].mixed BY <1>1 DEF Fcbs
  <2>2. 0 \in 0..MAX_FILE_SIZE BY Bounds
  <2>3. e = [a EXCEPT !.length = 0] OBVIOUS
  <2> QED BY <2>1, <2>2, <2>3 DEF Fcbs
<1>4. v.fcb = [t.fcb EXCEPT ![f] = e] BY <1>1, <1>2
<1>5. v.fcb \in [FileNumbers -> Fcbs]
  <2>1. \A x \in Fcbs : [t.fcb EXCEPT ![f] = x] \in [FileNumbers -> Fcbs] BY <1>1
  <2> QED BY <1>3, <1>4, <2>1
<1>6. /\ v.fcb[f].is_used /\ v.fcb[f].length = 0
      /\ \A g \in FileNumbers : v.fcb[g].mixed = t.fcb[g].mixed
      /\ \A g \in FileNumbers \ {f} : v.fcb[g] = t.fcb[g]
  BY <1>1, <1>3, <1>4
<1>7. Image(v) BY <1>2, <1>5 DEF Image
<1>8. Made(t, v, f) BY <1>2, <1>6, <1>7 DEF Made
<1> QED BY <1>8

\* The root directory gets an entry for a new file.
Entered(s, u, f) ==
    Wild(u) \/ (Appended(s, u, Root, DirEntry(f)) /\ UsedFiles(u) = UsedFiles(s) \cup {f})
Enters(s, u, f) == Starts(s.fcb[Root].length) => Entered(s, u, f)
LEMMA EntryIsAdded ==
    ASSUME NEW s, Sound(s), RootFull(s), NEW f \in Files, ~s.fcb[f].is_used,
           NEW got, NEW t, Took(s, 1, got, t), NEW v, Made(t, v, f)
    PROVE  /\ Left(s, Extend(v, Root, DirEntry(f)), {f})
           /\ Fresh(Extend(v, Root, DirEntry(f)), f)
           /\ Enters(s, Extend(v, Root, DirEntry(f)), f)
<1>1. Image(s) /\ s.status = "ok" /\ Held(s, Claims(s), Claims(s)) BY DEF Sound
<1>2. /\ t.status = "ok" /\ t.fcb = s.fcb /\ t.disk = s.disk
      /\ \A x : x \in t.free => x \in s.free
  BY DEF Took
<1>3. /\ Image(v) /\ v.status = "ok" /\ v.disk = s.disk
      /\ \A x : x \in v.free => x \in s.free
      /\ v.fcb[f].is_used /\ v.fcb[f].length = 0
      /\ \A g \in FileNumbers : v.fcb[g].mixed = s.fcb[g].mixed
      /\ \A g \in FileNumbers \ {f} : v.fcb[g] = s.fcb[g]
  BY <1>2 DEF Made
<1>4. f \in FileNumbers /\ Root \in FileNumbers \ {f} /\ Files \subseteq FileNumbers
  BY DEF FileNumbers, Root, Files
<1>5. Claims(v) = Claims(s)
  <2>1. ASSUME NEW g \in FileNumbers PROVE Claims(v)[g] = Claims(s)[g]
    <3>1. CASE g = f BY <1>3, <1>4, <3>1, NoLengthNoBlocks DEF Claims, BlockCount
    <3>2. CASE g # f BY <1>3, <3>2 DEF Claims, BlockCount
    <3> QED BY <3>1, <3>2
  <2> QED BY <2>1 DEF Claims
<1>6. Sound(v)
  <2>1. Held(v, Claims(s), Claims(s)) BY <1>1, <1>3, LessFree
  <2> QED BY <1>3, <1>5, <2>1 DEF Sound
<1>7. UsedFiles(v) = UsedFiles(s) \cup {f} BY <1>3, <1>4 DEF UsedFiles
<1> PICK c \in Nat : c = Cardinality(UsedFiles(s)) BY UsedFilesAre DEF UsedFiles
<1>8. Cardinality(UsedFiles(v)) = c + 1
  <2>1. UsedFiles(s) \in SUBSET Files /\ f \notin UsedFiles(s) BY DEF UsedFiles
  <2>2. IsFiniteSet(UsedFiles(s)) BY <2>1, UsedFilesAre
  <2> QED BY <1>7, <2>1, <2>2, FS_AddElement
<1>9. v.fcb[Root].is_used /\ v.fcb[Root].length = Entry * (1 + c) BY <1>3, <1>4 DEF RootFull
<1>10. Entry \in Nat /\ Entry * (1 + (c + 1)) \in 0..MAX_FILE_SIZE
  <2>1. UsedFiles(v) \in SUBSET Files BY DEF UsedFiles
  <2> QED BY <1>8, <2>1, UsedFilesAre
<1>11. Len(DirEntry(f)) = Entry BY <1>10 DEF DirEntry
<1>12. v.fcb[Root].length + Len(DirEntry(f)) = Entry * (1 + (c + 1))
  <2>1. Entry * (1 + (c + 1)) = Entry * (1 + c) + Entry BY <1>10
  <2> QED BY <1>9, <1>11, <2>1
<1> PICK u, len : u = Extend(v, Root, DirEntry(f)) /\ len = Entry * (1 + (c + 1)) OBVIOUS
<1>13. Wild(u) \/ Became(v, u, Root, len)
  <2>1. Len(DirEntry(f)) \in Nat BY <1>10, <1>11
  <2>2. v.fcb[Root].length + Len(DirEntry(f)) \in 0..MAX_FILE_SIZE BY <1>10, <1>12
  <2> QED BY <1>4, <1>6, <1>9, <1>12, <2>1, <2>2, ExtendSound
<1>14. ASSUME Became(v, u, Root, len)
       PROVE  RootFull(u) /\ \A g \in Files \ {f} : Intact(s, u, g)
  <2>0. /\ u.fcb[Root].is_used /\ u.fcb[Root].length = len
        /\ \A g \in FileNumbers \ {Root} : Intact(v, u, g)
    BY <1>14 DEF Became
  <2>1. \A g \in FileNumbers \ {Root} : u.fcb[g] = v.fcb[g] BY <2>0 DEF Intact
  <2>2. Files \subseteq FileNumbers \ {Root} BY DEF Files, FileNumbers, Root
  <2>3. UsedFiles(u) = UsedFiles(v) BY <2>1, <2>2 DEF UsedFiles
  <2>4. RootFull(u) BY <1>8, <2>0, <2>3 DEF RootFull
  <2>5. ASSUME NEW g \in Files \ {f} PROVE Intact(s, u, g)
    <3>1. g \in FileNumbers /\ g \in FileNumbers \ {Root} BY <2>2
    <3>2. Intact(s, v, g) BY <1>3, <3>1, SameIsIntact
    <3> QED BY <2>0, <3>1, <3>2, IntactStays
  <2> QED BY <2>4, <2>5
<1>15. Left(s, u, {f}) BY <1>13, <1>14 DEF Left, Became
<1>16. Fresh(u, f)
  <2>1. f \in FileNumbers \ {Root} BY <1>4
  <2>2. Became(v, u, Root, len) => u.fcb[f] = v.fcb[f] BY <2>1 DEF Became, Intact
  <2> QED BY <1>3, <1>13, <2>2 DEF Fresh
<1>17. ASSUME Starts(s.fcb[Root].length) PROVE Entered(s, u, f)
  <2>1. Wild(u) \/ (Became(v, u, Root, len) /\ Appended(v, u, Root, DirEntry(f)))
    <3>1. v.fcb[Root].length + Entry \in 0..MAX_FILE_SIZE BY <1>10, <1>11, <1>12
    <3>2. Starts(v.fcb[Root].length) BY <1>3, <1>4, <1>17
    <3> QED BY <1>4, <1>6, <1>9, <1>10, <1>11, <1>12, <3>1, <3>2, ExtendAppends
  <2>2. ASSUME Became(v, u, Root, len) PROVE UsedFiles(u) = UsedFiles(s) \cup {f}
    <3>1. Files \subseteq FileNumbers \ {Root} BY DEF Files, FileNumbers, Root
    <3>2. \A g \in Files : u.fcb[g] = v.fcb[g] BY <2>2, <3>1 DEF Became, Intact
    <3>3. UsedFiles(u) = UsedFiles(v) BY <3>2 DEF UsedFiles
    <3> QED BY <1>7, <3>3
  <2>3. ASSUME Appended(v, u, Root, DirEntry(f)) PROVE Appended(s, u, Root, DirEntry(f))
    <3>1. v.fcb[Root] = s.fcb[Root] BY <1>3, <1>4
    <3>2. s.fcb[Root].is_used /\ s.fcb[Root].length \in Nat
      BY <1>1, <1>4, ClaimsAre, Bounds DEF RootFull
    <3>3. Root \in FileNumbers /\ Intact(s, v, Root) BY <1>3, <1>4, SameIsIntact
    <3>4. \A j \in 0..s.fcb[Root].length - 1 : Cell(v, Root, j) = Cell(s, Root, j)
      BY <3>2, <3>3, IntactCells
    <3> QED BY <2>3, <3>1, <3>4 DEF Appended
  <2> QED BY <2>1, <2>2, <2>3 DEF Entered
<1> QED BY <1>15, <1>16, <1>17 DEF Enters

\* Writing to a file.
LEMMA WroteIsLeft ==
    ASSUME NEW s, RootFull(s), NEW f \in Files, s.fcb[f].is_used, NEW t, NEW len,
           Wrote(s, t, f, len)
    PROVE  Left(s, t, {f})
<1>1. Files \subseteq FileNumbers BY DEF FileNumbers
<1>2. CASE Wild(t) BY <1>2 DEF Left
<1>3. CASE Became(s, t, f, len)
  <2>1. RootFull(t) BY <1>3, RootStaysFull
  <2>2. Sound(t) /\ \A g \in FileNumbers \ {f} : Intact(s, t, g) BY <1>3 DEF Became
  <2> QED BY <1>1, <2>1, <2>2 DEF Left
<1> QED BY <1>2, <1>3 DEF Wrote

LEMMA AppendWrites ==
    ASSUME NEW s, Sound(s), RootFull(s), NEW f \in Files, s.fcb[f].is_used,
           NEW n \in Nat, s.fcb[f].length + n <= MaxLen, NEW at, at = s.fcb[f].length
    PROVE  /\ Wrote(s, Extend(s, f, Data(f, at, n)), f, at + n)
           /\ Starts(at) /\ HasData(s, f) => Reads(Extend(s, f, Data(f, at, n)), f)
           /\ Spares(s, Extend(s, f, Data(f, at, n)))
<1>1. f \in FileNumbers BY DEF FileNumbers
<1>2. s.fcb[f].length \in Nat BY <1>1, ClaimsAre, Bounds DEF Sound
<1>3. MaxLen \in Nat /\ MaxLen <= MAX_FILE_SIZE BY FileBlocksAssumption, Bounds
<1> PICK toks : toks = Data(f, at, n) OBVIOUS
<1>4. Len(toks) = n BY DataIs
<1>5. s.fcb[f].length + Len(toks) \in 0..MAX_FILE_SIZE BY <1>2, <1>3, <1>4, Bounds
<1>t. PICK t : t = Extend(s, f, toks) OBVIOUS
<1>6. Wild(t) \/ (Became(s, t, f, at + n) /\ Laid(s, t, f, at, toks, CeilDiv(at + n, B)))
  <2>1. \/ Wild(Extend(s, f, toks))
        \/ /\ Became(s, Extend(s, f, toks), f, s.fcb[f].length + Len(toks))
           /\ Laid(s, Extend(s, f, toks), f, s.fcb[f].length, toks,
                   CeilDiv(s.fcb[f].length + Len(toks), B))
    BY <1>1, <1>4, <1>5, ExtendSound
  <2> QED BY <1>4, <1>t, <2>1
<1>7. Wrote(s, t, f, at + n) BY <1>6 DEF Wrote
<1>8. Starts(at) /\ HasData(s, f) => Reads(t, f)
  <2>1. Became(s, t, f, at + n) => t.fcb[f].length = at + n BY DEF Became
  <2> QED BY <1>2, <1>6, <2>1, AppendedHasData DEF Reads
<1>9. Spares(s, t) BY <1>1, <1>4, <1>5, <1>t, ExtendSpares
<1> QED BY <1>t, <1>7, <1>8, <1>9

LEMMA OverrideWrites ==
    ASSUME NEW s, Sound(s), RootFull(s), NEW f \in Files, s.fcb[f].is_used,
           NEW at \in Nat, NEW n \in Nat, at <= s.fcb[f].length, at + n <= MaxLen, NEW toks,
           NEW newLen, newLen = IF at + n > s.fcb[f].length THEN at + n ELSE s.fcb[f].length
    PROVE  /\ Wrote(s, Put(s, f, at, toks, newLen), f, newLen)
           /\ \/ Wild(Put(s, f, at, toks, newLen))
              \/ Laid(s, Put(s, f, at, toks, newLen), f, at, toks, CeilDiv(newLen, B))
           /\ CeilDiv(at, B) >= BlockCount(s, f) => Spares(s, Put(s, f, at, toks, newLen))
<1>1. f \in FileNumbers BY DEF FileNumbers
<1>2. Image(s) /\ s.status = "ok" /\ Held(s, Claims(s), Claims(s)) BY DEF Sound
<1>3. Claims(s) \in Counts /\ s.fcb[f].length \in 0..MAX_FILE_SIZE BY <1>1, <1>2, ClaimsAre
<1>4. MaxLen \in Nat /\ MaxLen <= MAX_FILE_SIZE BY FileBlocksAssumption, Bounds
<1>5. newLen \in 0..MAX_FILE_SIZE /\ newLen \in Nat /\ s.fcb[f].length <= newLen
  BY <1>3, <1>4, Bounds
<1> PICK len \in Nat : len = s.fcb[f].length BY <1>3, Bounds
<1>6. CeilDiv(at, B) <= CeilDiv(len, B) /\ CeilDiv(len, B) <= CeilDiv(newLen, B)
  BY <1>5, CeilingGrows
<1>7. BlockCount(s, f) = CeilDiv(len, B) /\ Claims(s)[f] = CeilDiv(len, B)
  BY <1>1 DEF BlockCount, Claims
<1> PICK c : c = CeilDiv(at, B) OBVIOUS
<1>8. c \in 0..MaxBlocks
  <2>1. c \in Nat BY Ceiling
  <2>2. CeilDiv(len, B) \in 0..MaxBlocks BY <1>3, BlocksOfLength
  <2> QED BY <1>6, <2>1, <2>2, Bounds
<1> PICK k : k = With(Claims(s), f, c) OBVIOUS
<1>9. k \in Counts /\ k[f] = c /\ \A g \in FileNumbers \ {f} : k[g] = Claims(s)[g]
  BY <1>1, <1>3, <1>8, CountsChange
<1>10. Held(s, k, Claims(s))
  <2>1. \A g \in FileNumbers : Claims(s)[g] \in Nat BY <1>3, Bounds DEF Counts
  <2>2. \A g \in FileNumbers : k[g] <= Claims(s)[g] BY <1>6, <1>7, <1>9, <2>1
  <2> QED BY <1>2, <1>3, <1>9, <2>2, FewerHeld
<1>11. k[f] <= Claims(s)[f] /\ BlockCount(s, f) <= CeilDiv(newLen, B) BY <1>6, <1>7, <1>9
<1>12. \/ Wild(Put(s, f, at, toks, newLen))
       \/ /\ Became(s, Put(s, f, at, toks, newLen), f, newLen)
          /\ Laid(s, Put(s, f, at, toks, newLen), f, at, toks, CeilDiv(newLen, B))
          /\ Preserves(s, k, Put(s, f, at, toks, newLen))
  BY <1>1, <1>2, <1>5, <1>9, <1>10, <1>11, PutSound
<1>13. ASSUME CeilDiv(at, B) >= BlockCount(s, f), NEW t, Preserves(s, k, t) PROVE Spares(s, t)
  <2>1. \A g \in FileNumbers : Claims(s)[g] = k[g]
    <3>1. CeilDiv(at, B) \in Nat /\ CeilDiv(len, B) \in Nat BY Ceiling
    <3>2. CeilDiv(at, B) = CeilDiv(len, B) BY <1>6, <1>7, <1>13, <3>1
    <3> QED BY <1>7, <1>9, <3>2
  <2>2. Retains(s, k, Claims(s), t, Claims(t), Claims(t)) BY <1>13 DEF Preserves
  <2>3. Retains(s, Claims(s), Claims(s), t, Claims(t), Claims(t)) BY <2>1, <2>2, SameCounts
  <2> QED BY <2>3 DEF Spares, Preserves
<1>14. CeilDiv(at, B) >= BlockCount(s, f) => Spares(s, Put(s, f, at, toks, newLen))
  BY <1>12, <1>13 DEF Spares
<1> QED BY <1>12, <1>14 DEF Wrote

LEMMA TruncateWrites ==
    ASSUME NEW s, Sound(s), RootFull(s), NEW f \in Files, s.fcb[f].is_used,
           NEW n \in Nat, n <= MaxLen, CeilDiv(n, B) >= BlockCount(s, f),
           NEW toks, toks = Data(f, 0, n)
    PROVE  /\ Wrote(s, Put(Release(s, GetBlocks(s, f)), f, 0, toks, n), f, n)
           /\ Reads(Put(Release(s, GetBlocks(s, f)), f, 0, toks, n), f)
           /\ Spares(s, Put(Release(s, GetBlocks(s, f)), f, 0, toks, n))
<1>1. f \in FileNumbers BY DEF FileNumbers
<1>2. Image(s) /\ s.status = "ok" /\ Held(s, Claims(s), Claims(s)) BY DEF Sound
<1>3. Claims(s) \in Counts BY <1>2, ClaimsAre
<1>4. n \in 0..MAX_FILE_SIZE BY FileBlocksAssumption, Bounds
<1> PICK t : t = Release(s, GetBlocks(s, f)) OBVIOUS
<1>5. Released(s, t, f, Claims(s), Claims(s))
  <2>1. Claims(s)[f] = BlockCount(s, f) BY <1>1 DEF Claims
  <2>2. \A g \in FileNumbers : Claims(s)[g] <= Claims(s)[g] BY <1>3, Bounds DEF Counts
  <2> QED BY <1>1, <1>2, <1>3, <2>1, <2>2, FileReleased
<1>6. /\ Image(t) /\ t.status = "ok" /\ t.fcb = s.fcb
      /\ Held(t, With(Claims(s), f, 0), Claims(s))
  BY <1>5 DEF Released
<1>7. Claims(t) = Claims(s) /\ BlockCount(t, f) = BlockCount(s, f) /\ RootFull(t)
  BY <1>6 DEF Claims, BlockCount, RootFull, UsedFiles
<1>8. /\ With(Claims(s), f, 0) \in Counts /\ With(Claims(s), f, 0)[f] = 0
      /\ \A g \in FileNumbers \ {f} : With(Claims(s), f, 0)[g] = Claims(s)[g]
  <2>1. 0 \in 0..MaxBlocks BY Bounds
  <2> QED BY <1>1, <1>3, <2>1, CountsChange
<1> PICK k : k = With(Claims(s), f, 0) OBVIOUS
<1>9. /\ k \in Counts /\ k[f] = CeilDiv(0, B) /\ k[f] <= Claims(t)[f] /\ Held(t, k, Claims(t))
      /\ \A g \in FileNumbers \ {f} : k[g] = Claims(t)[g]
  <2>1. Claims(s)[f] \in Nat BY <1>1, <1>3, Bounds DEF Counts
  <2> QED BY <1>6, <1>7, <1>8, <2>1, NoLengthNoBlocks
<1>10. t.fcb[f].is_used /\ BlockCount(t, f) <= CeilDiv(n, B)
  <2>1. CeilDiv(n, B) \in Nat /\ BlockCount(s, f) \in Nat
    <3>1. s.fcb[f].length \in Nat BY <1>1, <1>2, ClaimsAre, Bounds
    <3> QED BY <3>1, Ceiling DEF BlockCount
  <2> QED BY <1>6, <1>7, <2>1
<1>11. \/ Wild(Put(t, f, 0, toks, n))
       \/ /\ Became(t, Put(t, f, 0, toks, n), f, n)
          /\ Laid(t, Put(t, f, 0, toks, n), f, 0, toks, CeilDiv(n, B))
          /\ Preserves(t, k, Put(t, f, 0, toks, n))
  <2>1. 0 \in Nat OBVIOUS
  <2> QED BY <1>1, <1>4, <1>6, <1>9, <1>10, <2>1, PutSound
<1>12. ASSUME NEW g \in FileNumbers \ {f} PROVE Intact(s, t, g)
  <2>1. OthersKeep(s, t, f, Claims(s)) BY <1>5 DEF Released
  <2> QED BY <1>6, <2>1 DEF OthersKeep, Intact
<1>13. ASSUME NEW u, Became(t, u, f, n) PROVE Became(s, u, f, n)
  <2>1. \A g \in FileNumbers \ {f} : Intact(s, u, g) BY <1>12, <1>13, IntactStays DEF Became
  <2> QED BY <1>13, <2>1 DEF Became
<1>14. Wrote(s, Put(t, f, 0, toks, n), f, n) BY <1>11, <1>13 DEF Wrote
<1>15. ASSUME NEW u, Became(t, u, f, n), Laid(t, u, f, 0, toks, CeilDiv(n, B))
       PROVE  HasData(u, f)
  <2>1. u.fcb[f].length = n BY <1>15 DEF Became
  <2>2. t.fcb[f].length \in Nat BY <1>1, <1>6, ClaimsAre, Bounds
  <2>3. 0 \in Nat /\ Starts(0) BY DEF Starts
  <2>4. Remains(t, f, 0, n, n) BY DEF Remains
  <2> QED BY <1>15, <2>1, <2>2, <2>3, <2>4, PutHasData
<1>16. Reads(Put(t, f, 0, toks, n), f) BY <1>11, <1>15 DEF Reads
<1>17. Spares(s, Put(t, f, 0, toks, n))
  <2>1. Retains(s, Claims(s), Claims(s), t, k, Claims(t)) BY <1>5, <1>7 DEF Released
  <2>2. ASSUME NEW u, Preserves(t, k, u) PROVE Preserves(s, Claims(s), u)
    BY <2>1, <2>2, RetainsOn DEF Preserves
  <2> QED BY <1>11, <2>2 DEF Spares
<1> QED BY <1>14, <1>16, <1>17

\* A set of naturals that is not empty has a smallest element.
LEMMA SmallestOf ==
    ASSUME NEW T \in SUBSET Nat, T # {}
    PROVE  \E x \in T : \A y \in T : x <= y
<1>1. PICK x \in T : \A y \in T : ~(<<y, x>> \in OpToRel(<, Nat))
  BY NatLessThanWellFounded, WFMin, Zenon
<1>2. \A y \in T : ~(y < x) BY <1>1 DEF OpToRel
<1> QED BY <1>2

\* What holds of 0 and of a number with the one before it holds up to n.
LEMMA Upwards ==
    ASSUME NEW n \in Nat, NEW T, 0 \in T, \A k \in 1..n : k - 1 \in T => k \in T
    PROVE  0..n \subseteq T
<1> DEFINE None == {k \in 0..n : k \notin T}
<1> SUFFICES ASSUME None # {} PROVE FALSE OBVIOUS
<1>1. PICK m \in None : \A j \in None : m <= j
  <2>1. None \in SUBSET Nat OBVIOUS
  <2> HIDE DEF None
  <2> QED BY <2>1, SmallestOf
<1>2. m \in 1..n /\ m - 1 \in 0..n /\ ~(m <= m - 1) BY <1>1
<1>3. m - 1 \in T BY <1>1, <1>2
<1> QED BY <1>1, <1>2, <1>3

\* The images between the buffers of a copy.
Copying(g, m, s, f, len, n) ==
    g = [k \in 0..m |-> IF k = 0 THEN s ELSE Buffer(g[k - 1], f, len, n, k)]
LEMMA CopyingExists ==
    ASSUME NEW m \in Nat, NEW s, NEW f, NEW len, NEW n
    PROVE  \E g : Copying(g, m, s, f, len, n)
<1> DEFINE T == {k \in 0..m : \E g : Copying(g, k, s, f, len, n)}
<1>1. 0 \in T
  <2> DEFINE g == [k \in 0..0 |-> s]
  <2>1. Copying(g, 0, s, f, len, n) BY DEF Copying
  <2> HIDE DEF g
  <2> QED BY <2>1
<1>2. ASSUME NEW k \in 1..m, k - 1 \in T PROVE k \in T
  <2>1. PICK h : Copying(h, k - 1, s, f, len, n) BY <1>2
  <2> DEFINE g == [i \in 0..k |-> IF i < k THEN h[i] ELSE Buffer(h[k - 1], f, len, n, k)]
  <2>2. ASSUME NEW i \in 0..k
        PROVE  g[i] = IF i = 0 THEN s ELSE Buffer(g[i - 1], f, len, n, i)
    <3>1. CASE i = k BY <3>1
    <3>2. CASE i < k /\ i = 0
      <4>1. 0 \in 0..k - 1 OBVIOUS
      <4> QED BY <2>1, <3>2, <4>1 DEF Copying
    <3>3. CASE i < k /\ i # 0
      <4>1. i \in 0..k - 1 /\ i - 1 \in 0..k /\ i - 1 < k BY <3>3
      <4>2. h[i] = Buffer(h[i - 1], f, len, n, i) BY <2>1, <3>3, <4>1 DEF Copying
      <4>3. g[i] = h[i] /\ g[i - 1] = h[i - 1] BY <3>3, <4>1
      <4> QED BY <3>3, <4>2, <4>3
    <3> QED BY <3>1, <3>2, <3>3
  <2>3. g = [i \in 0..k |-> g[i]] OBVIOUS
  <2> HIDE DEF g
  <2>4. Copying(g, k, s, f, len, n) BY <2>2, <2>3 DEF Copying
  <2>5. k \in 0..m OBVIOUS
  <2> QED BY <2>4, <2>5
<1>3. 0..m \subseteq T
  <2> HIDE DEF T
  <2> QED BY <1>1, <1>2, Upwards
<1> QED BY <1>3

LEMMA CopiedIs ==
    ASSUME NEW s, NEW f, NEW n, NEW len, len = s.fcb[f].length,
           NEW m \in Nat, m = CeilDiv(n, B)
    PROVE  \E g : Copying(g, m, s, f, len, n) /\ Copied(s, f, n) = g[m]
<1> DEFINE c == CHOOSE g : Copying(g, m, s, f, len, n)
<1>1. \E g : Copying(g, m, s, f, len, n) BY CopyingExists
<1>2. Copying(c, m, s, f, len, n) BY <1>1
<1>3. Copied(s, f, n) = c[m] BY DEF Copied, Copying
<1> HIDE DEF c
<1> QED BY <1>2, <1>3

\* One buffer: it is appended, unless there are no blocks left.
LEMMA BufferGrows ==
    ASSUME NEW s, NEW u, NEW f \in FileNumbers, NEW l \in Nat, Wrote(s, u, f, l),
           NEW a \in Nat, l + a <= MAX_FILE_SIZE
    PROVE  /\ Wrote(s, Extend(u, f, Data(f, l, a)), f, l + a)
           /\ Starts(l) /\ Reads(u, f) => Reads(Extend(u, f, Data(f, l, a)), f)
           /\ Spares(s, u) => Spares(s, Extend(u, f, Data(f, l, a)))
<1>1. CASE Wild(u) BY <1>1, WildStays DEF Wrote, Reads, Spares
<1>2. CASE ~Wild(u)
  <2>1. Became(s, u, f, l) BY <1>2 DEF Wrote
  <2>2. /\ Sound(u) /\ u.fcb[f].length = l /\ u.fcb[f].is_used
        /\ \A g \in FileNumbers \ {f} : Intact(s, u, g)
    BY <2>1 DEF Became
  <2> PICK toks : toks = Data(f, l, a) OBVIOUS
  <2>3. Len(toks) = a BY DataIs
  <2>4. u.fcb[f].length + Len(toks) \in 0..MAX_FILE_SIZE BY <2>2, <2>3, Bounds
  <2> PICK v : v = Extend(u, f, toks) OBVIOUS
  <2>5. \/ Wild(v)
        \/ /\ Became(u, v, f, u.fcb[f].length + Len(toks))
           /\ Laid(u, v, f, u.fcb[f].length, toks, CeilDiv(u.fcb[f].length + Len(toks), B))
    BY <2>2, <2>3, <2>4, ExtendSound
  <2>6. Wild(v) \/ (Became(u, v, f, l + a) /\ Laid(u, v, f, l, toks, CeilDiv(l + a, B)))
    BY <2>2, <2>3, <2>5
  <2>7. ASSUME Became(u, v, f, l + a) PROVE Became(s, v, f, l + a)
    <3>1. \A g \in FileNumbers \ {f} : Intact(s, v, g) BY <2>2, <2>7, IntactStays DEF Became
    <3> QED BY <2>7, <3>1 DEF Became
  <2>8. Wrote(s, v, f, l + a) BY <2>6, <2>7 DEF Wrote
  <2>9. ASSUME Starts(l), Reads(u, f) PROVE Reads(v, f)
    <3>1. HasData(u, f) BY <1>2, <2>9 DEF Reads
    <3>2. Became(u, v, f, l + a) => v.fcb[f].length = l + a BY DEF Became
    <3> QED BY <2>2, <2>6, <2>9, <3>1, <3>2, AppendedHasData DEF Reads
  <2>10. ASSUME Spares(s, u) PROVE Spares(s, v)
    <3>1. Spares(u, v) BY <2>2, <2>3, <2>4, ExtendSpares
    <3>2. Preserves(s, Claims(s), u) BY <1>2, <2>10 DEF Spares
    <3> QED BY <3>1, <3>2, SparesOn
  <2> QED BY <2>8, <2>9, <2>10
<1> QED BY <1>1, <1>2

LEMMA CopyWrites ==
    ASSUME NEW s, Sound(s), RootFull(s), NEW f \in Files, s.fcb[f].is_used,
           NEW n \in Nat, s.fcb[f].length + n <= MaxLen
    PROVE  /\ Wrote(s, Copied(s, f, n), f, s.fcb[f].length + n)
           /\ HasData(s, f) /\ (\A k \in 0..CeilDiv(n, B) - 1 : Starts(s.fcb[f].length + k * B)) =>
                 Reads(Copied(s, f, n), f)
           /\ Spares(s, Copied(s, f, n))
<1>0. f \in FileNumbers BY DEF FileNumbers
<1>1. s.fcb[f].length \in Nat BY <1>0, ClaimsAre, Bounds DEF Sound
<1> PICK len \in Nat : len = s.fcb[f].length BY <1>1
<1> PICK m \in Nat : m = CeilDiv(n, B) BY Ceiling
<1>2. PICK g : Copying(g, m, s, f, len, n) /\ Copied(s, f, n) = g[m] BY CopiedIs
<1>3. /\ MaxLen \in Nat /\ MaxLen <= MAX_FILE_SIZE /\ MAX_FILE_SIZE \in Nat
      /\ B \in Nat /\ B > 0
  BY FileBlocksAssumption, Bounds
<1> DEFINE Upto(k) == IF k * B <= n THEN len + k * B ELSE len + n
           Spared == HasData(s, f) /\ \A k \in 0..m - 1 : Starts(len + k * B)
           T == {k \in 0..m : /\ Wrote(s, g[k], f, Upto(k)) /\ Spares(s, g[k])
                              /\ Spared => Reads(g[k], f)}
<1>4. \A k \in 0..m : k * B \in Nat /\ Upto(k) \in Nat /\ Upto(k) <= len + n
  <2> TAKE k \in 0..m
  <2>1. k \in Nat BY <1>3
  <2>2. k * B \in Nat BY <1>3, <2>1
  <2> QED BY <2>2
<1>5. 0 \in T
  <2>1. g[0] = s
    <3>1. 0 \in 0..m OBVIOUS
    <3> QED BY <1>2, <3>1 DEF Copying
  <2>2. Became(s, s, f, len)
    <3>1. \A h \in FileNumbers \ {f} : Intact(s, s, h) BY SameIsIntact
    <3> QED BY <3>1 DEF Became
  <2>3. Upto(0) = len BY <1>3
  <2>4. 0 \in 0..m /\ len <= len OBVIOUS
  <2>6. Spared => Reads(g[0], f) BY <2>1 DEF Reads
  <2>7. Spares(s, g[0]) BY <2>1 DEF Spares, Preserves, Retains
  <2> HIDE DEF Upto, Spared
  <2>5. Wrote(s, g[0], f, Upto(0)) BY <2>1, <2>2, <2>3 DEF Wrote
  <2> QED BY <2>4, <2>5, <2>6, <2>7
<1>6. ASSUME NEW k \in 1..m, k - 1 \in T PROVE k \in T
  <2> PICK done : done = (k - 1) * B OBVIOUS
  <2>1. k \in 0..m /\ k - 1 \in 0..m /\ k # 0 BY <1>3
  <2>2. done \in Nat /\ done < n /\ k * B = done + B
    <3>1. k - 1 \in Nat /\ ~(CeilDiv(n, B) <= k - 1) BY <2>1
    <3>2. ~(n <= B * (k - 1)) BY <3>1, CeilingAtMost
    <3>3. B * (k - 1) = (k - 1) * B /\ k * B = (k - 1) * B + B /\ (k - 1) * B \in Nat
      BY <1>3, <3>1
    <3> QED BY <3>2, <3>3
  <2> PICK a \in Nat : a = Least(B, n - done) BY <1>3, <2>2 DEF Least
  <2>3. Upto(k - 1) = len + done /\ Upto(k) = len + done + a BY <1>3, <2>2 DEF Least
  <2>4. g[k] = Extend(g[k - 1], f, Data(f, len + done, a))
    <3>1. g[k] = Buffer(g[k - 1], f, len, n, k) BY <1>2, <2>1 DEF Copying
    <3> QED BY <3>1 DEF Buffer
  <2>5. /\ Wrote(s, g[k - 1], f, len + done) /\ Spares(s, g[k - 1])
        /\ Spared => Reads(g[k - 1], f)
    <3> HIDE DEF Upto, Spared
    <3> QED BY <1>6, <2>3
  <2>6. len + done \in Nat /\ len + done + a <= MAX_FILE_SIZE
    <3>1. Upto(k) <= len + n BY <1>4, <2>1
    <3>2. len + n <= MaxLen OBVIOUS
    <3> HIDE DEF Upto
    <3> QED BY <1>3, <2>2, <2>3, <3>1, <3>2
  <2>8. Spared => Starts(len + done)
    <3>1. k - 1 \in 0..m - 1 BY <1>3
    <3> QED BY <3>1
  <2> HIDE DEF Spared
  <2>9. /\ Wrote(s, g[k], f, len + done + a)
        /\ Starts(len + done) /\ Reads(g[k - 1], f) => Reads(g[k], f)
        /\ Spares(s, g[k - 1]) => Spares(s, g[k])
    <3> PICK u, l : u = g[k - 1] /\ l = len + done OBVIOUS
    <3>1. l \in Nat /\ Wrote(s, u, f, l) /\ l + a <= MAX_FILE_SIZE BY <2>5, <2>6
    <3>2. g[k] = Extend(u, f, Data(f, l, a)) BY <2>4
    <3>3. /\ Wrote(s, Extend(u, f, Data(f, l, a)), f, l + a)
          /\ Starts(l) /\ Reads(u, f) => Reads(Extend(u, f, Data(f, l, a)), f)
          /\ Spares(s, u) => Spares(s, Extend(u, f, Data(f, l, a)))
      BY <1>0, <3>1, BufferGrows
    <3> QED BY <3>2, <3>3
  <2>7. /\ Wrote(s, g[k], f, len + done + a) /\ Spares(s, g[k])
        /\ Spared => Reads(g[k], f)
    BY <2>5, <2>8, <2>9
  <2> HIDE DEF Upto
  <2> QED BY <2>1, <2>3, <2>7
<1>7. m \in T
  <2>1. 0..m \subseteq T
    <3> HIDE DEF T
    <3> QED BY <1>5, <1>6, Upwards
  <2>2. m \in 0..m OBVIOUS
  <2> QED BY <2>1, <2>2
<1>8. Upto(m) = len + n
  <2>1. n <= B * m BY Ceiling
  <2>2. B * m = m * B /\ m * B \in Nat BY <1>3
  <2>3. m * B <= n => m * B = n BY <2>1, <2>2
  <2> QED BY <2>2, <2>3
<1>9. Wrote(s, g[m], f, len + n) /\ Spares(s, g[m]) /\ (Spared => Reads(g[m], f))
  <2> HIDE DEF Upto, Spared
  <2> QED BY <1>7, <1>8
<1> QED BY <1>2, <1>9

\* The length of a part of a sequence, whatever is in it.
LEMMA PartLength ==
    ASSUME NEW g, NEW a \in Nat, NEW b \in Nat, a <= b + 1
    PROVE  Len(SubSeq(g, a, b)) = b - a + 1
<1> PICK S : S = {g[i] : i \in a..b} OBVIOUS
<1>1. \A i \in a..b : g[i] \in S OBVIOUS
<1>2. a \in Int /\ b \in Int OBVIOUS
<1>3. Len(SubSeq(g, a, b)) = IF a <= b THEN b - a + 1 ELSE 0
  BY <1>1, <1>2, SubSeqProperties
<1> QED BY <1>3

\* An inode is given up.
Unmade(t, v, f) ==
    /\ Image(v) /\ v.status = t.status /\ v.free = t.free /\ v.disk = t.disk
    /\ ~v.fcb[f].is_used
    /\ \A g \in FileNumbers : v.fcb[g].mixed = t.fcb[g].mixed
    /\ \A g \in FileNumbers \ {f} : v.fcb[g] = t.fcb[g]
LEMMA InodeIsGivenUp ==
    ASSUME NEW t, Image(t), NEW f \in FileNumbers
    PROVE  Unmade(t, [t EXCEPT !.fcb[f].is_used = FALSE], f)
<1> PICK v : v = [t EXCEPT !.fcb[f].is_used = FALSE] OBVIOUS
<1>1. t.fcb \in [FileNumbers -> Fcbs] /\ t.fcb[f] \in Fcbs BY DEF Image
<1>2. /\ DOMAIN v = DOMAIN t /\ v.free = t.free /\ v.free_block_count = t.free_block_count
      /\ v.status = t.status /\ v.disk = t.disk
      /\ v.fcb = [t.fcb EXCEPT ![f].is_used = FALSE]
  BY DEF Image
<1>3. [t.fcb[f] EXCEPT !.is_used = FALSE] \in Fcbs BY <1>1 DEF Fcbs
<1>4. v.fcb \in [FileNumbers -> Fcbs] BY <1>1, <1>2, <1>3
<1>5. /\ ~v.fcb[f].is_used
      /\ \A g \in FileNumbers : v.fcb[g].mixed = t.fcb[g].mixed
      /\ \A g \in FileNumbers \ {f} : v.fcb[g] = t.fcb[g]
  BY <1>1, <1>2 DEF Fcbs
<1>6. Image(v) BY <1>2, <1>4 DEF Image
<1>7. Unmade(t, v, f) BY <1>2, <1>5, <1>6 DEF Unmade
<1> QED BY <1>7

\* The image is sound again when the file whose blocks were given back has no claim to
\* them any more.
LEMMA ReleasedIsSound ==
    ASSUME NEW s, Sound(s), NEW f \in FileNumbers, NEW t, Released(s, t, f, Claims(s), Claims(s)),
           NEW v, Image(v), v.status = t.status, v.free = t.free, v.disk = t.disk,
           \A g \in FileNumbers : v.fcb[g].mixed = t.fcb[g].mixed,
           \A g \in FileNumbers \ {f} : v.fcb[g] = t.fcb[g],
           ~v.fcb[f].is_used \/ v.fcb[f].length = 0
    PROVE  Sound(v) /\ (Claims(s)[f] <= L0 => Preserves(s, Claims(s), v))
<1>1. /\ Image(s) /\ Claims(s) \in Counts BY ClaimsAre DEF Sound
<1>2. /\ t.status = "ok" /\ t.fcb = s.fcb /\ Held(t, With(Claims(s), f, 0), Claims(s))
  BY DEF Released
<1>3. Held(v, With(Claims(s), f, 0), Claims(s)) BY <1>2, LessFree
<1> PICK k : k = With(Claims(s), f, 0) OBVIOUS
<1>4. k \in Counts /\ k[f] = 0 /\ \A g \in FileNumbers \ {f} : k[g] = Claims(s)[g]
  <2>1. 0 \in 0..MaxBlocks BY Bounds
  <2> QED BY <1>1, <2>1, CountsChange
<1>5. \A g \in FileNumbers : k[g] <= k[g] /\ (k[g] = Claims(s)[g] \/ k[g] = 0)
  <2>1. \A g \in FileNumbers : k[g] \in Nat BY <1>4, Bounds DEF Counts
  <2> QED BY <1>4, <2>1
<1>6. Held(v, k, k) BY <1>1, <1>3, <1>4, <1>5, FewerHeld
<1>7. Claims(v) = k
  <2>1. ASSUME NEW g \in FileNumbers PROVE Claims(v)[g] = k[g]
    <3>1. CASE g = f BY <1>4, <3>1, NoLengthNoBlocks DEF Claims, BlockCount
    <3>2. CASE g # f BY <1>2, <1>4, <3>2 DEF Claims, BlockCount
    <3> QED BY <3>1, <3>2
  <2>2. k = [g \in FileNumbers |-> k[g]] BY <1>4 DEF Counts
  <2> QED BY <2>1, <2>2 DEF Claims
<1>8. ASSUME Claims(s)[f] <= L0 PROVE Preserves(s, Claims(s), v)
  <2>1. Retains(s, Claims(s), Claims(s), t, k, Claims(s)) BY DEF Released
  <2>2. ASSUME NEW g \in FileNumbers PROVE Slots(k[g], Claims(s)[g]) \subseteq Slots(k[g], k[g])
    <3>1. CASE g = f
      <4>1. Claims(s)[f] \in 0..MaxBlocks /\ L0 \in Nat /\ B \in Nat
        BY <1>1, FileBlocksAssumption DEF Counts
      <4>2. Claims(s)[f] \in Nat BY <4>1, Bounds
      <4>3. ~(Claims(s)[f] > L0) /\ ~(Claims(s)[f] > L0 + B) BY <1>8, <4>1, <4>2
      <4>4. Leaves(Claims(s)[f]) = 0 BY <1>8, <4>1, <4>2, <4>3, LeavesAre
      <4>5. IndexSlots(Claims(s)[f]) = {} BY <4>3, <4>4 DEF IndexSlots
      <4> QED BY <3>1, <4>5 DEF Slots
    <3>2. CASE g # f BY <1>4, <3>2
    <3> QED BY <3>1, <3>2
  <2>3. \A g \in FileNumbers : \A p : BlockAt(v, g, p) = BlockAt(t, g, p)
    BY SameDiskSameBlocks
  <2>4. Retains(t, k, Claims(s), v, k, k) BY <2>2, <2>3 DEF Retains, HasBlock, Owned
  <2> QED BY <1>7, <2>1, <2>4, RetainsOn DEF Preserves
<1> QED BY <1>2, <1>6, <1>7, <1>8 DEF Sound

LEMMA ReleasedKeepsOthers ==
    ASSUME NEW s, NEW f, NEW t, Released(s, t, f, Claims(s), Claims(s)),
           NEW v, v.disk = t.disk, \A g \in FileNumbers \ {f} : v.fcb[g] = t.fcb[g]
    PROVE  \A g \in FileNumbers \ {f} : Intact(s, v, g)
<1> SUFFICES ASSUME NEW g \in FileNumbers \ {f} PROVE Intact(s, v, g)
  OBVIOUS
<1>1. Intact(s, t, g) BY DEF Released, OthersKeep, Intact
<1>2. Intact(t, v, g) BY SameIsIntact
<1> QED BY <1>1, <1>2, IntactStays

\* rm: the file is gone, and then what the root directory held.
LEMMA OwnBlocksReleased ==
    ASSUME NEW s, Sound(s), NEW f \in FileNumbers, s.fcb[f].is_used
    PROVE  Released(s, Release(s, GetBlocks(s, f)), f, Claims(s), Claims(s))
<1>1. Image(s) /\ s.status = "ok" /\ Held(s, Claims(s), Claims(s)) BY DEF Sound
<1>2. Claims(s) \in Counts BY <1>1, ClaimsAre
<1>3. Claims(s)[f] = BlockCount(s, f) BY DEF Claims
<1>4. \A g \in FileNumbers : Claims(s)[g] <= Claims(s)[g] BY <1>2, Bounds DEF Counts
<1> QED BY <1>1, <1>2, <1>3, <1>4, FileReleased

Gone(s, v, f) ==
    /\ Sound(v) /\ ~v.fcb[f].is_used
    /\ \A g \in FileNumbers \ {f} : Intact(s, v, g)
    /\ Claims(s)[f] <= L0 => Preserves(s, Claims(s), v)
LEMMA UnmadeIsGone ==
    ASSUME NEW s, Sound(s), NEW f \in FileNumbers, NEW t, Released(s, t, f, Claims(s), Claims(s)),
           NEW v, Unmade(t, v, f)
    PROVE  Gone(s, v, f)
<1>1. /\ Image(v) /\ v.status = t.status /\ v.free = t.free /\ v.disk = t.disk
      /\ ~v.fcb[f].is_used
      /\ \A g \in FileNumbers : v.fcb[g].mixed = t.fcb[g].mixed
      /\ \A g \in FileNumbers \ {f} : v.fcb[g] = t.fcb[g]
  BY DEF Unmade
<1>2. Sound(v) /\ (Claims(s)[f] <= L0 => Preserves(s, Claims(s), v)) BY <1>1, ReleasedIsSound
<1>3. \A g \in FileNumbers \ {f} : Intact(s, v, g) BY <1>1, ReleasedKeepsOthers
<1> QED BY <1>1, <1>2, <1>3 DEF Gone
LEMMA FileIsRemoved ==
    ASSUME NEW s, Sound(s), NEW f \in FileNumbers, s.fcb[f].is_used
    PROVE  Gone(s, Removed(s, f), f)
<1>1. Released(s, Release(s, GetBlocks(s, f)), f, Claims(s), Claims(s)) BY OwnBlocksReleased
<1>2. Image(Release(s, GetBlocks(s, f))) BY <1>1 DEF Released
<1>3. Unmade(Release(s, GetBlocks(s, f)), Removed(s, f), f)
  BY <1>2, InodeIsGivenUp DEF Removed
<1> QED BY <1>1, <1>3, UnmadeIsGone

Emptied(s, v, f) ==
    /\ Sound(v) /\ v.fcb[f].is_used /\ v.fcb[f].length = 0
    /\ \A g \in FileNumbers \ {f} : Intact(s, v, g)
    /\ Claims(s)[f] <= L0 => Preserves(s, Claims(s), v)
LEMMA NoLengthIsEmptied ==
    ASSUME NEW s, Sound(s), NEW f \in FileNumbers, s.fcb[f].is_used,
           NEW t, Released(s, t, f, Claims(s), Claims(s)), NEW v, OnlyLength(t, v, f, 0)
    PROVE  Emptied(s, v, f)
<1>1. /\ Image(v) /\ v.status = t.status /\ v.free = t.free /\ v.disk = t.disk
      /\ v.fcb[f].length = 0 /\ v.fcb[f].is_used = t.fcb[f].is_used
      /\ \A g \in FileNumbers : v.fcb[g].mixed = t.fcb[g].mixed
      /\ \A g \in FileNumbers \ {f} : v.fcb[g] = t.fcb[g]
  BY DEF OnlyLength
<1>2. Sound(v) /\ (Claims(s)[f] <= L0 => Preserves(s, Claims(s), v)) BY <1>1, ReleasedIsSound
<1>3. t.fcb = s.fcb BY DEF Released
<1>4. \A g \in FileNumbers \ {f} : Intact(s, v, g) BY <1>1, ReleasedKeepsOthers
<1> QED BY <1>1, <1>2, <1>3, <1>4 DEF Emptied
LEMMA RootIsCleared ==
    ASSUME NEW s, Sound(s), s.fcb[Root].is_used
    PROVE  Emptied(s, Cleared(s), Root)
<1>1. Root \in FileNumbers /\ 0 \in 0..MAX_FILE_SIZE BY Bounds DEF FileNumbers
<1>2. Released(s, Release(s, GetBlocks(s, Root)), Root, Claims(s), Claims(s))
  BY <1>1, OwnBlocksReleased
<1>3. Image(Release(s, GetBlocks(s, Root))) BY <1>2 DEF Released
<1>4. OnlyLength(Release(s, GetBlocks(s, Root)), Cleared(s), Root, 0)
  BY <1>1, <1>3, LengthSet DEF Cleared
<1> QED BY <1>1, <1>2, <1>4, NoLengthIsEmptied

LEMMA SmallRest ==
    ASSUME NEW a \in Nat, a > 0, a < B
    PROVE  a % B # 0
<1>1. a \in 0..B - 1 /\ 0 \in Nat /\ B \in Nat BY Bounds
<1>2. a = B * 0 + a BY <1>1
<1>3. a % B = a BY <1>1, <1>2, Quotient
<1> QED BY <1>3

\* The root directory is made anew by two writes.
Rewritten(z, a, b) ==
    Wild(z) \/ /\ \A i \in 1..Entry : Cell(z, Root, i - 1) = a[i]
               /\ \A i \in 1..Len(b) : Cell(z, Root, Entry + i - 1) = b[i]
LEMMA RootIsRewritten ==
    ASSUME NEW x, Sound(x), x.fcb[Root].is_used, x.fcb[Root].length = 0,
           NEW a, Len(a) = Entry, NEW b, Len(b) = Entry * Cardinality(UsedFiles(x))
    PROVE  /\ Left(x, Extend(Extend(x, Root, a), Root, b), {})
           /\ Entry < B => Rewritten(Extend(Extend(x, Root, a), Root, b), a, b)
           /\ Spares(x, Extend(Extend(x, Root, a), Root, b))
<1> PICK c : c = Cardinality(UsedFiles(x)) OBVIOUS
<1>1. /\ c \in Nat /\ Entry * (1 + c) \in 0..MAX_FILE_SIZE
      /\ Entry \in Nat /\ Entry > 0 /\ MAX_FILE_SIZE \in Nat
  BY UsedFilesAre, Bounds DEF UsedFiles
<1>2. Entry * (1 + c) = Entry + Entry * c /\ Entry * c \in Nat BY <1>1
<1>3. Root \in FileNumbers /\ Files \subseteq FileNumbers \ {Root}
  BY DEF FileNumbers, Root, Files
<1> PICK y : y = Extend(x, Root, a) OBVIOUS
<1>4. Wild(y) \/ (Became(x, y, Root, Entry) /\ Appended(x, y, Root, a))
  <2>1. 0 + Entry \in 0..MAX_FILE_SIZE /\ 0 + Entry = Entry BY <1>1, <1>2
  <2>2. Starts(0) BY DEF Starts
  <2> QED BY <1>1, <1>3, <2>1, <2>2, ExtendAppends
<1>7. Spares(x, y)
  <2>1. 0 + Entry \in 0..MAX_FILE_SIZE BY <1>1, <1>2
  <2> QED BY <1>1, <1>3, <2>1, ExtendSpares
<1>5. CASE Wild(y) BY <1>5, WildStays DEF Left, Rewritten, Spares
<1>6. CASE Became(x, y, Root, Entry) /\ Appended(x, y, Root, a)
  <2>1. /\ Sound(y) /\ y.fcb[Root].length = Entry /\ y.fcb[Root].is_used
        /\ \A g \in FileNumbers \ {Root} : Intact(x, y, g)
    BY <1>6 DEF Became
  <2> PICK z : z = Extend(y, Root, b) OBVIOUS
  <2> PICK l : l = Entry * (1 + c) OBVIOUS
  <2>2. y.fcb[Root].length + Len(b) = l /\ l \in 0..MAX_FILE_SIZE /\ Len(b) \in Nat
    BY <1>1, <1>2, <2>1
  <2>3. Wild(z) \/ Became(y, z, Root, l) BY <1>3, <2>1, <2>2, ExtendSound
  <2>4. ASSUME Became(y, z, Root, l)
        PROVE  Sound(z) /\ RootFull(z) /\ \A g \in Files : Intact(x, z, g)
    <3>1. /\ Sound(z) /\ z.fcb[Root].length = l /\ z.fcb[Root].is_used
          /\ \A g \in FileNumbers \ {Root} : Intact(y, z, g)
      BY <2>4 DEF Became
    <3>2. \A g \in Files : Intact(x, z, g) BY <1>3, <2>1, <3>1, IntactStays
    <3>3. UsedFiles(z) = UsedFiles(x) BY <3>2 DEF UsedFiles, Intact
    <3> QED BY <3>1, <3>2, <3>3 DEF RootFull
  <2>5. Left(x, z, {}) BY <2>3, <2>4 DEF Left
  <2>6. ASSUME Entry < B PROVE Rewritten(z, a, b)
    <3>1. Starts(y.fcb[Root].length) BY <1>1, <2>1, <2>6, SmallRest DEF Starts
    <3>2. y.fcb[Root].length + Entry * c \in 0..MAX_FILE_SIZE BY <1>1, <1>2, <2>1
    <3>3. Wild(z) \/ Appended(y, z, Root, b)
      BY <1>2, <1>3, <2>1, <3>1, <3>2, ExtendAppends
    <3>4. ASSUME Appended(y, z, Root, b), NEW i \in 1..Entry PROVE Cell(z, Root, i - 1) = a[i]
      <4>1. i - 1 \in 0..Entry - 1 /\ 0 + i - 1 = i - 1 BY <1>1
      <4>2. Cell(y, Root, i - 1) = a[i] BY <1>6, <4>1 DEF Appended
      <4> QED BY <2>1, <3>4, <4>1, <4>2 DEF Appended
    <3>5. ASSUME Appended(y, z, Root, b), NEW i \in 1..Len(b)
          PROVE  Cell(z, Root, Entry + i - 1) = b[i]
      BY <2>1, <3>5 DEF Appended
    <3> QED BY <3>3, <3>4, <3>5 DEF Rewritten
  <2>7. Spares(x, z)
    <3>1. Spares(y, z) BY <1>3, <2>1, <2>2, ExtendSpares
    <3>2. Preserves(x, Claims(x), y)
      <4>1. y.status = "ok" BY <2>1 DEF Sound
      <4> QED BY <1>7, <4>1 DEF Spares, Wild
    <3> QED BY <3>1, <3>2, SparesOn
  <2> QED BY <2>5, <2>6, <2>7
<1> QED BY <1>4, <1>5, <1>6

LEMMA ReadLength ==
    ASSUME NEW s, NEW f, s.fcb[f].length \in Nat
    PROVE  Len(Read(s, f)) = s.fcb[f].length
<1> PICK len \in Nat : len = s.fcb[f].length OBVIOUS
<1>1. Read(s, f) = [i \in 1..len |->
                      s.disk[GetBlocks(s, f)[((i - 1) \div B) + 1]][((i - 1) % B) + 1]]
  BY DEF Read
<1>2. DOMAIN Read(s, f) = 1..len /\ len \in Nat BY <1>1
<1>3. \E S : Read(s, f) \in Seq(S)
  <2> DEFINE r == Read(s, f)
             S == {r[i] : i \in 1..len}
  <2>1. r = [i \in 1..len |-> r[i]] BY <1>1
  <2>2. \A i \in 1..len : r[i] \in S OBVIOUS
  <2> HIDE DEF r, S
  <2>3. r \in [1..len -> S] BY <2>1, <2>2
  <2>4. r \in Seq(S) BY <2>3, SeqDef
  <2> QED BY <2>4 DEF r
<1> QED BY <1>2, <1>3, LenProperties

LEMMA WholeParts ==
    ASSUME NEW d \in Nat, d > 0, NEW q \in Nat
    PROVE  (d * q) \div d = q
<1> PICK j : j = d * q OBVIOUS
<1>1. j \in Nat /\ j = d * q + 0 BY SMT
<1>2. j \div d = q BY <1>1, SMT
<1> QED BY <1>2

LEMMA OneMore ==
    ASSUME NEW d \in Nat, NEW q \in Nat
    PROVE  (1 + q) * d = d + d * q /\ d * q \in Nat
OBVIOUS

LEMMA DeleteLeaves ==
    ASSUME NEW s, Sound(s), RootFull(s), NEW f \in Files, s.fcb[f].is_used,
           NEW v, v = Removed(s, f), NEW n, n = Len(Read(v, Root)) \div Entry,
           NEW inodes, NEW kept
    PROVE  /\ Left(s, Extend(Extend(Cleared(v), Root, SubSeq(inodes, 1, Entry)),
                             Root, SubSeq(kept, Entry + 1, (n - 1) * Entry)), {f})
           /\ Absent(Extend(Extend(Cleared(v), Root, SubSeq(inodes, 1, Entry)),
                            Root, SubSeq(kept, Entry + 1, (n - 1) * Entry)), f)
           /\ Entry < B =>
                Rewritten(Extend(Extend(Cleared(v), Root, SubSeq(inodes, 1, Entry)),
                                 Root, SubSeq(kept, Entry + 1, (n - 1) * Entry)),
                          SubSeq(inodes, 1, Entry), SubSeq(kept, Entry + 1, (n - 1) * Entry))
           /\ BlockCount(s, f) <= L0 /\ BlockCount(s, Root) <= L0 =>
                Spares(s, Extend(Extend(Cleared(v), Root, SubSeq(inodes, 1, Entry)),
                                 Root, SubSeq(kept, Entry + 1, (n - 1) * Entry)))
<1>1. f \in FileNumbers /\ Root \in FileNumbers \ {f} /\ Files \subseteq FileNumbers
  BY DEF FileNumbers, Root, Files
<1>2. Gone(s, v, f) BY <1>1, FileIsRemoved
<1>3. /\ Sound(v) /\ ~v.fcb[f].is_used /\ v.fcb[Root] = s.fcb[Root]
      /\ \A g \in FileNumbers \ {f} : v.fcb[g] = s.fcb[g]
  BY <1>1, <1>2 DEF Gone, Intact
<1>4. v.fcb[Root].is_used /\ v.fcb[Root].length = Entry * (1 + Cardinality(UsedFiles(s)))
  BY <1>3 DEF RootFull
<1> PICK x : x = Cleared(v) OBVIOUS
<1>5. Emptied(v, x, Root) BY <1>3, <1>4, RootIsCleared
<1>6. /\ Sound(x) /\ x.fcb[Root].is_used /\ x.fcb[Root].length = 0
      /\ \A g \in FileNumbers \ {Root} : x.fcb[g] = v.fcb[g]
  BY <1>5 DEF Emptied, Intact
<1> PICK c : c = Cardinality(UsedFiles(x)) OBVIOUS
<1>7. /\ c \in Nat /\ Cardinality(UsedFiles(s)) = c + 1
      /\ Entry \in Nat /\ Entry > 0
  <2>1. UsedFiles(x) = UsedFiles(s) \ {f} /\ f \in UsedFiles(s)
    <3>1. Files \subseteq FileNumbers \ {Root} BY DEF FileNumbers, Root, Files
    <3> QED BY <1>1, <1>3, <1>6, <3>1 DEF UsedFiles
  <2>2. IsFiniteSet(UsedFiles(s)) /\ Cardinality(UsedFiles(s)) \in Nat
    BY UsedFilesAre DEF UsedFiles
  <2>3. Cardinality(UsedFiles(s) \ {f}) = Cardinality(UsedFiles(s)) - 1
    BY <2>1, <2>2, FS_RemoveElement
  <2>4. c \in Nat BY UsedFilesAre DEF UsedFiles
  <2>5. Entry \in Nat /\ Entry > 0 BY UsedFilesAre
  <2> QED BY <2>1, <2>2, <2>3, <2>4, <2>5
<1>8. n = c + 2
  <2>1. v.fcb[Root].length = Entry * (c + 2) BY <1>4, <1>7
  <2>2. Entry * (c + 2) \in Nat BY <1>7
  <2>3. Len(Read(v, Root)) = Entry * (c + 2) BY <2>1, <2>2, ReadLength
  <2>4. (Entry * (c + 2)) \div Entry = c + 2
    <3>1. c + 2 \in Nat BY <1>7
    <3> QED BY <1>7, <3>1, WholeParts
  <2> QED BY <2>3, <2>4
<1> PICK a, b : /\ a = SubSeq(inodes, 1, Entry)
                /\ b = SubSeq(kept, Entry + 1, (n - 1) * Entry)
  OBVIOUS
<1>9. Len(a) = Entry BY <1>7, PartLength
<1>10. Len(b) = Entry * c
  <2>1. (n - 1) * Entry = Entry + Entry * c /\ Entry * c \in Nat
    <3>1. n - 1 = 1 + c BY <1>7, <1>8
    <3>2. (1 + c) * Entry = Entry + Entry * c /\ Entry * c \in Nat BY <1>7, OneMore
    <3> QED BY <3>1, <3>2
  <2> PICK h \in Nat : h = (n - 1) * Entry BY <1>7, <2>1
  <2>2. Entry + 1 \in Nat /\ Entry + 1 <= h + 1 /\ h - (Entry + 1) + 1 = Entry * c
    BY <1>7, <2>1, SMTT(20)
  <2>3. Len(SubSeq(kept, Entry + 1, h)) = h - (Entry + 1) + 1 BY <2>2, PartLength
  <2> QED BY <2>2, <2>3
<1> PICK z : z = Extend(Extend(x, Root, a), Root, b) OBVIOUS
<1>11. Left(x, z, {}) /\ (Entry < B => Rewritten(z, a, b)) /\ Spares(x, z)
  BY <1>6, <1>9, <1>10, RootIsRewritten
<1>12. ASSUME NEW g \in Files \ {f} PROVE Intact(s, x, g)
  <2>1. g \in FileNumbers \ {f} /\ g \in FileNumbers \ {Root} BY DEF FileNumbers, Root, Files
  <2>2. Intact(s, v, g) /\ Intact(v, x, g) BY <1>2, <1>5, <2>1 DEF Gone, Emptied
  <2> QED BY <2>1, <2>2, IntactStays
<1>13. Left(s, z, {f})
  <2>1. ASSUME NEW g \in Files \ {f}, Intact(x, z, g) PROVE Intact(s, z, g)
    <3>1. g \in FileNumbers BY <1>1
    <3> QED BY <1>12, <2>1, <3>1, IntactStays
  <2> QED BY <1>11, <2>1 DEF Left
<1>14. Absent(z, f)
  <2>1. ~x.fcb[f].is_used
    <3>1. f \in FileNumbers \ {Root} BY DEF FileNumbers, Root, Files
    <3> QED BY <1>3, <1>6, <3>1
  <2>2. Wild(z) \/ z.fcb[f] = x.fcb[f] BY <1>11 DEF Left, Intact
  <2> QED BY <2>1, <2>2 DEF Absent
<1>15. ASSUME BlockCount(s, f) <= L0, BlockCount(s, Root) <= L0 PROVE Spares(s, z)
  <2>1. Claims(s)[f] = BlockCount(s, f) BY <1>1 DEF Claims
  <2>2. Claims(v)[Root] = BlockCount(s, Root) BY <1>1, <1>3, <1>4 DEF Claims, BlockCount
  <2>3. Preserves(s, Claims(s), v) BY <1>2, <1>15, <2>1 DEF Gone
  <2>4. Preserves(v, Claims(v), x) BY <1>5, <1>15, <2>2 DEF Emptied
  <2>5. Preserves(s, Claims(s), x) BY <2>3, <2>4, RetainsOn DEF Preserves
  <2> QED BY <1>11, <2>5, SparesOn
<1> QED BY <1>11, <1>13, <1>14, <1>15

-----------------------------------------------------------------------------
(* The invariant                                                           *)

IInv == clean \subseteq FileNumbers /\ Good(fs)

LEMMA RunningIsSound ==
    ASSUME Good(fs), Running
    PROVE  Sound(fs) /\ RootFull(fs)
BY DEF Good, Wild, Running

\* What each command does to the FCBs and the status.
LEMMA CreateDoes ==
    ASSUME IInv, Create
    PROVE  \E f \in Files : /\ ~fs.fcb[f].is_used /\ Left(fs, fs', {f}) /\ Fresh(fs', f)
                           /\ clean' \subseteq clean \cup {f}
                           /\ Enters(fs, fs', f)
<1>1. PICK f \in Files :
         /\ Running /\ CanTake(fs, 1) /\ ~Used(f)
         /\ fs' = Extend([Take(fs, 1) EXCEPT !.fcb[f].is_used = TRUE, !.fcb[f].length = 0],
                         Root, DirEntry(f))
         /\ clean' \subseteq clean \cup {f}
  BY DEF Create
<1>2. Sound(fs) /\ RootFull(fs) BY <1>1, RunningIsSound DEF IInv
<1>3. Took(fs, 1, Lowest(fs.free, 1), Take(fs, 1))
  BY <1>1, <1>2, TakeTakes DEF Sound
<1>4. f \in FileNumbers /\ Image(Take(fs, 1)) BY <1>3 DEF FileNumbers, Took
<1>5. Made(Take(fs, 1), [Take(fs, 1) EXCEPT !.fcb[f].is_used = TRUE, !.fcb[f].length = 0], f)
  BY <1>4, InodeIsMade
<1>6. ~fs.fcb[f].is_used BY <1>1 DEF Used
<1>7. Left(fs, fs', {f}) /\ Fresh(fs', f) /\ Enters(fs, fs', f)
  BY <1>1, <1>2, <1>3, <1>5, <1>6, EntryIsAdded
<1> QED BY <1>1, <1>6, <1>7

LEMMA CreateFailsDoes ==
    ASSUME IInv, CreateFails
    PROVE  Left(fs, fs', {})
BY RunningIsSound, TakeLeaves DEF IInv, CreateFails

LEMMA DeleteDoes ==
    ASSUME IInv, NEW f \in Files, Delete(f)
    PROVE  /\ Left(fs, fs', {f}) /\ Absent(fs', f)
           /\ BlockCount(fs, f) <= L0 /\ BlockCount(fs, Root) <= L0 => Spares(fs, fs')
<1>1. Running /\ Used(f) BY DEF Delete
<1>2. Sound(fs) /\ RootFull(fs) BY <1>1, RunningIsSound DEF IInv
<1>3. PICK kept :
         fs' = Extend(Extend(Cleared(Removed(fs, f)), Root,
                             SubSeq(Read(Removed(fs, f), Root), 1, Entry)),
                      Root, SubSeq(kept, Entry + 1,
                                   ((Len(Read(Removed(fs, f), Root)) \div Entry) - 1) * Entry))
  BY DEF Delete
<1> QED BY <1>1, <1>2, <1>3, DeleteLeaves DEF Used

LEMMA WritesDo ==
    ASSUME IInv, NEW f \in Files, NEW n \in Sizes
    PROVE  /\ WriteAppend(f, n) => Wrote(fs, fs', f, Length(f) + n) /\ Spares(fs, fs')
           /\ ~Shrinking /\ Truncate(f, n) => Wrote(fs, fs', f, n) /\ Spares(fs, fs')
           /\ Copy(f, n) => Wrote(fs, fs', f, Length(f) + n) /\ Spares(fs, fs')
<1>1. n \in Nat BY FileBlocksAssumption
<1>2. Running => Sound(fs) /\ RootFull(fs) BY RunningIsSound DEF IInv
<1>3. ASSUME WriteAppend(f, n) PROVE Wrote(fs, fs', f, Length(f) + n) /\ Spares(fs, fs')
  <2>1. /\ Running /\ Used(f) /\ Length(f) + n <= MaxLen
        /\ fs' = Extend(fs, f, Data(f, Length(f), n))
    BY <1>3 DEF WriteAppend
  <2> QED BY <1>1, <1>2, <2>1, AppendWrites DEF Used, Length
<1>4. ASSUME ~Shrinking, Truncate(f, n) PROVE Wrote(fs, fs', f, n) /\ Spares(fs, fs')
  <2>1. /\ Running /\ Used(f) /\ n <= MaxLen /\ CeilDiv(n, B) >= BlockCount(fs, f)
        /\ fs' = Put(Release(fs, GetBlocks(fs, f)), f, 0, Data(f, 0, n), n)
    BY <1>4 DEF Truncate
  <2> QED BY <1>1, <1>2, <2>1, TruncateWrites DEF Used
<1>5. ASSUME Copy(f, n) PROVE Wrote(fs, fs', f, Length(f) + n) /\ Spares(fs, fs')
  <2>1. /\ Running /\ Used(f) /\ Length(f) + n <= MaxLen /\ fs' = Copied(fs, f, n)
    BY <1>5 DEF Copy
  <2> QED BY <1>1, <1>2, <2>1, CopyWrites DEF Used, Length
<1> QED BY <1>3, <1>4, <1>5

LEMMA OverrideDoes ==
    ASSUME IInv, NEW f \in Files, NEW at \in Positions, NEW n \in Sizes, Override(f, at, n)
    PROVE  /\ Wrote(fs, fs', f, IF at + n > Length(f) THEN at + n ELSE Length(f))
           /\ CeilDiv(at, B) >= BlockCount(fs, f) => Spares(fs, fs')
<1>1. n \in Nat /\ at \in Nat BY FileBlocksAssumption
<1> DEFINE newLen == IF at + n > Length(f) THEN at + n ELSE Length(f)
<1>2. /\ Running /\ Used(f) /\ at <= Length(f) /\ at + n <= MaxLen
      /\ fs' = Put(fs, f, at, Data(f, at, n), newLen)
  BY DEF Override
<1>3. Sound(fs) /\ RootFull(fs) BY <1>2, RunningIsSound DEF IInv
<1>4. newLen = IF at + n > fs.fcb[f].length THEN at + n ELSE fs.fcb[f].length BY DEF Length
<1> HIDE DEF newLen
<1>5. /\ Wrote(fs, fs', f, newLen)
      /\ CeilDiv(at, B) >= BlockCount(fs, f) => Spares(fs, fs')
  BY <1>1, <1>2, <1>3, <1>4, OverrideWrites DEF Used, Length
<1> QED BY <1>5 DEF newLen

LEMMA StepKeeps ==
    ASSUME ~Shrinking, IInv, Next
    PROVE  IInv'
<1>1. clean \subseteq FileNumbers /\ Files \subseteq FileNumbers BY DEF IInv, FileNumbers
<1>2. ASSUME NEW S, Left(fs, fs', S) PROVE Good(fs') BY <1>2 DEF Left, Good
<1>3. ASSUME NEW f \in Files, NEW len, Wrote(fs, fs', f, len), Running, Used(f)
      PROVE  Good(fs')
  <2>1. RootFull(fs) BY <1>3, RunningIsSound DEF IInv
  <2> QED BY <1>2, <1>3, <2>1, WroteIsLeft DEF Used
<1>4. CASE Create
  <2>1. PICK f \in Files : Left(fs, fs', {f}) /\ clean' \subseteq clean \cup {f}
    BY <1>4, CreateDoes
  <2> QED BY <1>1, <1>2, <2>1 DEF IInv
<1>5. CASE CreateFails
  <2>1. Left(fs, fs', {}) /\ clean' = clean BY <1>5, CreateFailsDoes DEF CreateFails
  <2> QED BY <1>1, <1>2, <2>1 DEF IInv
<1>6. ASSUME NEW f \in Files, NEW n \in Sizes,
             WriteAppend(f, n) \/ Truncate(f, n) \/ Copy(f, n)
      PROVE  IInv'
  <2>1. Running /\ Used(f) /\ clean' \subseteq clean \cup {f}
    BY <1>6 DEF WriteAppend, Truncate, Copy
  <2>2. \E len : Wrote(fs, fs', f, len) BY <1>6, WritesDo
  <2> QED BY <1>1, <1>3, <2>1, <2>2 DEF IInv
<1>7. ASSUME NEW f \in Files, NEW at \in Positions, NEW n \in Sizes, Override(f, at, n)
      PROVE  IInv'
  <2>1. Running /\ Used(f) /\ clean' \subseteq clean BY <1>7 DEF Override
  <2>2. \E len : Wrote(fs, fs', f, len) BY <1>7, OverrideDoes
  <2> QED BY <1>1, <1>3, <2>1, <2>2 DEF IInv
<1>8. ASSUME NEW f \in Files, Delete(f) PROVE IInv'
  <2>1. clean' \subseteq clean BY <1>8 DEF Delete
  <2>2. Left(fs, fs', {f}) BY <1>8, DeleteDoes
  <2> QED BY <1>1, <1>2, <2>1, <2>2 DEF IInv
<1> QED BY <1>4, <1>5, <1>6, <1>7, <1>8 DEF Next

\* my_format leaves one block of the root directory in use.
LEMMA FormattedIsSound ==
    ASSUME NEW s, Image(s), s.status = "ok", s.free = 3..N, s.fcb[Root].mixed[1] = 2,
           s.fcb[Root].is_used, s.fcb[Root].length = Entry,
           \A f \in Files : ~s.fcb[f].is_used
    PROVE  Sound(s) /\ RootFull(s)
<1>1. /\ N \in Nat /\ N > 2 /\ Entry \in 1..B /\ B \in Nat /\ B > 0 /\ L0 \in Nat /\ L0 > 0
  BY FileBlocksAssumption
<1>2. Files = FileNumbers \ {Root} BY DEF FileNumbers, Files, Root
<1>3. CeilDiv(Entry, B) = 1
  <2>1. Entry \in Nat /\ 1 \in Nat /\ Entry <= B * 1 /\ ~(Entry <= B * 0) /\ 0 \in Nat BY <1>1
  <2>2. CeilDiv(Entry, B) \in Nat /\ CeilDiv(Entry, B) <= 1 /\ ~(CeilDiv(Entry, B) <= 0)
    BY <2>1, Ceiling, CeilingAtMost
  <2> QED BY <2>2
<1>4. Claims(s)[Root] = 1 /\ \A f \in Files : Claims(s)[f] = 0
  BY <1>2, <1>3 DEF Claims, BlockCount, FileNumbers
<1>5. IndexSlots(0) = {} /\ IndexSlots(1) = {}
  <2>1. /\ 0 \in 0..MaxBlocks /\ 1 \in 0..MaxBlocks
        /\ ~(0 > L0) /\ ~(0 > L0 + B) /\ ~(1 > L0) /\ ~(1 > L0 + B)
    <3>1. B * B \in Nat BY <1>1
    <3> QED BY <1>1, <3>1 DEF MaxBlocks
  <2>2. Leaves(0) = 0 /\ Leaves(1) = 0 BY <1>1, <2>1 DEF Leaves
  <2> QED BY <2>1, <2>2 DEF IndexSlots
<1>6. Slots(0, 0) = {} /\ Slots(1, 1) = {<<"data", 1>>}
  <2>1. 1..0 = {} /\ 1..1 = {1} OBVIOUS
  <2> QED BY <1>5, <2>1 DEF Slots
<1>7. BlockAt(s, Root, <<"data", 1>>) = 2
  <2>1. BlockAt(s, Root, <<"data", 1>>) = DataAt(s, Root, 1) BY DEF BlockAt
  <2>2. DataAt(s, Root, 1) = 2 BY <1>1 DEF DataAt
  <2> QED BY <2>1, <2>2
<1>8. \A f \in FileNumbers : \A p \in Slots(Claims(s)[f], Claims(s)[f]) :
         f = Root /\ p = <<"data", 1>>
  BY <1>2, <1>4, <1>6
<1>9. 2 \in Blocks \ s.free BY <1>1 DEF Blocks
<1>10. Held(s, Claims(s), Claims(s)) BY <1>7, <1>8, <1>9 DEF Held
<1>11. UsedFiles(s) = {} BY DEF UsedFiles
<1>12. Cardinality(UsedFiles(s)) = 0 BY <1>11, FS_EmptySet
<1>13. Entry * (1 + 0) = Entry BY <1>1
<1> QED BY <1>10, <1>12, <1>13 DEF Sound, RootFull

LEMMA InitIsGood ==
    ASSUME Init
    PROVE  IInv
<1>1. /\ N \in Nat /\ N > 2 /\ Entry \in 1..B /\ B \in Nat /\ L0 \in Nat /\ L0 > 0
      /\ MAX_FILE_SIZE \in Nat
  BY FileBlocksAssumption, Bounds
<1>2. /\ DOMAIN fs = {"free", "free_block_count", "status", "fcb", "disk"}
      /\ fs.free = 3..N /\ fs.free_block_count = N - 2 /\ fs.status = "ok"
      /\ DOMAIN fs.disk = Blocks
      /\ fs.fcb = [f \in {Root} \cup Files |->
                     [is_used |-> f = Root, length |-> IF f = Root THEN Entry ELSE 0,
                      mixed |-> [k \in 1..L0 + 2 |-> IF f = Root /\ k = 1 THEN 2 ELSE 0]]]
  BY DEF Init
<1>3. Cardinality(3..N) = N - 2
  <2>1. 3 \in Int /\ N \in Int /\ (IF 3 > N THEN 0 ELSE N - 3 + 1) = N - 2 BY <1>1
  <2> QED BY <2>1, FS_Interval
<1>4. Entry \in 0..MAX_FILE_SIZE
  <2>1. /\ {} \in SUBSET Files /\ Cardinality({}) = 0 BY FS_EmptySet
  <2>2. Entry * (1 + 0) \in 0..MAX_FILE_SIZE BY <2>1, UsedFilesAre
  <2>3. Entry * (1 + 0) = Entry BY <1>1
  <2> QED BY <2>2, <2>3
<1>5. ASSUME NEW f \in FileNumbers PROVE fs.fcb[f] \in Fcbs
  <2>1. fs.fcb[f] = [is_used |-> f = Root, length |-> IF f = Root THEN Entry ELSE 0,
                     mixed |-> [k \in 1..L0 + 2 |-> IF f = Root /\ k = 1 THEN 2 ELSE 0]]
    BY <1>2 DEF FileNumbers
  <2>2. (IF f = Root THEN Entry ELSE 0) \in 0..MAX_FILE_SIZE BY <1>1, <1>4
  <2>3. [k \in 1..L0 + 2 |-> IF f = Root /\ k = 1 THEN 2 ELSE 0] \in [1..L0 + 2 -> 0..N]
    BY <1>1
  <2>4. (f = Root) \in BOOLEAN OBVIOUS
  <2> QED BY <2>1, <2>2, <2>3, <2>4 DEF Fcbs
<1>6. fs.fcb \in [FileNumbers -> Fcbs]
  <2>1. fs.fcb = [f \in FileNumbers |-> fs.fcb[f]] BY <1>2 DEF FileNumbers
  <2> QED BY <1>5, <2>1
<1>7. Image(fs) BY <1>1, <1>2, <1>3, <1>6 DEF Image, Blocks
<1>8. /\ fs.fcb[Root].mixed[1] = 2 /\ fs.fcb[Root].is_used /\ fs.fcb[Root].length = Entry
      /\ \A f \in Files : ~fs.fcb[f].is_used
  <2>1. 1 \in 1..L0 + 2 BY <1>1
  <2>2. \A f \in Files : f # Root BY DEF Files, Root
  <2>3. ASSUME NEW f \in Files PROVE ~fs.fcb[f].is_used
    <3>1. f # Root BY <2>2
    <3>2. fs.fcb[f] = [is_used |-> f = Root, length |-> IF f = Root THEN Entry ELSE 0,
                       mixed |-> [k \in 1..L0 + 2 |-> IF f = Root /\ k = 1 THEN 2 ELSE 0]]
      BY <1>2
    <3>3. fs.fcb[f].is_used = (f = Root) BY <3>2
    <3> QED BY <3>1, <3>3
  <2>4. fs.fcb[Root] = [is_used |-> TRUE, length |-> Entry,
                        mixed |-> [k \in 1..L0 + 2 |-> IF k = 1 THEN 2 ELSE 0]]
    BY <1>2
  <2>5. fs.fcb[Root].mixed[1] = 2 BY <2>1, <2>4
  <2>6. fs.fcb[Root].is_used /\ fs.fcb[Root].length = Entry BY <2>4
  <2> QED BY <2>3, <2>5, <2>6
<1>9. Sound(fs) /\ RootFull(fs) BY <1>2, <1>7, <1>8, FormattedIsSound
<1>10. clean \subseteq FileNumbers BY DEF Init, FileNumbers
<1> QED BY <1>9, <1>10 DEF IInv, Good

\* Every use of a block belongs to a slot of an existing file.
LEMMA UsesAreHeld ==
    ASSUME NEW s, Sound(s)
    PROVE  /\ \A u, v \in Uses(s) : u[4] = v[4] => u = v
           /\ \A u \in Uses(s) : u[4] \in Blocks \ s.free
           /\ \A u \in Uses(s) : \E f \in FileNumbers :
                 u[4] \in Owned(s, f, Claims(s)[f], Claims(s)[f])
<1>1. ASSUME NEW u \in Uses(s)
      PROVE  \E f \in FileNumbers : \E p \in Slots(Claims(s)[f], Claims(s)[f]) :
                u = <<f, p[1], p[2], BlockAt(s, f, p)>>
  <2>1. PICK f \in FileNumbers :
           /\ s.fcb[f].is_used
           /\ \/ \E k \in 1..BlockCount(s, f) : u = <<f, "data", k, GetBlocks(s, f)[k]>>
              \/ BlockCount(s, f) > L0 /\ u = <<f, "index", 1, s.fcb[f].mixed[L0 + 1]>>
              \/ BlockCount(s, f) > L0 + B /\ u = <<f, "index", 2, s.fcb[f].mixed[L0 + 2]>>
              \/ \E i \in 1..Leaves(BlockCount(s, f)) :
                    u = <<f, "leaf", i, NumberAt(s, s.fcb[f].mixed[L0 + 2], i)>>
    BY DEF Uses, FileNumbers
  <2> DEFINE n == BlockCount(s, f)
  <2>2. Claims(s)[f] = n BY <2>1 DEF Claims
  <2>3. CASE \E k \in 1..n : u = <<f, "data", k, GetBlocks(s, f)[k]>>
    <3> PICK k \in 1..n : u = <<f, "data", k, GetBlocks(s, f)[k]>> BY <2>3
    <3>1. <<"data", k>> \in Slots(n, n) BY DEF Slots
    <3>2. GetBlocks(s, f)[k] = DataAt(s, f, k) BY GetBlocksAre
    <3>3. BlockAt(s, f, <<"data", k>>) = DataAt(s, f, k) BY BlocksAre
    <3> HIDE DEF n
    <3> QED BY <2>2, <3>1, <3>2, <3>3
  <2>4. CASE n > L0 /\ u = <<f, "index", 1, s.fcb[f].mixed[L0 + 1]>>
    <3>1. <<"index", 1>> \in Slots(n, n) BY <2>4 DEF Slots, IndexSlots
    <3>2. BlockAt(s, f, <<"index", 1>>) = s.fcb[f].mixed[L0 + 1] BY BlocksAre
    <3> HIDE DEF n
    <3> QED BY <2>2, <2>4, <3>1, <3>2
  <2>5. CASE n > L0 + B /\ u = <<f, "index", 2, s.fcb[f].mixed[L0 + 2]>>
    <3>1. <<"index", 2>> \in Slots(n, n) BY <2>5 DEF Slots, IndexSlots
    <3>2. BlockAt(s, f, <<"index", 2>>) = s.fcb[f].mixed[L0 + 2] BY BlocksAre
    <3> HIDE DEF n
    <3> QED BY <2>2, <2>5, <3>1, <3>2
  <2>6. CASE \E i \in 1..Leaves(n) : u = <<f, "leaf", i, NumberAt(s, s.fcb[f].mixed[L0 + 2], i)>>
    <3> PICK i \in 1..Leaves(n) : u = <<f, "leaf", i, NumberAt(s, s.fcb[f].mixed[L0 + 2], i)>>
      BY <2>6
    <3>1. <<"leaf", i>> \in Slots(n, n) BY DEF Slots, IndexSlots
    <3>2. BlockAt(s, f, <<"leaf", i>>) = NumberAt(s, s.fcb[f].mixed[L0 + 2], i)
      BY BlocksAre DEF LeafAt
    <3> HIDE DEF n
    <3> QED BY <2>2, <3>1, <3>2
  <2> QED BY <2>1, <2>3, <2>4, <2>5, <2>6
<1>2. Held(s, Claims(s), Claims(s)) BY DEF Sound
<1>3. ASSUME NEW u \in Uses(s) PROVE u[4] \in Blocks \ s.free
  <2>1. PICK f \in FileNumbers : \E p \in Slots(Claims(s)[f], Claims(s)[f]) :
           u = <<f, p[1], p[2], BlockAt(s, f, p)>>
    BY <1>1
  <2>2. PICK p \in Slots(Claims(s)[f], Claims(s)[f]) : u = <<f, p[1], p[2], BlockAt(s, f, p)>>
    BY <2>1
  <2>3. BlockAt(s, f, p) \in Blocks \ s.free BY <1>2 DEF Held
  <2> QED BY <2>2, <2>3
<1>4. ASSUME NEW u \in Uses(s), NEW v \in Uses(s), u[4] = v[4] PROVE u = v
  <2>1. PICK f \in FileNumbers : \E p \in Slots(Claims(s)[f], Claims(s)[f]) :
           u = <<f, p[1], p[2], BlockAt(s, f, p)>>
    BY <1>1
  <2>2. PICK g \in FileNumbers : \E q \in Slots(Claims(s)[g], Claims(s)[g]) :
           v = <<g, q[1], q[2], BlockAt(s, g, q)>>
    BY <1>1
  <2>3. PICK p \in Slots(Claims(s)[f], Claims(s)[f]) : u = <<f, p[1], p[2], BlockAt(s, f, p)>>
    BY <2>1
  <2>4. PICK q \in Slots(Claims(s)[g], Claims(s)[g]) : v = <<g, q[1], q[2], BlockAt(s, g, q)>>
    BY <2>2
  <2>5. BlockAt(s, f, p) = BlockAt(s, g, q) BY <1>4, <2>3, <2>4
  <2>6. f = g /\ p = q BY <1>2, <2>5 DEF Held
  <2> QED BY <2>3, <2>4, <2>6
<1>5. ASSUME NEW u \in Uses(s)
      PROVE  \E f \in FileNumbers : u[4] \in Owned(s, f, Claims(s)[f], Claims(s)[f])
  <2>1. PICK f \in FileNumbers : \E p \in Slots(Claims(s)[f], Claims(s)[f]) :
           u = <<f, p[1], p[2], BlockAt(s, f, p)>>
    BY <1>1
  <2>2. PICK p \in Slots(Claims(s)[f], Claims(s)[f]) : u = <<f, p[1], p[2], BlockAt(s, f, p)>>
    BY <2>1
  <2> QED BY <2>2 DEF Owned
<1> QED BY <1>3, <1>4, <1>5

\* And the block in a slot of an existing file is in use, so the blocks that are lost
\* are those that are neither free nor claimed.
LEMMA SlotsAreUses ==
    ASSUME NEW s, Image(s), NEW f \in FileNumbers, NEW p \in Slots(Claims(s)[f], Claims(s)[f])
    PROVE  \E u \in Uses(s) : u[4] = BlockAt(s, f, p)
<1> PICK n \in 0..MaxBlocks : n = Claims(s)[f] BY ClaimsAre DEF Counts
<1>1. s.fcb[f].is_used /\ n = BlockCount(s, f)
  <2>1. n # 0
    <3>1. ASSUME n = 0 PROVE FALSE
      <4>1. L0 \in Nat /\ B \in Nat BY FileBlocksAssumption
      <4>2. ~(n > L0) /\ ~(n > L0 + B) BY <3>1, <4>1
      <4>3. Leaves(n) = 0 BY <3>1, <4>1, LeavesAre
      <4>4. Slots(n, n) = {} BY <3>1, <4>2, <4>3 DEF Slots, IndexSlots
      <4> QED BY <4>4
    <3> QED BY <3>1
  <2> QED BY <2>1 DEF Claims
<1>2. f \in {Root} \cup Files BY DEF FileNumbers
<1>3. CASE \E i \in 1..n : p = <<"data", i>>
  <2> PICK i \in 1..n : p = <<"data", i>> BY <1>3
  <2>1. <<f, "data", i, GetBlocks(s, f)[i]>> \in Uses(s) BY <1>1, <1>2 DEF Uses
  <2>2. GetBlocks(s, f)[i] = DataAt(s, f, i) BY <1>1, GetBlocksAre
  <2>3. BlockAt(s, f, <<"data", i>>) = DataAt(s, f, i) BY BlocksAre
  <2> QED BY <2>1, <2>2, <2>3
<1>4. CASE n > L0 /\ p = <<"index", 1>>
  <2>1. <<f, "index", 1, s.fcb[f].mixed[L0 + 1]>> \in Uses(s) BY <1>1, <1>2, <1>4 DEF Uses
  <2>2. BlockAt(s, f, <<"index", 1>>) = s.fcb[f].mixed[L0 + 1] BY BlocksAre
  <2> QED BY <1>4, <2>1, <2>2
<1>5. CASE n > L0 + B /\ p = <<"index", 2>>
  <2>1. <<f, "index", 2, s.fcb[f].mixed[L0 + 2]>> \in Uses(s) BY <1>1, <1>2, <1>5 DEF Uses
  <2>2. BlockAt(s, f, <<"index", 2>>) = s.fcb[f].mixed[L0 + 2] BY BlocksAre
  <2> QED BY <1>5, <2>1, <2>2
<1>6. CASE \E i \in 1..Leaves(n) : p = <<"leaf", i>>
  <2> PICK i \in 1..Leaves(n) : p = <<"leaf", i>> BY <1>6
  <2>1. <<f, "leaf", i, NumberAt(s, s.fcb[f].mixed[L0 + 2], i)>> \in Uses(s)
    BY <1>1, <1>2 DEF Uses
  <2>2. BlockAt(s, f, <<"leaf", i>>) = NumberAt(s, s.fcb[f].mixed[L0 + 2], i)
    BY BlocksAre DEF LeafAt
  <2> QED BY <2>1, <2>2
<1>7. p \in Slots(n, n) OBVIOUS
<1> QED BY <1>3, <1>4, <1>5, <1>6, <1>7 DEF Slots, IndexSlots

LEMMA LostIs ==
    ASSUME NEW s, Sound(s), NEW x
    PROVE  x \in Lost(s) <=> x \in Blocks /\ ~HasBlock(s, Claims(s), Claims(s), x)
<1>1. Image(s) BY DEF Sound
<1>2. ASSUME NEW u \in Uses(s) PROVE HasBlock(s, Claims(s), Claims(s), u[4])
  BY UsesAreHeld DEF HasBlock
<1>3. ASSUME NEW f \in FileNumbers, x \in Owned(s, f, Claims(s)[f], Claims(s)[f])
      PROVE  \E u \in Uses(s) : x = u[4]
  <2>1. PICK p \in Slots(Claims(s)[f], Claims(s)[f]) : x = BlockAt(s, f, p) BY <1>3 DEF Owned
  <2> QED BY <1>1, <2>1, SlotsAreUses
<1>4. x \in Lost(s) <=> x \in Blocks /\ x \notin s.free /\ \A u \in Uses(s) : x # u[4]
  BY DEF Lost
<1>5. HasBlock(s, Claims(s), Claims(s), x) <=> x \in s.free \/ \E u \in Uses(s) : x = u[4]
  BY <1>2, <1>3 DEF HasBlock
<1> QED BY <1>4, <1>5

LEMMA NothingIsLost ==
    ASSUME NEW s, Sound(s), NEW t, Good(t), Spares(s, t), t.status = "ok"
    PROVE  Lost(t) \subseteq Lost(s)
<1>1. Sound(t) /\ Preserves(s, Claims(s), t) BY DEF Good, Wild, Spares
<1>2. ASSUME NEW x \in Lost(t) PROVE x \in Lost(s)
  <2>1. x \in Blocks /\ ~HasBlock(t, Claims(t), Claims(t), x) BY <1>1, LostIs
  <2>2. ~HasBlock(s, Claims(s), Claims(s), x) BY <1>1, <2>1 DEF Preserves, Retains
  <2> QED BY <2>1, <2>2, LostIs
<1> QED BY <1>2

\* The invariant, as long as `write -t' drops none of a file's blocks: it gives those
\* back twice.
THEOREM ImageIsGood == ~Shrinking => (Spec => []IInv)
<1> SUFFICES ASSUME ~Shrinking PROVE Spec => []IInv OBVIOUS
<1>1. Init => IInv BY InitIsGood
<1>2. IInv /\ [Next]_vars => IInv'
  <2> SUFFICES ASSUME IInv, [Next]_vars PROVE IInv' OBVIOUS
  <2>1. CASE Next BY <2>1, StepKeeps
  <2>2. CASE UNCHANGED vars BY <2>2 DEF vars, IInv
  <2> QED BY <2>1, <2>2
<1> QED BY <1>1, <1>2, PTL DEF Spec

\* No block serves two purposes, and the free blocks are as many as their counter
\* says, with any number of files of any size.
THEOREM OwnedOnceHolds == ~Shrinking => (Spec => []OwnedOnce)
<1>1. IInv => OwnedOnce
  <2> SUFFICES ASSUME IInv PROVE OwnedOnce OBVIOUS
  <2>1. Image(fs) /\ (Running => Sound(fs)) /\ clean \subseteq FileNumbers
    BY RunningIsSound DEF IInv, Good, Sound, Wild
  <2>2. TypeOK
    <3>1. ASSUME NEW f \in FileNumbers
          PROVE  /\ fs.fcb[f].length \in 0..MAX_FILE_SIZE
                 /\ \A k \in 1..L0 + 2 : fs.fcb[f].mixed[k] \in 0..N
      <4>1. fs.fcb[f] \in Fcbs BY <2>1 DEF Image
      <4> QED BY <4>1 DEF Fcbs
    <3> QED BY <2>1, <3>1 DEF TypeOK, Image, FileNumbers, Running
  <2> QED BY <2>1, <2>2, UsesAreHeld DEF OwnedOnce
<1> QED BY <1>1, ImageIsGood, PTL

\* No block is given back twice.
THEOREM FreedAtMostOnce == ~Shrinking => (Spec => []NeverFreedTwice)
<1>1. IInv => NeverFreedTwice BY DEF IInv, Good, Sound, Wild, NeverFreedTwice
<1> QED BY <1>1, ImageIsGood, PTL

\* A step that loses a block creates a file, or deletes one when it or the root
\* directory has index blocks, or overwrites what is not the tail of a file.
LEMMA StepLoses ==
    ASSUME ~Shrinking, IInv, IInv', Next, fs'.status = "ok"
    PROVE  \/ Lost(fs') \subseteq Lost(fs)
           \/ Create \/ CreateFails
           \/ \E f \in Files : /\ Delete(f)
                               /\ \E g \in {f, Root} : BlockCount(fs, g) > L0
           \/ \E f \in Files, at \in Positions, n \in Sizes :
                 Override(f, at, n) /\ CeilDiv(at, B) < BlockCount(fs, f)
<1>1. ASSUME Running, Spares(fs, fs') PROVE Lost(fs') \subseteq Lost(fs)
  <2>1. Sound(fs) /\ Good(fs') BY <1>1, RunningIsSound DEF IInv
  <2> QED BY <1>1, <2>1, NothingIsLost
<1>2. ASSUME NEW g \in FileNumbers, Running PROVE BlockCount(fs, g) \in Nat /\ L0 \in Nat
  <2>1. Image(fs) BY <1>2, RunningIsSound DEF IInv, Sound
  <2>2. fs.fcb[g].length \in Nat BY <2>1, ClaimsAre, Bounds
  <2> QED BY <2>2, Ceiling, FileBlocksAssumption DEF BlockCount
<1>3. Files \subseteq FileNumbers /\ Root \in FileNumbers BY DEF FileNumbers
<1>4. ASSUME NEW f \in Files, NEW n \in Sizes,
             WriteAppend(f, n) \/ Truncate(f, n) \/ Copy(f, n)
      PROVE  Lost(fs') \subseteq Lost(fs)
  <2>1. Running BY <1>4 DEF WriteAppend, Truncate, Copy
  <2>2. Spares(fs, fs') BY <1>4, WritesDo
  <2> QED BY <1>1, <2>1, <2>2
<1>5. ASSUME NEW f \in Files, NEW at \in Positions, NEW n \in Sizes, Override(f, at, n),
             ~(CeilDiv(at, B) < BlockCount(fs, f))
      PROVE  Lost(fs') \subseteq Lost(fs)
  <2>1. Running BY <1>5 DEF Override
  <2>2. CeilDiv(at, B) \in Nat /\ BlockCount(fs, f) \in Nat
    BY <1>2, <1>3, <2>1, Ceiling, FileBlocksAssumption
  <2>3. Spares(fs, fs') BY <1>5, <2>2, OverrideDoes
  <2> QED BY <1>1, <2>1, <2>3
<1>6. ASSUME NEW f \in Files, Delete(f), \A g \in {f, Root} : ~(BlockCount(fs, g) > L0)
      PROVE  Lost(fs') \subseteq Lost(fs)
  <2>1. Running BY <1>6 DEF Delete
  <2>2. BlockCount(fs, f) <= L0 /\ BlockCount(fs, Root) <= L0 BY <1>2, <1>3, <1>6, <2>1
  <2>3. Spares(fs, fs') BY <1>6, <2>2, DeleteDoes
  <2> QED BY <1>1, <2>1, <2>3
<1> QED BY <1>4, <1>5, <1>6 DEF Next

\* No other command makes a block unreachable: what was free or in a file before is
\* free or in a file afterwards, whatever the sizes of the files and of the disk.
THEOREM FewCommandsLose == ~Shrinking => (Spec => OnlyTheseLose)
<1> SUFFICES ASSUME ~Shrinking PROVE Spec => OnlyTheseLose OBVIOUS
<1>1. IInv /\ IInv' /\ [Next]_vars =>
         [\/ fs'.status # "ok"
          \/ Lost(fs') \subseteq Lost(fs)
          \/ Create \/ CreateFails
          \/ \E f \in Files : /\ Delete(f)
                              /\ \E g \in {f, Root} : BlockCount(fs, g) > L0
          \/ \E f \in Files, at \in Positions, n \in Sizes :
                Override(f, at, n) /\ CeilDiv(at, B) < BlockCount(fs, f)]_vars
  BY StepLoses
<1>2. Spec => []IInv BY ImageIsGood
<1> QED BY <1>1, <1>2, PTL DEF Spec, OnlyTheseLose

-----------------------------------------------------------------------------
(* The data of the files                                                   *)

\* A write that does not damage the file starts inside a block or at the start of the
\* file, and ends behind the data it does not keep.
LEMMA Undamaged ==
    ASSUME NEW f, NEW at \in Nat, NEW n \in Nat \ {0}, ~Damages(f, at, n)
    PROVE  /\ Starts(at)
           /\ ~(at + n < Length(f) /\ CeilDiv(at, B) < BlockCount(fs, f))
BY DEF Damages, Starts

LEMMA SizesAre ==
    ASSUME NEW n \in Sizes
    PROVE  n \in Nat \ {0} /\ B \in Nat \ {0}
BY FileBlocksAssumption

LEMMA WritesHold ==
    ASSUME IInv, NEW f \in Files, NEW n \in Sizes, f \in clean => HasData(fs, f), f \in clean'
    PROVE  /\ WriteAppend(f, n) => Reads(fs', f)
           /\ ~Shrinking /\ Truncate(f, n) => Reads(fs', f)
           /\ Copy(f, n) => Reads(fs', f)
<1>1. n \in Nat \ {0} /\ B \in Nat \ {0} BY SizesAre
<1>2. Running => Sound(fs) /\ RootFull(fs) BY RunningIsSound DEF IInv
<1>3. Running => Length(f) \in Nat
  <2>1. f \in FileNumbers BY DEF FileNumbers
  <2> QED BY <1>2, <2>1, ClaimsAre, Bounds DEF Sound, Length
<1>4. ASSUME WriteAppend(f, n) PROVE Reads(fs', f)
  <2>1. /\ Running /\ Used(f) /\ Length(f) + n <= MaxLen
        /\ fs' = Extend(fs, f, Data(f, Length(f), n))
        /\ clean' = IF Damages(f, Length(f), n) THEN clean \ {f} ELSE clean
    BY <1>4 DEF WriteAppend
  <2>2. ~Damages(f, Length(f), n) /\ f \in clean BY <2>1
  <2>3. Starts(Length(f)) BY <1>1, <1>3, <2>1, <2>2, Undamaged
  <2> QED BY <1>1, <1>2, <2>1, <2>2, <2>3, AppendWrites DEF Used, Length
<1>5. ASSUME ~Shrinking, Truncate(f, n) PROVE Reads(fs', f)
  <2>1. /\ Running /\ Used(f) /\ n <= MaxLen /\ CeilDiv(n, B) >= BlockCount(fs, f)
        /\ fs' = Put(Release(fs, GetBlocks(fs, f)), f, 0, Data(f, 0, n), n)
    BY <1>5 DEF Truncate
  <2> QED BY <1>1, <1>2, <2>1, TruncateWrites DEF Used
<1>6. ASSUME Copy(f, n) PROVE Reads(fs', f)
  <2>1. /\ Running /\ Used(f) /\ Length(f) + n <= MaxLen /\ fs' = Copied(fs, f, n)
        /\ clean' = IF \E k \in 0..CeilDiv(n, B) - 1 : Damages(f, Length(f) + k * B, B)
                    THEN clean \ {f} ELSE clean
    BY <1>6 DEF Copy
  <2>2. f \in clean /\ \A k \in 0..CeilDiv(n, B) - 1 : ~Damages(f, Length(f) + k * B, B)
    BY <2>1
  <2>3. ASSUME NEW k \in 0..CeilDiv(n, B) - 1 PROVE Starts(Length(f) + k * B)
    <3>1. k * B \in Nat
      <4>1. k \in Nat OBVIOUS
      <4> QED BY <1>1, <4>1
    <3>2. Length(f) + k * B \in Nat BY <1>3, <2>1, <3>1
    <3> QED BY <1>1, <2>2, <3>2, Undamaged
  <2> QED BY <1>1, <1>2, <2>1, <2>2, <2>3, CopyWrites DEF Used, Length
<1> QED BY <1>4, <1>5, <1>6

LEMMA OverrideHolds ==
    ASSUME IInv, NEW f \in Files, NEW at \in Positions, NEW n \in Sizes, Override(f, at, n),
           f \in clean => HasData(fs, f), f \in clean'
    PROVE  Reads(fs', f)
<1>1. n \in Nat \ {0} /\ n \in Nat /\ at \in Nat BY FileBlocksAssumption
<1> DEFINE newLen == IF at + n > Length(f) THEN at + n ELSE Length(f)
<1>2. /\ Running /\ Used(f) /\ at <= Length(f) /\ at + n <= MaxLen
      /\ fs' = Put(fs, f, at, Data(f, at, n), newLen)
      /\ clean' = IF Damages(f, at, n) THEN clean \ {f} ELSE clean
  BY DEF Override
<1>3. Sound(fs) /\ RootFull(fs) BY <1>2, RunningIsSound DEF IInv
<1>4. fs.fcb[f].length \in Nat /\ Length(f) = fs.fcb[f].length
  <2>1. f \in FileNumbers BY DEF FileNumbers
  <2> QED BY <1>3, <2>1, ClaimsAre, Bounds DEF Sound, Length
<1>5. ~Damages(f, at, n) /\ f \in clean BY <1>2
<1>6. Starts(at) /\ ~(at + n < Length(f) /\ CeilDiv(at, B) < BlockCount(fs, f))
  BY <1>1, <1>5, Undamaged
<1>7. newLen = IF at + n > fs.fcb[f].length THEN at + n ELSE fs.fcb[f].length BY DEF Length
<1>8. newLen \in Nat BY <1>1, <1>4
<1>9. Remains(fs, f, at, n, newLen)
  <2> SUFFICES ASSUME NEW j \in 0..newLen - 1, j < at \/ j >= at + n
               PROVE  /\ j < fs.fcb[f].length /\ (j \div B) + 1 <= CeilDiv(at, B)
                      /\ Cell(fs, f, j) = <<"data", f, j>>
    BY DEF Remains
  <2>0. j \in Nat /\ j < newLen BY <1>8
  <2>1. j \in 0..fs.fcb[f].length - 1 /\ j < fs.fcb[f].length BY <1>1, <1>2, <1>4, <2>0
  <2>2. Cell(fs, f, j) = <<"data", f, j>> BY <1>5, <2>1 DEF HasData
  <2>3. (j \div B) + 1 <= CeilDiv(at, B)
    <3>1. CASE j < at
      <4>1. j \in 0..at - 1 BY <1>1, <2>0, <3>1
      <4>2. (j \div B) + 1 \in 1..CeilDiv(at, B) BY <1>1, <4>1, PlaceOf
      <4> HIDE DEF newLen
      <4>3. PICK c \in Nat : c = CeilDiv(at, B) BY <1>1, Ceiling
      <4> QED BY <4>2, <4>3
    <3>2. CASE j >= at + n
      <4>1. at + n < Length(f) BY <1>1, <1>4, <2>1, <3>2
      <4>2. ~(CeilDiv(at, B) < CeilDiv(fs.fcb[f].length, B)) BY <1>6, <4>1 DEF BlockCount
      <4>3. (j \div B) + 1 \in 1..CeilDiv(fs.fcb[f].length, B) BY <1>4, <2>1, PlaceOf
      <4> HIDE DEF newLen
      <4>4. PICK c \in Nat : c = CeilDiv(at, B) BY <1>1, Ceiling
      <4>5. PICK d \in Nat : d = CeilDiv(fs.fcb[f].length, B) BY <1>4, Ceiling
      <4> QED BY <4>2, <4>3, <4>4, <4>5
    <3> QED BY <3>1, <3>2
  <2> HIDE DEF newLen
  <2> QED BY <2>1, <2>2, <2>3
<1> HIDE DEF newLen
<1>10. /\ Wrote(fs, fs', f, newLen)
       /\ Wild(fs') \/ Laid(fs, fs', f, at, Data(f, at, n), CeilDiv(newLen, B))
  BY <1>1, <1>2, <1>3, <1>4, <1>7, OverrideWrites DEF Used
<1>11. CASE Wild(fs') BY <1>11 DEF Reads
<1>12. CASE ~Wild(fs')
  <2>1. fs'.fcb[f].length = newLen BY <1>10, <1>12 DEF Wrote, Became
  <2>2. HasData(fs', f) BY <1>1, <1>4, <1>6, <1>8, <1>9, <1>10, <1>12, <2>1, PutHasData
  <2> QED BY <2>2 DEF Reads
<1> QED BY <1>11, <1>12

\* What was written to the files nobody damaged can be read.
FilesHold(s, c) == \A f \in c \ {Root} : s.fcb[f].is_used /\ HasData(s, f)
DataInv == IInv /\ (Running => FilesHold(fs, clean))

LEMMA LeftHolds ==
    ASSUME NEW s, Sound(s), NEW c, FilesHold(s, c), NEW t, NEW S, Left(s, t, S), t.status = "ok",
           NEW d \in SUBSET FileNumbers, \A g \in d \ {Root} : g \in c \/ g \in S,
           \A g \in S : g \in d \ {Root} => t.fcb[g].is_used /\ HasData(t, g)
    PROVE  FilesHold(t, d)
<1> SUFFICES ASSUME NEW g \in d \ {Root} PROVE t.fcb[g].is_used /\ HasData(t, g)
  BY DEF FilesHold
<1>1. g \in Files /\ g \in FileNumbers BY DEF FileNumbers
<1>2. ASSUME g \notin S PROVE t.fcb[g].is_used /\ HasData(t, g)
  <2>1. s.fcb[g].is_used /\ HasData(s, g) BY <1>2 DEF FilesHold
  <2>2. Intact(s, t, g) BY <1>1, <1>2 DEF Left, Wild
  <2>3. s.fcb[g].length \in Nat BY <1>1, ClaimsAre, Bounds DEF Sound
  <2>4. HasData(t, g) BY <1>1, <2>1, <2>2, <2>3, IntactData
  <2> QED BY <2>1, <2>2, <2>4 DEF Intact
<1> QED BY <1>2

LEMMA StepHolds ==
    ASSUME ~Shrinking, DataInv, Next
    PROVE  DataInv'
<1>1. IInv /\ IInv' BY StepKeeps DEF DataInv
<1> SUFFICES ASSUME Running' PROVE FilesHold(fs', clean')
  BY <1>1, SMTT(20) DEF DataInv
<1>2. Running
  BY DEF Next, Create, CreateFails, WriteAppend, Truncate, Copy, Override, Delete
<1>3. Sound(fs) /\ RootFull(fs) /\ FilesHold(fs, clean) BY <1>1, <1>2, RunningIsSound DEF IInv, DataInv
<1>4. clean' \in SUBSET FileNumbers /\ fs'.status = "ok" /\ ~Wild(fs') BY <1>1 DEF IInv, Running, Wild
<1>5. \A f \in Files : f # Root BY DEF Files, Root
<1>6. ASSUME NEW f \in Files, f \in clean PROVE HasData(fs, f)
  BY <1>3, <1>5, <1>6 DEF FilesHold
<1>7. ASSUME NEW f \in Files, Used(f), NEW len, Wrote(fs, fs', f, len),
             clean' \subseteq clean \cup {f}, f \in clean' => Reads(fs', f)
      PROVE  FilesHold(fs', clean')
  <2>1. Left(fs, fs', {f}) BY <1>3, <1>7, WroteIsLeft DEF Used
  <2>2. fs'.fcb[f].is_used BY <1>4, <1>7 DEF Wrote, Became
  <2>3. f \in clean' => HasData(fs', f) BY <1>4, <1>7 DEF Reads
  <2> QED BY <1>3, <1>4, <1>7, <2>1, <2>2, <2>3, LeftHolds
<1>8. CASE Create
  <2>1. PICK f \in Files : /\ Left(fs, fs', {f}) /\ Fresh(fs', f)
                           /\ clean' \subseteq clean \cup {f}
    BY <1>1, <1>8, CreateDoes
  <2>2. fs'.fcb[f].is_used /\ fs'.fcb[f].length = 0 BY <1>4, <2>1 DEF Fresh
  <2>3. HasData(fs', f) BY <2>2 DEF HasData
  <2> QED BY <1>3, <1>4, <2>1, <2>2, <2>3, LeftHolds
<1>9. CASE CreateFails
  <2>1. Left(fs, fs', {}) /\ clean' = clean BY <1>1, <1>9, CreateFailsDoes DEF CreateFails
  <2> QED BY <1>3, <1>4, <2>1, LeftHolds
<1>10. ASSUME NEW f \in Files, NEW n \in Sizes,
              WriteAppend(f, n) \/ Truncate(f, n) \/ Copy(f, n)
       PROVE  FilesHold(fs', clean')
  <2>1. Used(f) /\ clean' \subseteq clean \cup {f}
    BY <1>10 DEF WriteAppend, Truncate, Copy
  <2>2. PICK len : Wrote(fs, fs', f, len) BY <1>1, <1>10, WritesDo
  <2>3. f \in clean' => Reads(fs', f) BY <1>1, <1>6, <1>10, WritesHold
  <2> QED BY <1>7, <2>1, <2>2, <2>3
<1>11. ASSUME NEW f \in Files, NEW at \in Positions, NEW n \in Sizes, Override(f, at, n)
       PROVE  FilesHold(fs', clean')
  <2>1. Used(f) /\ clean' \subseteq clean \cup {f} BY <1>11 DEF Override
  <2>2. PICK len : Wrote(fs, fs', f, len) BY <1>1, <1>11, OverrideDoes
  <2>3. f \in clean' => Reads(fs', f) BY <1>1, <1>6, <1>11, OverrideHolds
  <2> QED BY <1>7, <2>1, <2>2, <2>3
<1>12. ASSUME NEW f \in Files, Delete(f) PROVE FilesHold(fs', clean')
  <2>1. clean' = clean \ {f} BY <1>12 DEF Delete
  <2>2. Left(fs, fs', {f}) BY <1>1, <1>12, DeleteDoes
  <2> QED BY <1>3, <1>4, <2>1, <2>2, LeftHolds
<1> QED BY <1>8, <1>9, <1>10, <1>11, <1>12 DEF Next

\* The invariant with the contents of the files.
THEOREM DataIsHeld == ~Shrinking => (Spec => []DataInv)
<1> SUFFICES ASSUME ~Shrinking PROVE Spec => []DataInv OBVIOUS
<1>1. Init => DataInv
  <2> SUFFICES ASSUME Init PROVE DataInv OBVIOUS
  <2>1. clean \ {Root} = {} BY DEF Init
  <2> QED BY <2>1, InitIsGood DEF DataInv, FilesHold
<1>2. DataInv /\ [Next]_vars => DataInv'
  <2> SUFFICES ASSUME DataInv, [Next]_vars PROVE DataInv' OBVIOUS
  <2>1. CASE Next BY <2>1, StepHolds
  <2>2. CASE UNCHANGED vars
    <3>1. fs' = fs /\ clean' = clean BY <2>2 DEF vars
    <3>2. IInv' /\ (Running' => FilesHold(fs', clean'))
      BY <3>1 DEF DataInv, IInv, Running
    <3> QED BY <3>2 DEF DataInv
  <2> QED BY <2>1, <2>2
<1> QED BY <1>1, <1>2, PTL DEF Spec

LEMMA ReadIs ==
    ASSUME NEW s, NEW f, s.fcb[f].length \in Nat, HasData(s, f)
    PROVE  Read(s, f) = Data(f, 0, s.fcb[f].length)
<1>l. PICK len \in Nat : len = s.fcb[f].length OBVIOUS
<1>1. Read(s, f) = [i \in 1..len |->
                      s.disk[GetBlocks(s, f)[((i - 1) \div B) + 1]][((i - 1) % B) + 1]]
  BY <1>l DEF Read
<1>2. ASSUME NEW i \in 1..len
      PROVE  s.disk[GetBlocks(s, f)[((i - 1) \div B) + 1]][((i - 1) % B) + 1]
                = <<"data", f, 0 + i - 1>>
  <2>1. i - 1 \in 0..len - 1 /\ 0 + i - 1 = i - 1 BY <1>l
  <2>2. Cell(s, f, i - 1) = <<"data", f, i - 1>> BY <1>l, <2>1 DEF HasData
  <2> QED BY <2>1, <2>2 DEF Cell
<1> QED BY <1>1, <1>2, <1>l DEF Data

\* A file reads back as what was written to it, unless a write damaged it: through every
\* level of the index, whatever was done to the other files.
THEOREM FilesReadBack == ~Shrinking => (Spec => []CleanFilesReadBack)
<1>1. DataInv => CleanFilesReadBack
  <2> SUFFICES ASSUME DataInv, Running, NEW f \in clean \ {Root}
               PROVE  Read(fs, f) = Data(f, 0, Length(f))
    BY DEF CleanFilesReadBack
  <2>1. HasData(fs, f) BY DEF DataInv, FilesHold
  <2>2. f \in FileNumbers /\ Sound(fs) BY RunningIsSound DEF DataInv, IInv
  <2>3. fs.fcb[f].length \in Nat BY <2>2, ClaimsAre, Bounds DEF Sound
  <2> QED BY <2>1, <2>3, ReadIs DEF Length
<1> QED BY <1>1, DataIsHeld, PTL

LEMMA ReadCells ==
    ASSUME NEW s, NEW f
    PROVE  Read(s, f) = [i \in 1..s.fcb[f].length |-> Cell(s, f, i - 1)]
BY DEF Read, Cell

\* A file that got n units more behind what it held reads as before, and then the n.
ReadsOn(s, t, f, toks) == Read(t, f) = Read(s, f) \o toks
LEMMA ReadAfterAppend ==
    ASSUME NEW s, NEW t, NEW f, NEW at \in Nat, at = s.fcb[f].length, NEW n \in Nat,
           Appended(s, t, f, Data(f, at, n))
    PROVE  ReadsOn(s, t, f, Data(f, at, n))
<1>t. PICK toks : toks = Data(f, at, n) OBVIOUS
<1>0. Len(toks) = n /\ toks = [i \in 1..n |-> toks[i]]
  <2>1. Len(toks) = n BY <1>t, DataIs
  <2>2. toks = [i \in 1..n |-> toks[i]] BY <1>t DEF Data
  <2> QED BY <2>1, <2>2
<1> DEFINE S == {Cell(s, f, i - 1) : i \in 1..at} \cup {toks[i] : i \in 1..n}
<1>1. /\ \A i \in 1..at : Cell(s, f, i - 1) \in S
      /\ \A i \in 1..n : toks[i] \in S
  OBVIOUS
<1> HIDE DEF S
<1>x. PICK x : x = Read(s, f) OBVIOUS
<1>2. x = [i \in 1..at |-> Cell(s, f, i - 1)] BY <1>x, ReadCells
<1>3. x \in Seq(S) /\ Len(x) = at
  <2>1. x \in [1..at -> S] BY <1>1, <1>2
  <2>2. x \in Seq(S) BY <2>1, SeqDef
  <2>3. DOMAIN x = 1..at BY <1>2
  <2> QED BY <2>2, <2>3, LenProperties
<1>4. toks \in Seq(S)
  <2>1. toks \in [1..n -> S] BY <1>0, <1>1
  <2> QED BY <2>1, SeqDef
<1>y. PICK y : y = x \o toks OBVIOUS
<1>5. /\ y \in Seq(S) /\ Len(y) = at + n
      /\ \A i \in 1..at + n : y[i] = IF i <= at THEN x[i] ELSE toks[i - at]
  <2>1. /\ y \in Seq(S) /\ Len(y) = Len(x) + Len(toks)
        /\ \A i \in 1..Len(x) + Len(toks) :
              y[i] = IF i <= Len(x) THEN x[i] ELSE toks[i - Len(x)]
    BY <1>3, <1>4, <1>y, ConcatProperties
  <2> QED BY <1>0, <1>3, <2>1
<1>6. y = [i \in 1..at + n |-> y[i]] BY <1>5, LenProperties
<1>7. /\ t.fcb[f].length = at + n
      /\ \A j \in 0..at - 1 : Cell(t, f, j) = Cell(s, f, j)
      /\ \A i \in 1..n : Cell(t, f, at + i - 1) = toks[i]
  BY <1>0, <1>t DEF Appended
<1>8. ASSUME NEW i \in 1..at + n PROVE Cell(t, f, i - 1) = y[i]
  <2>1. CASE i <= at
    <3>1. i \in 1..at /\ i - 1 \in 0..at - 1 BY <2>1
    <3>2. y[i] = x[i] BY <1>5, <2>1
    <3>3. x[i] = Cell(s, f, i - 1) BY <1>2, <3>1
    <3> QED BY <1>7, <3>1, <3>2, <3>3
  <2>2. CASE ~(i <= at)
    <3>1. i - at \in 1..n /\ at + (i - at) - 1 = i - 1 BY <2>2
    <3> PICK r \in 1..n : r = i - at /\ at + r - 1 = i - 1 BY <3>1
    <3>2. y[i] = toks[r] BY <1>5, <2>2
    <3>3. Cell(t, f, at + r - 1) = toks[r] BY <1>7
    <3> QED BY <3>2, <3>3
  <2> QED BY <2>1, <2>2
<1>9. Read(t, f) = [i \in 1..at + n |-> Cell(t, f, i - 1)] BY <1>7, ReadCells
<1>10. Read(t, f) = y BY <1>6, <1>8, <1>9
<1> QED BY <1>10, <1>t, <1>x, <1>y DEF ReadsOn

\* `write -a' appends unless the last block of the file is full: what the file held stays,
\* whether it was ever damaged or not, and what was written follows it.  This is what
\* remains of AppendReadsBack, which the program does not keep to when the block is full.
AppendsUnlessFull ==
    [][\A f \in Files, n \in Sizes :
          WriteAppend(f, n) /\ ~Damages(f, Length(f), n) /\ fs'.status = "ok" =>
             Read(fs', f) = Read(fs, f) \o Data(f, Length(f), n)]_vars

\* An append into a block that is not full, or to an empty file, reads back: `write -a' goes
\* wrong in the one case of the finding.
THEOREM OtherAppendsReadBack == ~Shrinking => (Spec => AppendsUnlessFull)
<1> SUFFICES ASSUME ~Shrinking PROVE Spec => AppendsUnlessFull OBVIOUS
<1>1. ASSUME IInv, NEW f \in Files, NEW n \in Sizes, WriteAppend(f, n),
             ~Damages(f, Length(f), n), fs'.status = "ok"
      PROVE  Read(fs', f) = Read(fs, f) \o Data(f, Length(f), n)
  <2>1. /\ Running /\ fs.fcb[f].is_used /\ Length(f) + n <= MaxLen
        /\ fs' = Extend(fs, f, Data(f, Length(f), n))
    BY <1>1 DEF WriteAppend, Used
  <2>2. Sound(fs) /\ f \in FileNumbers BY <1>1, <2>1, RunningIsSound DEF IInv, FileNumbers
  <2> PICK at : at = Length(f) OBVIOUS
  <2>3. at = fs.fcb[f].length /\ at \in Nat /\ n \in Nat /\ n > 0
    BY <2>2, ClaimsAre, Bounds, FileBlocksAssumption DEF Sound, Length
  <2>4. Starts(at) BY <1>1, <2>3 DEF Damages, Starts
  <2>5. at + n \in 0..MAX_FILE_SIZE BY <2>1, <2>3, FileBlocksAssumption, Bounds
  <2> PICK toks : toks = Data(f, at, n) OBVIOUS
  <2>6. Len(toks) = n BY <2>3, DataIs
  <2>7. Wild(fs') \/ Appended(fs, fs', f, toks)
    BY <2>1, <2>2, <2>3, <2>4, <2>5, <2>6, ExtendAppends
  <2>8. Appended(fs, fs', f, Data(f, at, n)) BY <1>1, <2>7 DEF Wild
  <2>9. ReadsOn(fs, fs', f, Data(f, at, n)) BY <2>3, <2>8, ReadAfterAppend
  <2> QED BY <2>9 DEF ReadsOn
<1>2. IInv /\ [Next]_vars =>
         [\A f \in Files, n \in Sizes :
             WriteAppend(f, n) /\ ~Damages(f, Length(f), n) /\ fs'.status = "ok" =>
                Read(fs', f) = Read(fs, f) \o Data(f, Length(f), n)]_vars
  BY <1>1
<1>3. Spec => []IInv BY ImageIsGood
<1> QED BY <1>2, <1>3, PTL DEF Spec, AppendsUnlessFull

-----------------------------------------------------------------------------
(* The entries of the root directory                                       *)

\* Entry number q of a sequence of units names E[q], for the first n entries.
Lines(g, n, E) == \A q \in 0..n - 1 : \A r \in 1..Entry : g[Entry * q + r] = <<"dir", E[q], r>>

LEMMA LineAt ==
    ASSUME NEW q \in Nat, NEW n \in Nat, q < n, NEW r \in 1..Entry
    PROVE  /\ Entry * q \in Nat /\ Entry * n \in Nat /\ Entry \in Nat /\ Entry > 0
           /\ Entry * q + r \in 1..Entry * n /\ Entry * q + r - 1 \in 0..Entry * n - 1
<1>1. Entry \in Nat /\ Entry > 0 BY FileBlocksAssumption
<1>2. Entry * (q + 1) <= Entry * n BY <1>1
<1>3. Entry * (q + 1) = Entry * q + Entry /\ Entry * q \in Nat /\ Entry * n \in Nat BY <1>1
<1> QED BY <1>1, <1>2, <1>3

LEMMA StretchIs ==
    ASSUME NEW g, NEW a \in Nat, NEW b \in Nat, a <= b + 1,
           NEW S, \A i \in a..b : g[i] \in S
    PROVE  /\ SubSeq(g, a, b) \in Seq(S) /\ Len(SubSeq(g, a, b)) = b - a + 1
           /\ \A i \in 1..b - a + 1 : SubSeq(g, a, b)[i] = g[a + i - 1]
<1>1. a \in Int /\ b \in Int OBVIOUS
<1>2. /\ SubSeq(g, a, b) \in Seq(S)
      /\ Len(SubSeq(g, a, b)) = IF a <= b THEN b - a + 1 ELSE 0
      /\ \A i \in 1..b - a + 1 : SubSeq(g, a, b)[i] = g[a + i - 1]
  BY <1>1, SubSeqProperties
<1>3. Len(SubSeq(g, a, b)) = b - a + 1 BY <1>2
<1> QED BY <1>2, <1>3

\* A sequence without the part between a and b.
IsRest(kept, g, a, b, c) == kept = SubSeq(g, 1, a) \o SubSeq(g, b + 1, c)
OneDropped(kept, g, a, b, c) ==
    /\ \A j \in 1..a : kept[j] = g[j]
    /\ \A j \in a + 1..a + (c - b) : kept[j] = g[b + (j - a)]
LEMMA PartDropped ==
    ASSUME NEW g, NEW a \in Nat, NEW b \in Nat, NEW c \in Nat, b <= c,
           NEW kept, IsRest(kept, g, a, b, c)
    PROVE  OneDropped(kept, g, a, b, c)
<1> PICK S : S = {g[i] : i \in 1..a} \cup {g[i] : i \in b + 1..c} OBVIOUS
<1> PICK x : x = SubSeq(g, 1, a) OBVIOUS
<1> PICK m \in Nat : m = b + 1 OBVIOUS
<1> PICK y : y = SubSeq(g, m, c) OBVIOUS
<1>1. x \in Seq(S) /\ Len(x) = a /\ \A i \in 1..a : x[i] = g[i]
  <2>1. \A i \in 1..a : g[i] \in S OBVIOUS
  <2>2. 1 \in Nat /\ 1 <= a + 1 /\ a - 1 + 1 = a OBVIOUS
  <2>3. x \in Seq(S) /\ Len(x) = a /\ \A i \in 1..a : x[i] = g[1 + i - 1]
    BY <2>1, <2>2, StretchIs
  <2>4. \A i \in 1..a : 1 + i - 1 = i OBVIOUS
  <2> QED BY <2>3, <2>4
<1>2. y \in Seq(S) /\ Len(y) = c - b /\ \A i \in 1..c - b : y[i] = g[b + i]
  <2>1. \A i \in m..c : g[i] \in S OBVIOUS
  <2>2. m <= c + 1 /\ c - m + 1 = c - b OBVIOUS
  <2>3. y \in Seq(S) /\ Len(y) = c - b /\ \A i \in 1..c - b : y[i] = g[m + i - 1]
    BY <2>1, <2>2, StretchIs
  <2>4. \A i \in 1..c - b : m + i - 1 = b + i OBVIOUS
  <2> QED BY <2>3, <2>4
<1>3. kept = x \o y BY DEF IsRest
<1>4. /\ Len(kept) = Len(x) + Len(y)
      /\ \A j \in 1..Len(x) + Len(y) : kept[j] = IF j <= Len(x) THEN x[j] ELSE y[j - Len(x)]
  BY <1>1, <1>2, <1>3, ConcatProperties
<1>5. ASSUME NEW j \in 1..a PROVE kept[j] = g[j]
  <2>1. j \in 1..a + (c - b) /\ j <= a OBVIOUS
  <2>2. kept[j] = x[j] BY <1>1, <1>2, <1>4, <2>1
  <2> QED BY <1>1, <2>2
<1>6. ASSUME NEW j \in a + 1..a + (c - b) PROVE kept[j] = g[b + (j - a)]
  <2>1. j \in 1..a + (c - b) /\ ~(j <= a) /\ j - a \in 1..c - b OBVIOUS
  <2>2. kept[j] = y[j - a] BY <1>1, <1>2, <1>4, <2>1
  <2> QED BY <1>2, <2>1, <2>2
<1> QED BY <1>5, <1>6 DEF OneDropped

\* Without entry number p the later ones move up.
Without(E, n, p) == [q \in 0..n - 2 |-> IF q < p THEN E[q] ELSE E[q + 1]]
LEMMA EntryDropped ==
    ASSUME NEW g, NEW n \in Nat, NEW E, Lines(g, n, E), NEW p \in 0..n - 1,
           NEW kept, IsRest(kept, g, p * Entry, (p + 1) * Entry, n * Entry)
    PROVE  Lines(kept, n - 1, Without(E, n, p))
<1>0. Entry \in Nat /\ Entry > 0 /\ p \in Nat /\ p + 1 <= n BY FileBlocksAssumption
<1>a. PICK a \in Nat : a = Entry * p BY <1>0
<1>b. PICK b \in Nat : b = Entry * (p + 1) BY <1>0
<1>c. PICK c \in Nat : c = Entry * n BY <1>0
<1>1. b = a + Entry /\ b <= c
  <2>1. Entry * (p + 1) = Entry * p + Entry BY <1>0
  <2>2. Entry * (p + 1) <= Entry * n BY <1>0
  <2> QED BY <1>a, <1>b, <1>c, <2>1, <2>2
<1>2. IsRest(kept, g, a, b, c)
  <2>1. p * Entry = a /\ (p + 1) * Entry = b /\ n * Entry = c BY <1>0, <1>a, <1>b, <1>c
  <2> QED BY <2>1
<1>C. OneDropped(kept, g, a, b, c) BY <1>1, <1>2, PartDropped
<1>3. /\ \A j \in 1..a : kept[j] = g[j]
      /\ \A j \in a + 1..a + (c - b) : kept[j] = g[b + (j - a)]
  BY <1>C DEF OneDropped
<1> SUFFICES ASSUME NEW q \in 0..(n - 1) - 1, NEW r \in 1..Entry
             PROVE  kept[Entry * q + r] = <<"dir", Without(E, n, p)[q], r>>
  BY DEF Lines
<1>4. /\ q \in Nat /\ q < n - 1 /\ n - 1 \in Nat /\ q \in 0..n - 2
      /\ q \in 0..n - 1 /\ q + 1 \in 0..n - 1 /\ r \in Nat
  BY <1>0
<1>5. Without(E, n, p)[q] = IF q < p THEN E[q] ELSE E[q + 1] BY <1>4 DEF Without
<1>j. PICK j : j = Entry * q + r OBVIOUS
<1>6. CASE q < p
  <2>1. j \in 1..a BY <1>0, <1>4, <1>6, <1>j, <1>a, LineAt
  <2>2. kept[j] = g[j] BY <1>3, <2>1
  <2>3. g[Entry * q + r] = <<"dir", E[q], r>> BY <1>4 DEF Lines
  <2> QED BY <1>5, <1>6, <1>j, <2>2, <2>3
<1>7. CASE ~(q < p)
  <2>x. PICK x \in Nat : x = Entry * q BY <1>0, <1>4
  <2>1. x >= a
    <3>1. Entry * p <= Entry * q BY <1>0, <1>4, <1>7
    <3> QED BY <2>x, <1>a, <3>1
  <2>2. j <= c - Entry
    <3>1. Entry * q + r \in 1..Entry * (n - 1) BY <1>4, LineAt
    <3>2. Entry * (n - 1) = Entry * n - Entry BY <1>0
    <3> QED BY <1>0, <1>c, <1>j, <3>1, <3>2
  <2>3. j = x + r /\ r >= 1 BY <1>j, <2>x
  <2>4. j \in a + 1..a + (c - b) /\ b + (j - a) = x + Entry + r
    BY <1>0, <1>1, <1>4, <2>1, <2>2, <2>3
  <2>5. kept[j] = g[b + (j - a)] BY <1>3, <2>4
  <2>6. Entry * (q + 1) + r = x + Entry + r
    <3>1. Entry * (q + 1) = Entry * q + Entry BY <1>0, <1>4
    <3> QED BY <2>x, <3>1
  <2>7. g[Entry * (q + 1) + r] = <<"dir", E[q + 1], r>> BY <1>4 DEF Lines
  <2> QED BY <1>5, <1>7, <1>j, <2>4, <2>5, <2>6, <2>7
<1> QED BY <1>6, <1>7

\* The root directory has n entries, which name E: itself first, and every file.
Entries(s, n, E) ==
    \A q \in 0..n - 1 : \A r \in 1..Entry :
        Cell(s, Root, Entry * q + r - 1) = <<"dir", E[q], r>>
Listed(s, n, E) ==
    /\ n \in Nat \ {0} /\ s.fcb[Root].length = Entry * n
    /\ Entries(s, n, E) /\ E[0] = Root
    /\ \A f \in UsedFiles(s) : \E q \in 1..n - 1 : E[q] = f
\* Where an entry fills a block, the first `touch' has damaged the directory.
Lists(s) ==
    /\ \E n, E : Listed(s, n, E)
    /\ UsedFiles(s) # {} => Entry < B

LEMMA ListsStay ==
    ASSUME NEW s, Sound(s), s.fcb[Root].is_used, Lists(s), NEW t, Intact(s, t, Root),
           UsedFiles(t) = UsedFiles(s)
    PROVE  Lists(t)
<1>1. Root \in FileNumbers BY DEF FileNumbers
<1>2. s.fcb[Root].length \in Nat BY <1>1, ClaimsAre, Bounds DEF Sound
<1>3. t.fcb[Root] = s.fcb[Root] BY DEF Intact
<1>4. \A j \in 0..s.fcb[Root].length - 1 : Cell(t, Root, j) = Cell(s, Root, j)
  BY <1>1, <1>2, IntactCells
<1>5. ASSUME NEW n, NEW E, Listed(s, n, E) PROVE Listed(t, n, E)
  <2>1. n \in Nat \ {0} /\ s.fcb[Root].length = Entry * n /\ Entries(s, n, E)
    BY <1>5 DEF Listed
  <2>2. ASSUME NEW q \in 0..n - 1, NEW r \in 1..Entry
        PROVE  Cell(t, Root, Entry * q + r - 1) = <<"dir", E[q], r>>
    <3>1. q \in Nat /\ n \in Nat /\ q < n BY <2>1
    <3>2. Entry * q + r - 1 \in 0..Entry * n - 1 BY <3>1, LineAt
    <3>3. Cell(s, Root, Entry * q + r - 1) = <<"dir", E[q], r>> BY <2>1 DEF Entries
    <3> QED BY <1>4, <2>1, <3>2, <3>3
  <2>3. Entries(t, n, E) BY <2>2 DEF Entries
  <2> QED BY <1>3, <1>5, <2>3 DEF Listed
<1> QED BY <1>5 DEF Lists

\* `touch' and `mkdir' add the entry of the new file behind the others.
LEMMA EntryIsListed ==
    ASSUME NEW s, s.fcb[Root].length \in Nat, Lists(s), Starts(s.fcb[Root].length),
           NEW f \in Files, NEW t, Appended(s, t, Root, DirEntry(f)),
           UsedFiles(t) = UsedFiles(s) \cup {f}
    PROVE  Lists(t)
<1>1. PICK n, E : Listed(s, n, E) BY DEF Lists
<1>2. /\ n \in Nat \ {0} /\ s.fcb[Root].length = Entry * n
      /\ Entries(s, n, E) /\ E[0] = Root
      /\ \A g \in UsedFiles(s) : \E q \in 1..n - 1 : E[q] = g
  BY <1>1 DEF Listed
<1>3. Entry \in Nat /\ Entry > 0 /\ Entry <= B /\ B \in Nat BY FileBlocksAssumption
<1>4. Len(DirEntry(f)) = Entry /\ \A r \in 1..Entry : DirEntry(f)[r] = <<"dir", f, r>>
  BY <1>3 DEF DirEntry
<1>5. /\ t.fcb[Root].length = Entry * n + Entry
      /\ \A j \in 0..Entry * n - 1 : Cell(t, Root, j) = Cell(s, Root, j)
      /\ \A i \in 1..Entry : Cell(t, Root, Entry * n + i - 1) = <<"dir", f, i>>
  BY <1>2, <1>4 DEF Appended
<1>F. PICK F : F = [q \in 0..n |-> IF q < n THEN E[q] ELSE f] OBVIOUS
<1>6. ASSUME NEW q \in 0..(n + 1) - 1, NEW r \in 1..Entry
      PROVE  Cell(t, Root, Entry * q + r - 1) = <<"dir", F[q], r>>
  <2>1. q \in Nat /\ n \in Nat /\ q <= n /\ q \in 0..n BY <1>2
  <2>2. F[q] = IF q < n THEN E[q] ELSE f BY <2>1, <1>F
  <2>3. CASE q < n
    <3>1. Entry * q + r - 1 \in 0..Entry * n - 1 BY <2>1, <2>3, LineAt
    <3>2. q \in 0..n - 1 BY <2>1, <2>3
    <3>3. Cell(s, Root, Entry * q + r - 1) = <<"dir", E[q], r>> BY <1>2, <3>2 DEF Entries
    <3> QED BY <1>5, <2>2, <2>3, <3>1, <3>3
  <2>4. CASE q = n BY <1>5, <2>2, <2>4
  <2> QED BY <2>1, <2>3, <2>4
<1>7. Entries(t, n + 1, F) BY <1>6 DEF Entries
<1>8. F[0] = Root /\ F[n] = f /\ \A q \in 1..n - 1 : F[q] = E[q]
  <2>1. 0 \in 0..n /\ n \in 0..n /\ 0 < n /\ \A q \in 1..n - 1 : q \in 0..n /\ q < n BY <1>2
  <2> QED BY <1>2, <1>F, <2>1
<1>9. ASSUME NEW g \in UsedFiles(t) PROVE \E q \in 1..(n + 1) - 1 : F[q] = g
  <2>1. CASE g = f
    <3>1. n \in 1..(n + 1) - 1 BY <1>2
    <3> QED BY <1>8, <2>1, <3>1
  <2>2. CASE g # f
    <3>1. PICK q \in 1..n - 1 : E[q] = g BY <1>2, <2>2
    <3>2. q \in 1..(n + 1) - 1 BY <1>2
    <3> QED BY <1>8, <3>1, <3>2
  <2> QED BY <2>1, <2>2
<1>10. t.fcb[Root].length = Entry * (n + 1) /\ n + 1 \in Nat \ {0}
  <2>1. Entry * (n + 1) = Entry * n + Entry BY <1>2, <1>3
  <2> QED BY <1>2, <1>5, <2>1
<1>11. Entry < B
  <2>1. CASE Entry = B
    <3>1. B * n = B * n + 0 /\ B * n \in Nat /\ 0 \in 0..B - 1 BY <1>2, <1>3
    <3>2. (B * n) % B = 0 BY <1>2, <3>1, Quotient
    <3>3. B * n # 0
      <4>1. B * 1 <= B * n BY <1>2, <1>3
      <4> QED BY <1>3, <2>1, <3>1, <4>1
    <3> QED BY <1>2, <2>1, <3>2, <3>3 DEF Starts
  <2> QED BY <1>3, <2>1
<1>12. Listed(t, n + 1, F) BY <1>7, <1>8, <1>9, <1>10 DEF Listed
<1> QED BY <1>11, <1>12 DEF Lists

LEMMA SameFactor ==
    ASSUME NEW d \in Nat, d > 0, NEW a \in Nat, NEW b \in Nat, d * a = d * b
    PROVE  a = b
<1>1. (d * a) \div d = a BY WholeParts
<1>2. (d * b) \div d = b BY WholeParts
<1> QED BY <1>1, <1>2

\* `rm' writes the entries but the first of the removed file's.
WasRead(inodes, s, n) == \A j \in 1..Entry * n : inodes[j] = Cell(s, Root, j - 1)
IsHit(hit, inodes, n, f) == hit = {i \in 1..n : inodes[i * Entry] = <<"dir", f, Entry>>}
Dropped(kept, inodes, n, hit) ==
    \A i \in hit : (\A j \in hit : i <= j) =>
        IsRest(kept, inodes, (i - 1) * Entry, i * Entry, n * Entry)
Remade(t, inodes, kept, n) ==
    /\ t.fcb[Root].length = Entry * (n - 1)
    /\ \A r \in 1..Entry : Cell(t, Root, r - 1) = inodes[r]
    /\ \A j \in 1..Entry * (n - 2) : Cell(t, Root, Entry + j - 1) = kept[Entry + j]
LEMMA EntryIsDropped ==
    ASSUME NEW s, Lists(s), NEW f \in Files, f \in UsedFiles(s),
           NEW n \in Nat, s.fcb[Root].length = Entry * n, NEW inodes, WasRead(inodes, s, n),
           NEW hit, IsHit(hit, inodes, n, f), NEW kept, Dropped(kept, inodes, n, hit),
           NEW t, UsedFiles(t) = UsedFiles(s) \ {f}, Remade(t, inodes, kept, n)
    PROVE  Lists(t)
<1>1. PICK m, E : Listed(s, m, E) BY DEF Lists
<1>2. Entry \in Nat /\ Entry > 0 BY FileBlocksAssumption
<1>3. n = m
  <2>1. m \in Nat /\ Entry * n = Entry * m BY <1>1 DEF Listed
  <2> QED BY <1>2, <2>1, SameFactor
<1>4. /\ Entries(s, n, E) /\ E[0] = Root /\ n > 0
      /\ \A g \in UsedFiles(s) : \E q \in 1..n - 1 : E[q] = g
  BY <1>1, <1>3 DEF Listed
<1>5. Lines(inodes, n, E)
  <2> SUFFICES ASSUME NEW q \in 0..n - 1, NEW r \in 1..Entry
               PROVE  inodes[Entry * q + r] = <<"dir", E[q], r>>
    BY DEF Lines
  <2>1. q \in Nat /\ q < n OBVIOUS
  <2>2. Entry * q + r \in 1..Entry * n BY <2>1, LineAt
  <2>3. Cell(s, Root, Entry * q + r - 1) = <<"dir", E[q], r>> BY <1>4 DEF Entries
  <2>x. PICK x \in Nat : x = Entry * q + r BY <1>2, <2>1
  <2>4. inodes[x] = Cell(s, Root, x - 1) BY <2>2, <2>x DEF WasRead
  <2>5. x - 1 = Entry * q + r - 1
    <3>1. Entry * q \in Nat BY <1>2, <2>1
    <3> QED BY <2>x, <3>1
  <2> QED BY <2>3, <2>4, <2>5, <2>x
<1>6. ASSUME NEW i \in 1..n PROVE i \in hit <=> E[i - 1] = f
  <2>1. i - 1 \in 0..n - 1 /\ Entry \in 1..Entry BY <1>2
  <2>2. inodes[Entry * (i - 1) + Entry] = <<"dir", E[i - 1], Entry>> BY <1>5, <2>1 DEF Lines
  <2>3. Entry * (i - 1) + Entry = i * Entry BY <1>2
  <2>4. inodes[i * Entry] = <<"dir", E[i - 1], Entry>> BY <2>2, <2>3
  <2> QED BY <2>4 DEF IsHit
<1>7. PICK i \in hit : \A j \in hit : i <= j
  <2>1. hit \in SUBSET Nat BY DEF IsHit
  <2>2. hit # {}
    <3>1. PICK q \in 1..n - 1 : E[q] = f BY <1>4
    <3>2. q + 1 \in 1..n /\ (q + 1) - 1 = q OBVIOUS
    <3>3. q + 1 \in hit BY <1>6, <3>1, <3>2
    <3> QED BY <3>3
  <2> QED BY <2>1, <2>2, SmallestOf
<1>8. i \in 1..n /\ E[i - 1] = f
  <2>1. i \in 1..n BY DEF IsHit
  <2> QED BY <1>6, <2>1
<1>9. PICK p \in 1..n - 1 : p = i - 1
  <2>1. f # Root BY DEF Files, Root
  <2>2. i - 1 # 0 BY <1>4, <1>8, <2>1
  <2>3. i - 1 \in 1..n - 1 BY <1>8, <2>2
  <2> QED BY <2>3
<1>F. PICK F : F = Without(E, n, p) OBVIOUS
<1>10. Lines(kept, n - 1, F)
  <2>1. IsRest(kept, inodes, (i - 1) * Entry, i * Entry, n * Entry)
    BY <1>7 DEF Dropped
  <2>2. i - 1 = p /\ i = p + 1 BY <1>8, <1>9
  <2>3. IsRest(kept, inodes, p * Entry, (p + 1) * Entry, n * Entry) BY <2>1, <2>2
  <2>4. p \in 0..n - 1 OBVIOUS
  <2> QED BY <1>5, <1>F, <2>3, <2>4, EntryDropped
<1>11. \A q \in 0..n - 2 : F[q] = IF q < p THEN E[q] ELSE E[q + 1] BY <1>F DEF Without
<1>12. F[0] = Root
  <2>1. 0 \in 0..n - 2 /\ 0 < p BY <1>9
  <2> QED BY <1>4, <1>11, <2>1
<1>13. ASSUME NEW q \in 0..(n - 1) - 1, NEW r \in 1..Entry
       PROVE  Cell(t, Root, Entry * q + r - 1) = <<"dir", F[q], r>>
  <2>1. CASE q = 0
    <3>1. Entry * q + r - 1 = r - 1 /\ Entry * q + r = r BY <1>2, <2>1
    <3>2. 0 \in 0..n - 1 BY <1>4
    <3>3. inodes[Entry * q + r] = <<"dir", E[q], r>> BY <1>5, <2>1, <3>2 DEF Lines
    <3>4. Cell(t, Root, r - 1) = inodes[r] BY DEF Remade
    <3> QED BY <1>4, <1>12, <2>1, <3>1, <3>3, <3>4
  <2>2. CASE q # 0
    <3>1. q - 1 \in Nat /\ n - 2 \in Nat /\ q - 1 < n - 2 BY <2>2
    <3>j. PICK j : j = Entry * (q - 1) + r OBVIOUS
    <3>2. j \in 1..Entry * (n - 2) BY <3>1, <3>j, LineAt
    <3>3. Entry * q + r = Entry + j
      <4>1. Entry * (q - 1) = Entry * q - Entry /\ Entry * q \in Nat BY <1>2, <3>1
      <4> QED BY <1>2, <3>j, <4>1
    <3>4. Cell(t, Root, Entry + j - 1) = kept[Entry + j] BY <3>2, Zenon DEF Remade
    <3>5. kept[Entry * q + r] = <<"dir", F[q], r>> BY <1>10 DEF Lines
    <3>6. Entry + j - 1 = Entry * q + r - 1
      <4>1. Entry * q \in Nat BY <1>2, <3>1
      <4>2. j \in Nat BY <1>2, <3>1, <3>j, LineAt
      <4> QED BY <1>2, <3>3, <4>1, <4>2
    <3> QED BY <3>3, <3>4, <3>5, <3>6
  <2> QED BY <2>1, <2>2
<1>14. ASSUME NEW g \in UsedFiles(t) PROVE \E q \in 1..(n - 1) - 1 : F[q] = g
  <2>1. g \in UsedFiles(s) /\ g # f OBVIOUS
  <2>2. PICK q \in 1..n - 1 : E[q] = g BY <1>4, <2>1
  <2>3. q # p BY <1>8, <1>9, <2>1, <2>2
  <2>4. CASE q < p
    <3>1. q \in 0..n - 2 /\ q \in 1..(n - 1) - 1 BY <2>4
    <3>2. F[q] = g BY <1>11, <2>2, <2>4, <3>1
    <3> QED BY <3>1, <3>2
  <2>5. CASE q > p
    <3>1. q - 1 \in 0..n - 2 /\ q - 1 \in 1..(n - 1) - 1 /\ ~(q - 1 < p) /\ (q - 1) + 1 = q
      BY <2>5
    <3>2. F[q - 1] = g BY <1>11, <2>2, <3>1
    <3> QED BY <3>1, <3>2
  <2> QED BY <2>3, <2>4, <2>5
<1>15. n - 1 \in Nat \ {0} BY <1>9
<1>16. Entries(t, n - 1, F) BY <1>13 DEF Entries
<1>17. Listed(t, n - 1, F) BY <1>12, <1>14, <1>15, <1>16 DEF Listed, Remade
<1>18. Entry < B BY DEF Lists
<1> QED BY <1>17, <1>18 DEF Lists

\* What `rm' keeps of the entries it has read.
KeptOf(inodes, n, hit) ==
    IF hit = {} THEN inodes
    ELSE LET i == CHOOSE i \in hit : \A j \in hit : i <= j
         IN SubSeq(inodes, 1, (i - 1) * Entry) \o SubSeq(inodes, i * Entry + 1, n * Entry)
LEMMA DroppedOnce ==
    ASSUME NEW hit \in SUBSET Nat, NEW inodes, NEW n
    PROVE  Dropped(KeptOf(inodes, n, hit), inodes, n, hit)
<1> SUFFICES ASSUME NEW i \in hit, \A j \in hit : i <= j
             PROVE  IsRest(KeptOf(inodes, n, hit), inodes, (i - 1) * Entry, i * Entry, n * Entry)
  BY DEF Dropped
<1> PICK c : c = CHOOSE x \in hit : \A j \in hit : x <= j OBVIOUS
<1>1. c \in hit /\ \A j \in hit : c <= j OBVIOUS
<1>2. c = i
  <2>1. c <= i /\ i <= c /\ c \in Nat /\ i \in Nat BY <1>1
  <2> QED BY <2>1
<1>3. KeptOf(inodes, n, hit)
         = SubSeq(inodes, 1, (c - 1) * Entry) \o SubSeq(inodes, c * Entry + 1, n * Entry)
  BY DEF KeptOf
<1> QED BY <1>2, <1>3 DEF IsRest

LEMMA RootIsRead ==
    ASSUME NEW s, s.fcb[Root].is_used, NEW n \in Nat, s.fcb[Root].length = Entry * n,
           NEW v, Intact(s, v, Root)
    PROVE  WasRead(Read(v, Root), s, n)
<1>1. Entry \in Nat /\ Root \in FileNumbers BY FileBlocksAssumption DEF FileNumbers
<1>l. PICK len \in Nat : len = Entry * n BY <1>1
<1>2. v.fcb[Root] = s.fcb[Root] BY DEF Intact
<1>3. Read(v, Root) = [i \in 1..len |->
         v.disk[GetBlocks(v, Root)[((i - 1) \div B) + 1]][((i - 1) % B) + 1]]
  BY <1>2, <1>l DEF Read
<1>4. ASSUME NEW j \in 1..len PROVE Read(v, Root)[j] = Cell(s, Root, j - 1)
  <2>1. j - 1 \in 0..s.fcb[Root].length - 1 BY <1>l
  <2>2. Read(v, Root)[j] = Cell(v, Root, j - 1) BY <1>3 DEF Cell
  <2>3. Cell(v, Root, j - 1) = Cell(s, Root, j - 1) BY <1>1, <1>l, <2>1, IntactCells
  <2> QED BY <2>2, <2>3
<1> QED BY <1>4, <1>l DEF WasRead

LEMMA RootIsRemade ==
    ASSUME NEW n \in Nat, n >= 2, NEW inodes, NEW kept, NEW t, ~Wild(t),
           t.fcb[Root].length = Entry * (n - 1),
           Rewritten(t, SubSeq(inodes, 1, Entry), SubSeq(kept, Entry + 1, (n - 1) * Entry))
    PROVE  Remade(t, inodes, kept, n)
<1>1. Entry \in Nat /\ Entry > 0 BY FileBlocksAssumption
<1>e. PICK e \in Nat : e = Entry * (n - 2)
  <2>1. n - 2 \in Nat OBVIOUS
  <2> QED BY <1>1, <2>1
<1>h. PICK h \in Nat : h = (n - 1) * Entry
  <2>1. n - 1 \in Nat OBVIOUS
  <2> QED BY <1>1, <2>1
<1>2. h = Entry + e
  <2>1. n - 2 \in Nat /\ n - 1 = 1 + (n - 2) OBVIOUS
  <2>2. (1 + (n - 2)) * Entry = Entry + Entry * (n - 2) BY <1>1, <2>1, OneMore
  <2> QED BY <1>e, <1>h, <2>1, <2>2
<1>a. PICK a : a = SubSeq(inodes, 1, Entry) OBVIOUS
<1>b. PICK b : b = SubSeq(kept, Entry + 1, h) OBVIOUS
<1>3. Rewritten(t, a, b) BY <1>a, <1>b, <1>h
<1>4. \A i \in 1..Entry : a[i] = inodes[i]
  <2>x. PICK x : x = Entry OBVIOUS
  <2>1. x \in Nat /\ 1 \in Nat /\ 1 <= x + 1 /\ x - 1 + 1 = x BY <1>1, <2>x
  <2>S. PICK S : S = {inodes[i] : i \in 1..x} OBVIOUS
  <2>2. \A i \in 1..x : inodes[i] \in S BY <2>S
  <2>3. \A i \in 1..x : SubSeq(inodes, 1, x)[i] = inodes[1 + i - 1] BY <2>1, <2>2, StretchIs
  <2>4. \A i \in 1..x : 1 + i - 1 = i BY <2>1
  <2> QED BY <1>a, <2>x, <2>3, <2>4
<1>5. Len(b) = e /\ \A i \in 1..e : b[i] = kept[Entry + i]
  <2>m. PICK m \in Nat : m = Entry + 1 BY <1>1
  <2>S. PICK S : S = {kept[i] : i \in m..h} OBVIOUS
  <2>1. \A i \in m..h : kept[i] \in S BY <2>S
  <2>2. m <= h + 1 /\ h - m + 1 = e BY <1>1, <1>2, <2>m
  <2>3. Len(SubSeq(kept, m, h)) = e /\ \A i \in 1..e : SubSeq(kept, m, h)[i] = kept[m + i - 1]
    BY <2>1, <2>2, StretchIs
  <2>4. \A i \in 1..e : m + i - 1 = Entry + i BY <1>1, <2>m
  <2> QED BY <1>b, <2>m, <2>3, <2>4
<1>6. /\ \A i \in 1..Entry : Cell(t, Root, i - 1) = a[i]
      /\ \A i \in 1..Len(b) : Cell(t, Root, Entry + i - 1) = b[i]
  BY <1>3 DEF Rewritten
<1>7. \A r \in 1..Entry : Cell(t, Root, r - 1) = inodes[r] BY <1>4, <1>6
<1>8. \A j \in 1..e : Cell(t, Root, Entry + j - 1) = kept[Entry + j] BY <1>5, <1>6
<1> QED BY <1>7, <1>8, <1>e DEF Remade

LEMMA DeleteLists ==
    ASSUME IInv, Lists(fs), NEW f \in Files, Delete(f), ~Wild(fs')
    PROVE  Lists(fs')
<1> DEFINE v == Removed(fs, f)
           inodes == Read(v, Root)
           n == Len(inodes) \div Entry
           hit == {i \in 1..n : inodes[i * Entry] = <<"dir", f, Entry>>}
           kept == KeptOf(inodes, n, hit)
<1>1. Running /\ Used(f) BY DEF Delete
<1>2. Sound(fs) /\ RootFull(fs) BY <1>1, RunningIsSound DEF IInv
<1>3. fs' = Extend(Extend(Cleared(v), Root, SubSeq(inodes, 1, Entry)),
                   Root, SubSeq(kept, Entry + 1, (n - 1) * Entry))
  BY DEF Delete, KeptOf
<1>16. IsHit(hit, inodes, n, f) BY DEF IsHit
<1>v. v = Removed(fs, f) /\ inodes = Read(v, Root) /\ n = Len(inodes) \div Entry OBVIOUS
<1>k. kept = KeptOf(inodes, n, hit) OBVIOUS
<1> HIDE DEF kept, hit, n, inodes, v
<1>4. fs.fcb[f].is_used /\ f \in UsedFiles(fs) BY <1>1 DEF Used, UsedFiles
<1>5. Entry < B BY <1>4 DEF Lists
<1>6. /\ Left(fs, fs', {f}) /\ Absent(fs', f)
      /\ Rewritten(fs', SubSeq(inodes, 1, Entry), SubSeq(kept, Entry + 1, (n - 1) * Entry))
  BY <1>2, <1>3, <1>4, <1>5, <1>v, DeleteLeaves
<1>7. RootFull(fs') /\ UsedFiles(fs') = UsedFiles(fs) \ {f}
  <2>1. RootFull(fs') /\ ~fs'.fcb[f].is_used /\ \A g \in Files \ {f} : fs'.fcb[g] = fs.fcb[g]
    BY <1>6 DEF Left, Absent, Intact
  <2> QED BY <2>1 DEF UsedFiles
<1>8. PICK c \in Nat : c = Cardinality(UsedFiles(fs)) BY UsedFilesAre DEF UsedFiles
<1>9. c > 0 /\ Cardinality(UsedFiles(fs')) = c - 1
  <2>1. IsFiniteSet(UsedFiles(fs)) BY UsedFilesAre DEF UsedFiles
  <2>2. Cardinality(UsedFiles(fs')) = c - 1 BY <1>4, <1>7, <1>8, <2>1, FS_RemoveElement
  <2>3. Cardinality(UsedFiles(fs')) \in Nat BY UsedFilesAre DEF UsedFiles
  <2> QED BY <2>2, <2>3
<1>10. Intact(fs, v, Root)
  <2>1. f \in FileNumbers /\ Root \in FileNumbers \ {f} BY DEF FileNumbers, Root, Files
  <2>2. Gone(fs, v, f) BY <1>2, <1>4, <2>1, <1>v, FileIsRemoved
  <2> QED BY <2>1, <2>2 DEF Gone
<1>11. Entry \in Nat /\ Entry > 0 BY FileBlocksAssumption
<1>12. fs.fcb[Root].length = Entry * (1 + c) /\ fs.fcb[Root].is_used /\ 1 + c \in Nat
  BY <1>2, <1>8 DEF RootFull
<1>13. n = 1 + c
  <2>1. v.fcb[Root].length = Entry * (1 + c) BY <1>10, <1>12 DEF Intact
  <2>2. Entry * (1 + c) \in Nat BY <1>11, <1>12
  <2>3. Len(inodes) = Entry * (1 + c) BY <1>v, <2>1, <2>2, ReadLength
  <2> QED BY <1>11, <1>12, <1>v, <2>3, WholeParts
<1>14. n \in Nat /\ n >= 2 /\ n - 1 = 1 + (c - 1) BY <1>9, <1>13
<1>15. WasRead(inodes, fs, n) BY <1>10, <1>12, <1>13, <1>v, RootIsRead
<1>17. Dropped(kept, inodes, n, hit)
  <2>1. hit \in SUBSET Nat BY DEF hit
  <2> QED BY <1>k, <2>1, DroppedOnce
<1>18. fs'.fcb[Root].length = Entry * (n - 1) BY <1>7, <1>9, <1>14 DEF RootFull
<1>19. Remade(fs', inodes, kept, n) BY <1>6, <1>14, <1>18, RootIsRemade
<1> QED BY <1>4, <1>7, <1>12, <1>13, <1>14, <1>15, <1>16, <1>17, <1>19, EntryIsDropped

DirInv == IInv /\ (Running /\ Root \in clean => Lists(fs))

LEMMA StepLists ==
    ASSUME ~Shrinking, DirInv, Next
    PROVE  DirInv'
<1>1. IInv /\ IInv' BY StepKeeps DEF DirInv
<1> SUFFICES ASSUME Running', Root \in clean' PROVE Lists(fs')
  BY <1>1 DEF DirInv
<1>2. Running
  BY DEF Next, Create, CreateFails, WriteAppend, Truncate, Copy, Override, Delete
<1>3. Sound(fs) /\ RootFull(fs) BY <1>1, <1>2, RunningIsSound DEF IInv
<1>4. ~Wild(fs') BY DEF Running, Wild
<1>5. Root \in FileNumbers /\ \A f \in Files : f \in FileNumbers /\ f # Root /\ Root # f
  BY DEF Files, Root, FileNumbers
<1>6. fs.fcb[Root].length \in Nat /\ fs.fcb[Root].is_used
  BY <1>3, <1>5, ClaimsAre, Bounds DEF Sound, RootFull
<1>7. Root \in clean => Lists(fs) BY <1>2 DEF DirInv
<1>8. ASSUME NEW f \in Files, Used(f), NEW len, Wrote(fs, fs', f, len),
             clean' \subseteq clean \cup {f}
      PROVE  Lists(fs')
  <2>1. Lists(fs) BY <1>5, <1>7, <1>8
  <2>2. /\ fs'.fcb[f].is_used
        /\ \A g \in FileNumbers \ {f} : Intact(fs, fs', g)
    BY <1>4, <1>8 DEF Wrote, Became
  <2>3. UsedFiles(fs') = UsedFiles(fs)
    <3>1. \A g \in FileNumbers \ {f} : fs'.fcb[g] = fs.fcb[g] BY <2>2 DEF Intact
    <3> QED BY <1>5, <1>8, <2>2, <3>1 DEF UsedFiles, Used
  <2>4. Intact(fs, fs', Root) BY <1>5, <2>2
  <2> QED BY <1>3, <1>6, <2>1, <2>3, <2>4, ListsStay
<1>9. CASE Create
  <2>1. PICK f \in Files : /\ ~fs.fcb[f].is_used /\ Left(fs, fs', {f}) /\ Fresh(fs', f)
                           /\ clean' \subseteq clean \cup {f}
                           /\ Enters(fs, fs', f)
    BY <1>1, <1>9, CreateDoes
  <2>2. Lists(fs) BY <1>5, <1>7, <2>1
  <2>3. ~Damages(Root, Length(Root), Entry) BY <1>9 DEF Create
  <2>4. Entry \in Nat \ {0} BY FileBlocksAssumption
  <2>5. Starts(fs.fcb[Root].length) BY <1>6, <2>3, <2>4, Undamaged DEF Length
  <2>6. Appended(fs, fs', Root, DirEntry(f)) /\ UsedFiles(fs') = UsedFiles(fs) \cup {f}
    BY <1>4, <2>1, <2>5 DEF Entered, Enters
  <2> QED BY <1>6, <2>2, <2>5, <2>6, EntryIsListed
<1>10. CASE CreateFails
  <2>1. CanTake(fs, 1) /\ fs' = Take(fs, 1) /\ clean' = clean BY <1>10 DEF CreateFails
  <2>2. Took(fs, 1, Lowest(fs.free, 1), fs') BY <1>3, <2>1, TakeTakes DEF Sound
  <2>3. fs'.disk = fs.disk /\ fs'.fcb = fs.fcb BY <2>2 DEF Took
  <2>4. Intact(fs, fs', Root) BY <2>3, SameIsIntact
  <2>5. UsedFiles(fs') = UsedFiles(fs) BY <2>3 DEF UsedFiles
  <2> QED BY <1>3, <1>6, <1>7, <2>1, <2>4, <2>5, ListsStay
<1>11. ASSUME NEW f \in Files, NEW n \in Sizes,
              WriteAppend(f, n) \/ Truncate(f, n) \/ Copy(f, n)
       PROVE  Lists(fs')
  <2>1. Used(f) /\ clean' \subseteq clean \cup {f}
    BY <1>11 DEF WriteAppend, Truncate, Copy
  <2>2. PICK len : Wrote(fs, fs', f, len) BY <1>1, <1>11, WritesDo
  <2> QED BY <1>8, <2>1, <2>2
<1>12. ASSUME NEW f \in Files, NEW at \in Positions, NEW n \in Sizes, Override(f, at, n)
       PROVE  Lists(fs')
  <2>1. Used(f) /\ clean' \subseteq clean \cup {f} BY <1>12 DEF Override
  <2>2. PICK len : Wrote(fs, fs', f, len) BY <1>1, <1>12, OverrideDoes
  <2> QED BY <1>8, <2>1, <2>2
<1>13. ASSUME NEW f \in Files, Delete(f) PROVE Lists(fs')
  <2>1. Lists(fs) BY <1>7, <1>13 DEF Delete
  <2> QED BY <1>1, <1>4, <1>13, <2>1, DeleteLists
<1> QED BY <1>9, <1>10, <1>11, <1>12, <1>13 DEF Next

\* my_format leaves the root directory with the entry for itself.
LEMMA FormattedLists ==
    ASSUME Init
    PROVE  Lists(fs)
<1>1. /\ N \in Nat /\ N > 2 /\ Entry \in Nat /\ Entry > 0 /\ Entry <= B /\ B \in Nat
      /\ L0 \in Nat /\ L0 > 0 /\ 2 \in Blocks
  BY FileBlocksAssumption DEF Blocks
<1>2. fs.fcb[Root].length = Entry /\ \A f \in Files : ~fs.fcb[f].is_used
  <2>1. fs.fcb = [f \in {Root} \cup Files |->
                     [is_used |-> f = Root, length |-> IF f = Root THEN Entry ELSE 0,
                      mixed |-> [k \in 1..L0 + 2 |-> IF f = Root /\ k = 1 THEN 2 ELSE 0]]]
    BY DEF Init
  <2>2. \A f \in Files : f # Root BY DEF Files, Root
  <2>3. \A f \in {Root} \cup Files :
           fs.fcb[f].is_used = (f = Root) /\ fs.fcb[f].length = IF f = Root THEN Entry ELSE 0
    BY <2>1
  <2> QED BY <2>2, <2>3
<1>3. fs.fcb[Root].mixed[1] = 2
  <2>1. fs.fcb[Root].mixed = [k \in 1..L0 + 2 |-> IF k = 1 THEN 2 ELSE 0] BY DEF Init
  <2>2. 1 \in 1..L0 + 2 BY <1>1
  <2> QED BY <2>1, <2>2
<1>4. \A r \in 1..Entry : fs.disk[2][r] = <<"dir", Root, r>>
  <2>1. fs.disk[2] = [i \in 1..B |-> IF i <= Entry THEN DirEntry(Root)[i] ELSE <<"junk", 0, 0>>]
    BY <1>1 DEF Init
  <2>2. \A r \in 1..Entry : r \in 1..B /\ r <= Entry BY <1>1
  <2>3. \A r \in 1..Entry : DirEntry(Root)[r] = <<"dir", Root, r>> BY DEF DirEntry
  <2> QED BY <2>1, <2>2, <2>3
<1>5. ASSUME NEW r \in 1..Entry PROVE Cell(fs, Root, r - 1) = <<"dir", Root, r>>
  <2>1. r - 1 \in 0..fs.fcb[Root].length - 1 BY <1>1, <1>2
  <2>2. (r - 1) \div B = 0 /\ (r - 1) % B = r - 1
    <3>1. r - 1 \in 0..B - 1 /\ r - 1 = B * 0 + (r - 1) /\ 0 \in Nat /\ r - 1 \in Nat BY <1>1
    <3> QED BY <3>1, Quotient
  <2>3. Cell(fs, Root, r - 1) = fs.disk[DataAt(fs, Root, ((r - 1) \div B) + 1)][((r - 1) % B) + 1]
    BY <1>1, <1>2, <2>1, CellIs
  <2>4. DataAt(fs, Root, 1) = 2 BY <1>1, <1>3 DEF DataAt
  <2>5. ((r - 1) \div B) + 1 = 1 /\ ((r - 1) % B) + 1 = r BY <2>2
  <2> QED BY <1>4, <2>3, <2>4, <2>5
<1>E. PICK E : E = [q \in {0} |-> Root] OBVIOUS
<1>6. Entries(fs, 1, E)
  <2> SUFFICES ASSUME NEW q \in 0..1 - 1, NEW r \in 1..Entry
               PROVE  Cell(fs, Root, Entry * q + r - 1) = <<"dir", E[q], r>>
    BY DEF Entries
  <2>1. q = 0 /\ E[q] = Root BY <1>E
  <2>2. Entry * q + r - 1 = r - 1 BY <1>1, <2>1
  <2> QED BY <1>5, <2>1, <2>2
<1>7. UsedFiles(fs) = {} BY <1>2 DEF UsedFiles
<1>8. Listed(fs, 1, E)
  <2>1. Entry * 1 = Entry /\ 1 \in Nat \ {0} /\ E[0] = Root BY <1>1, <1>E
  <2> QED BY <1>2, <1>6, <1>7, <2>1 DEF Listed
<1> QED BY <1>7, <1>8 DEF Lists

\* The entry of a listed directory that is read between two positions.
LEMMA EntryIsRead ==
    ASSUME NEW s, Sound(s), s.fcb[Root].is_used, NEW n, NEW E, Listed(s, n, E),
           NEW q \in 0..n - 1
    PROVE  SubSeq(Read(s, Root), q * Entry + 1, (q + 1) * Entry) = DirEntry(E[q])
<1>1. /\ n \in Nat \ {0} /\ s.fcb[Root].length = Entry * n /\ Entries(s, n, E)
  BY DEF Listed
<1>2. Entry \in Nat /\ Entry > 0 /\ q \in Nat /\ q < n BY <1>1, FileBlocksAssumption
<1>g. PICK g : g = Read(s, Root) OBVIOUS
<1>e. PICK e \in Nat : e = Entry * q BY <1>2
<1>d. PICK d \in Nat : d = Entry BY <1>2
<1>3. q * Entry + 1 = e + 1 /\ (q + 1) * Entry = e + d
  <2>1. (q + 1) * Entry = Entry * q + Entry /\ q * Entry = Entry * q BY <1>2
  <2> QED BY <2>1, <1>e, <1>d
<1>4. ASSUME NEW r \in 1..d PROVE g[e + r] = <<"dir", E[q], r>>
  <2>1. Intact(s, s, Root) BY SameIsIntact
  <2>2. WasRead(g, s, n) BY <1>1, <1>g, <2>1, RootIsRead
  <2>3. Entry * q + r \in 1..Entry * n BY <1>1, <1>2, <1>d, LineAt
  <2>4. g[Entry * q + r] = Cell(s, Root, (Entry * q + r) - 1) BY <2>2, <2>3, Zenon DEF WasRead
  <2>5. Cell(s, Root, Entry * q + r - 1) = <<"dir", E[q], r>> BY <1>1, <1>d DEF Entries
  <2>6. (Entry * q + r) - 1 = Entry * q + r - 1
    <3>1. r \in Nat OBVIOUS
    <3> QED BY <1>e, <3>1
  <2> QED BY <1>e, <2>4, <2>5, <2>6
<1>S. PICK S : S = {g[i] : i \in e + 1..e + d} OBVIOUS
<1>x. PICK x : x = SubSeq(g, e + 1, e + d) OBVIOUS
<1>5. x \in Seq(S) /\ Len(x) = d /\ \A i \in 1..d : x[i] = g[e + i]
  <2>a. PICK a \in Nat : a = e + 1 OBVIOUS
  <2>b. PICK b \in Nat : b = e + d OBVIOUS
  <2>1. a <= b + 1 /\ b - a + 1 = d BY <2>a, <2>b
  <2>2. \A i \in a..b : g[i] \in S BY <1>S, <2>a, <2>b
  <2>3. /\ SubSeq(g, a, b) \in Seq(S) /\ Len(SubSeq(g, a, b)) = d
        /\ \A i \in 1..d : SubSeq(g, a, b)[i] = g[a + i - 1]
    BY <2>1, <2>2, StretchIs
  <2>4. \A i \in 1..d : a + i - 1 = e + i BY <2>a
  <2> QED BY <1>x, <2>a, <2>b, <2>3, <2>4
<1>6. x = [i \in 1..d |-> <<"dir", E[q], i>>]
  <2>1. DOMAIN x = 1..d /\ x = [i \in 1..d |-> x[i]] BY <1>5, LenProperties
  <2>2. \A i \in 1..d : x[i] = <<"dir", E[q], i>> BY <1>4, <1>5
  <2> QED BY <2>1, <2>2
<1>7. DirEntry(E[q]) = [i \in 1..d |-> <<"dir", E[q], i>>] BY <1>d DEF DirEntry
<1> QED BY <1>3, <1>6, <1>7, <1>g, <1>x

\* The root directory lists itself first and every existing file once, as long as no
\* entry of it was written at the start of a block.
THEOREM DirectoryIsListed == ~Shrinking => (Spec => []DirectoryListsFiles)
<1> SUFFICES ASSUME ~Shrinking PROVE Spec => []DirectoryListsFiles OBVIOUS
<1>1. Init => DirInv BY InitIsGood, FormattedLists DEF DirInv
<1>2. DirInv /\ [Next]_vars => DirInv'
  <2> SUFFICES ASSUME DirInv, [Next]_vars PROVE DirInv' OBVIOUS
  <2>1. CASE Next BY <2>1, StepLists
  <2>2. CASE UNCHANGED vars
    <3>1. fs' = fs /\ clean' = clean BY <2>2 DEF vars
    <3>2. IInv' /\ (Running' /\ Root \in clean' => Lists(fs'))
      BY <3>1 DEF DirInv, IInv, Running
    <3> QED BY <3>2 DEF DirInv
  <2> QED BY <2>1, <2>2
<1>3. DirInv => DirectoryListsFiles
  <2> SUFFICES ASSUME DirInv, Running, Root \in clean PROVE DirectoryListsFiles
    BY DEF DirectoryListsFiles
  <2> DEFINE dir == Read(fs, Root)
             m == Len(dir) \div Entry
             at(i) == SubSeq(dir, (i - 1) * Entry + 1, i * Entry)
  <2>1. Sound(fs) /\ RootFull(fs) BY RunningIsSound DEF DirInv, IInv
  <2>2. PICK n, E : Listed(fs, n, E) BY DEF DirInv, Lists
  <2>3. /\ n \in Nat \ {0} /\ fs.fcb[Root].length = Entry * n /\ E[0] = Root
        /\ \A f \in UsedFiles(fs) : \E q \in 1..n - 1 : E[q] = f
    BY <2>2 DEF Listed
  <2>4. Entry \in Nat /\ Entry > 0 BY FileBlocksAssumption
  <2>5. m = n
    <3>1. Entry * n \in Nat BY <2>3, <2>4
    <3>2. Len(dir) = Entry * n BY <2>3, <3>1, ReadLength
    <3> QED BY <2>3, <2>4, <3>2, WholeParts
  <2>6. n = 1 + Cardinality(UsedFiles(fs))
    <3>1. PICK c \in Nat : c = Cardinality(UsedFiles(fs)) BY UsedFilesAre DEF UsedFiles
    <3>2. Entry * n = Entry * (1 + c) BY <2>1, <2>3, <3>1 DEF RootFull
    <3>3. n \in Nat /\ 1 + c \in Nat BY <2>3
    <3> QED BY <2>4, <3>1, <3>2, <3>3, SameFactor
  <2>7. ASSUME NEW q \in 0..n - 1, NEW i, i = q + 1 PROVE at(i) = DirEntry(E[q])
    <3>1. i - 1 = q BY <2>7
    <3>2. SubSeq(dir, q * Entry + 1, (q + 1) * Entry) = DirEntry(E[q])
      BY <2>1, <2>2, EntryIsRead DEF RootFull
    <3> QED BY <2>7, <3>1, <3>2
  <2>8. at(1) = DirEntry(Root)
    <3>1. 0 \in 0..n - 1 /\ 1 = 0 + 1 BY <2>3
    <3> HIDE DEF dir
    <3> QED BY <2>3, <2>7, <3>1
  <2>9. ASSUME NEW f \in Files, Used(f) PROVE \E i \in 2..m : at(i) = DirEntry(f)
    <3>1. f \in UsedFiles(fs) BY <2>9 DEF Used, UsedFiles
    <3>2. PICK q \in 1..n - 1 : E[q] = f BY <2>3, <3>1
    <3>3. q \in 0..n - 1 /\ q + 1 \in 2..n BY <2>3
    <3> HIDE DEF dir
    <3>4. at(q + 1) = DirEntry(f) BY <2>7, <3>2, <3>3
    <3> HIDE DEF m
    <3> QED BY <2>5, <3>3, <3>4
  <2>10. m = 1 + Cardinality({f \in Files : Used(f)})
    <3>1. {f \in Files : Used(f)} = UsedFiles(fs) BY DEF Used, UsedFiles
    <3> QED BY <2>5, <2>6, <3>1
  <2> QED BY <2>8, <2>9, <2>10 DEF DirectoryListsFiles
<1> QED BY <1>1, <1>2, <1>3, PTL DEF Spec
=============================================================================
