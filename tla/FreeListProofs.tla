----------------------------- MODULE FreeListProofs -----------------------------
(***************************************************************************)
(* What holds of the free-block list on a disk of any size.                *)
(*                                                                         *)
(* The argument: the two pointer operations of list.h keep a sorted ring   *)
(* sorted; hence the structural invariant SInv, which adds to the checked  *)
(* properties what the loops have established at the cursor, is inductive. *)
(***************************************************************************)
EXTENDS FreeList, FiniteSetTheorems, TLAPS

USE FreeListAssumption DEF FreeListAssumption

-----------------------------------------------------------------------------
(* list.h                                                                  *)

\* list_add behind a node keeps the ring sorted, given the place is right.
LEMMA AddKeepsRing ==
    ASSUME NEW nx \in [Blocks -> Blocks], NEW pv \in [Blocks -> Blocks],
           NEW ns \in SUBSET DataBlocks, IsSortedRing(nx, pv, ns),
           NEW new \in DataBlocks \ ns, NEW at \in ns \cup {ListHead},
           at < new, nx[at] = ListHead \/ new < nx[at]
    PROVE  /\ AddNext(nx, new, at) \in [Blocks -> Blocks]
           /\ AddPrev(nx, pv, new, at) \in [Blocks -> Blocks]
           /\ IsSortedRing(AddNext(nx, new, at), AddPrev(nx, pv, new, at),
                           ns \cup {new})
<1> DEFINE R == ns \cup {ListHead}
           y == nx[at]
           nx2 == AddNext(nx, new, at)
           pv2 == AddPrev(nx, pv, new, at)
<1>1. /\ new \in Blocks \ R /\ at \in Blocks /\ R \subseteq Blocks
      /\ y \in R /\ pv[y] = at /\ Blocks \subseteq Nat
  <2>1. /\ DataBlocks \subseteq Blocks /\ ListHead \in Blocks
        /\ ListHead \notin DataBlocks /\ Blocks \subseteq Nat
    BY DEF Blocks, DataBlocks, FirstData, ListHead
  <2>2. y \in R /\ pv[y] = at
    BY DEF IsSortedRing
  <2> QED BY <2>1, <2>2
<1>2. /\ nx2 \in [Blocks -> Blocks] /\ pv2 \in [Blocks -> Blocks]
      /\ nx2[new] = y /\ nx2[at] = new
      /\ \A x \in R \ {at} : nx2[x] = nx[x]
      /\ pv2[new] = at /\ pv2[y] = new
      /\ \A x \in R \ {y} : pv2[x] = pv[x]
  BY <1>1 DEF AddNext, AddPrev
<1> HIDE DEF nx2, pv2
<1>3. ASSUME NEW x \in R \cup {new}
      PROVE  /\ nx2[x] \in R \cup {new} /\ pv2[nx2[x]] = x
             /\ pv2[x] \in R \cup {new} /\ nx2[pv2[x]] = x
  <2>1. CASE x = new BY <2>1, <1>1, <1>2
  <2>2. CASE x # new
    <3>1. x \in R BY <2>2
    <3>2. /\ nx[x] \in R /\ pv[nx[x]] = x /\ pv[x] \in R /\ nx[pv[x]] = x
      BY <3>1 DEF IsSortedRing
    <3>3. nx2[x] \in R \cup {new} /\ pv2[nx2[x]] = x
      BY <3>1, <3>2, <1>1, <1>2
    <3>4. pv2[x] \in R \cup {new} /\ nx2[pv2[x]] = x
      BY <3>1, <3>2, <1>1, <1>2
    <3> QED BY <3>3, <3>4
  <2> QED BY <2>1, <2>2
<1>4. ASSUME NEW x \in R \cup {new}
      PROVE  /\ nx2[x] # ListHead => x < nx2[x]
             /\ \A z \in ns \cup {new} : x < z => nx2[x] # ListHead /\ nx2[x] <= z
  <2>0. /\ \A a \in R : nx[a] \in R
        /\ \A a \in R : nx[a] # ListHead => a < nx[a]
        /\ \A a \in R, z \in ns : a < z => nx[a] # ListHead /\ nx[a] <= z
    BY DEF IsSortedRing
  <2>a. /\ R \subseteq Nat /\ ns \subseteq R /\ new \in Nat /\ x \in Nat
        /\ at \in R /\ y \in R
    BY <1>1
  <2>1. CASE x = new
    <3>1. y # ListHead => new < y OBVIOUS
    <3>2. ASSUME NEW z \in ns, new < z PROVE y # ListHead /\ y <= z
      BY <3>2, <2>0, <2>a
    <3> QED BY <2>1, <3>1, <3>2, <1>2, <2>a
  <2>2. CASE x = at
    <3>1. ASSUME NEW z \in ns, at < z PROVE new <= z
      BY <3>1, <2>0, <2>a
    <3> QED BY <2>2, <3>1, <1>2, <2>a DEF ListHead
  <2>3. CASE x # new /\ x # at
    <3>1. x \in R \ {at} /\ nx2[x] = nx[x] BY <2>3, <1>2
    <3>2. x < new => nx[x] # ListHead /\ nx[x] <= new
      <4>0. HAVE x < new
      <4>1. CASE x < at
        <5>1. at \in ns BY <4>1, <2>a DEF ListHead
        <5>2. nx[x] # ListHead /\ nx[x] <= at BY <5>1, <4>1, <3>1, <2>0
        <5>3. nx[x] \in R BY <3>1, <2>0
        <5> QED BY <5>2, <5>3, <2>a
      <4>2. CASE at < x
        <5>1. x \in ns BY <4>2, <3>1, <2>a DEF ListHead
        <5>2. y # ListHead /\ y <= x BY <5>1, <4>2, <2>0, <2>a
        <5> QED BY <5>2, <4>0, <2>a
      <4> QED BY <4>1, <4>2, <3>1, <2>a
    <3> QED BY <3>1, <3>2, <2>0
  <2> QED BY <2>1, <2>2, <2>3
<1> QED
  <2>1. IsSortedRing(nx2, pv2, ns \cup {new})
    <3>1. (ns \cup {new}) \cup {ListHead} = R \cup {new} OBVIOUS
    <3> QED BY <3>1, <1>3, <1>4 DEF IsSortedRing
  <2> QED BY <2>1, <1>2 DEF nx2, pv2

\* list_del keeps the ring sorted.
LEMMA DelKeepsRing ==
    ASSUME NEW nx \in [Blocks -> Blocks], NEW pv \in [Blocks -> Blocks],
           NEW ns \in SUBSET DataBlocks, IsSortedRing(nx, pv, ns),
           NEW q \in ns
    PROVE  /\ DelNext(nx, pv, q) \in [Blocks -> Blocks]
           /\ DelPrev(nx, pv, q) \in [Blocks -> Blocks]
           /\ IsSortedRing(DelNext(nx, pv, q), DelPrev(nx, pv, q), ns \ {q})
<1> DEFINE R == ns \cup {ListHead}
           R2 == (ns \ {q}) \cup {ListHead}
           b == pv[q]
           a == nx[q]
           nx2 == DelNext(nx, pv, q)
           pv2 == DelPrev(nx, pv, q)
<1>1. /\ DataBlocks \subseteq Blocks /\ ListHead \in Blocks
      /\ ListHead \notin DataBlocks /\ Blocks \subseteq Nat
  BY DEF Blocks, DataBlocks, FirstData, ListHead
<1>2. /\ \A x \in R : /\ nx[x] \in R /\ pv[nx[x]] = x
                      /\ pv[x] \in R /\ nx[pv[x]] = x
      /\ \A x \in R : nx[x] # ListHead => x < nx[x]
      /\ \A x \in R, z \in ns : x < z => nx[x] # ListHead /\ nx[x] <= z
  BY DEF IsSortedRing
<1>3. q \in R /\ q # ListHead /\ R \subseteq Nat /\ R2 \subseteq R
  BY <1>1
<1>4. a \in R2 /\ b \in R2 /\ a # q /\ b # q
  <2>1. a \in R /\ b \in R BY <1>2, <1>3
  <2>2. a # q BY <1>2, <1>3
  <2>3. b # q BY <1>2, <1>3, <2>2
  <2> QED BY <2>1, <2>2, <2>3
<1>5. /\ nx2 \in [Blocks -> Blocks] /\ pv2 \in [Blocks -> Blocks]
      /\ nx2[b] = a /\ \A x \in R2 \ {b} : nx2[x] = nx[x]
      /\ pv2[a] = b /\ \A x \in R2 \ {a} : pv2[x] = pv[x]
  BY <1>1, <1>4 DEF DelNext, DelPrev
<1> HIDE DEF nx2, pv2
<1>6. ASSUME NEW x \in R2
      PROVE  /\ nx2[x] \in R2 /\ pv2[nx2[x]] = x
             /\ pv2[x] \in R2 /\ nx2[pv2[x]] = x
  <2>1. nx2[x] \in R2 /\ pv2[nx2[x]] = x
    <3>1. CASE x = b BY <3>1, <1>4, <1>5
    <3>2. CASE x # b BY <3>2, <1>2, <1>3, <1>4, <1>5
    <3> QED BY <3>1, <3>2
  <2>2. pv2[x] \in R2 /\ nx2[pv2[x]] = x
    <3>1. CASE x = a BY <3>1, <1>4, <1>5
    <3>2. CASE x # a BY <3>2, <1>2, <1>3, <1>4, <1>5
    <3> QED BY <3>1, <3>2
  <2> QED BY <2>1, <2>2
<1>7. ASSUME NEW x \in R2
      PROVE  /\ nx2[x] # ListHead => x < nx2[x]
             /\ \A z \in ns \ {q} : x < z => nx2[x] # ListHead /\ nx2[x] <= z
  <2>1. CASE x # b BY <2>1, <1>2, <1>3, <1>5
  <2>2. CASE x = b
    <3>1. nx[b] = q /\ b < q BY <1>2, <1>3
    <3>2. a # ListHead => q < a BY <1>2, <1>3
    <3>3. ASSUME NEW z \in ns \ {q}, b < z PROVE a # ListHead /\ a <= z
      <4>1. q <= z BY <3>1, <3>3, <1>2, <1>3, <1>4
      <4>2. q < z BY <4>1, <1>3
      <4> QED BY <4>2, <1>2, <1>3
    <3>4. a # ListHead => b < a BY <3>1, <3>2, <1>3, <1>4
    <3> QED BY <2>2, <3>3, <3>4, <1>5
  <2> QED BY <2>1, <2>2
<1>8. IsSortedRing(nx2, pv2, ns \ {q})
  BY <1>6, <1>7 DEF IsSortedRing
<1> QED BY <1>5, <1>8 DEF nx2, pv2

-----------------------------------------------------------------------------
(* The structural invariant, for callers that ask for any sizes            *)

\* What the walks have established when the cursor is at p: the request was
\* granted, and every node behind the cursor lies below the freed block.
CursorOK ==
    /\ block_index[ListHead] = 0
    /\ pc = "find" => want \in Sizes /\ free_block_count >= want + 1
    /\ pc = "scan" => /\ fb \in held /\ prev[p] < fb
                      /\ count[fb] = 1 /\ block_index[fb] = fb

\* The counter never exceeds what is not held.
CounterOK == free_block_count + Cardinality(held)
                + (IF pc = "merge" THEN 1 ELSE 0) <= N

SInv == /\ TypeOK /\ SortedRing /\ DisjointExtents /\ NeverFreeAndHeld
        /\ CursorOK /\ CounterOK

\* The blocks an allocation takes from the front of the extent at p.
Taken == p .. p + want - 1

\* Numbers used everywhere: blocks are naturals and the head is none of them.
LEMMA Numbers ==
    /\ DataBlocks \subseteq Blocks /\ Blocks \subseteq Nat
    /\ ListHead = 0 /\ ListHead \in Blocks /\ ListHead \notin DataBlocks
    /\ N \in Nat /\ FirstData \in DataBlocks
    /\ \A b : b \in DataBlocks <=> b \in Nat /\ FirstData <= b /\ b < N
    /\ FirstData \in Nat /\ FirstData > 0
BY DEF Blocks, DataBlocks, FirstData, ListHead

\* The extent of a node ends before any later node.
LEMMA ExtentsAreOrdered ==
    ASSUME SInv, NEW x \in linked
    PROVE  /\ x \in DataBlocks /\ block_index[x] = x
           /\ count[x] \in Nat /\ count[x] > 0 /\ x + count[x] <= N
           /\ next[x] \in Ring /\ prev[x] \in Ring
           /\ \A z \in linked : x < z => x + count[x] <= z
           /\ x \in FreeSet /\ x \notin held
<1>1. x \in DataBlocks /\ x \in Blocks /\ x \in Nat /\ \A z \in linked : z \in Nat
  BY Numbers DEF SInv, TypeOK
<1>2. /\ count[x] \in Nat /\ count[x] > 0 /\ x + count[x] <= N
      /\ block_index[x] = x
      /\ next[x] # ListHead => x + count[x] <= next[x]
  BY <1>1 DEF SInv, TypeOK, DisjointExtents
<1>3. /\ next[x] \in Ring /\ prev[x] \in Ring
      /\ \A z \in linked : x < z => next[x] # ListHead /\ next[x] <= z
  BY DEF SInv, SortedRing, IsSortedRing, Ring
<1>4. ASSUME NEW z \in linked, x < z PROVE x + count[x] <= z
  <2>1. next[x] \in linked /\ next[x] <= z /\ x + count[x] <= next[x]
    BY <1>2, <1>3, <1>4 DEF Ring
  <2>2. next[x] \in Nat
    BY <2>1, <1>1
  <2>3. z \in Nat
    BY <1>1
  <2>4. x + count[x] \in Nat
    BY <1>1, <1>2
  <2> QED BY <2>1, <2>2, <2>3, <2>4
<1>5. x \in FreeSet BY <1>1, <1>2 DEF FreeSet
<1>6. x \notin held BY <1>5 DEF SInv, NeverFreeAndHeld
<1> QED BY <1>1, <1>2, <1>3, <1>4, <1>5, <1>6

\* What a granted request finds at the cursor.
LEMMA FoundExtent ==
    ASSUME SInv, AllocateExact \/ AllocateSplit
    PROVE  /\ p \in linked /\ want \in Nat /\ want > 0 /\ want <= count[p]
           /\ Taken \subseteq FreeSet /\ p \in Taken
           /\ held' = held \cup Taken
           /\ free_block_count' = free_block_count - want
           /\ free_block_count' > 0 /\ pc' = "idle" /\ p' = ListHead
<1>1. p \in linked /\ pc = "find"
  BY DEF AllocateExact, AllocateSplit, SInv, TypeOK, Ring
<1>2. want \in Nat /\ want > 0 /\ free_block_count >= want + 1
  <2>1. want \in Sizes /\ free_block_count >= want + 1
    BY <1>1 DEF SInv, CursorOK
  <2>2. \A n \in Sizes : n \in Nat /\ n > 0
    OBVIOUS
  <2> QED BY <2>1, <2>2
<1>3. want <= count[p]
  BY <1>1, <1>2, ExtentsAreOrdered DEF AllocateExact, AllocateSplit
<1>4. /\ held' = held \cup Taken
      /\ free_block_count' = free_block_count - want
      /\ pc' = "idle" /\ p' = ListHead
  BY <1>1, ExtentsAreOrdered DEF AllocateExact, AllocateSplit, Return, Taken
<1>5. /\ p \in DataBlocks /\ p + count[p] <= N /\ count[p] \in Nat
      /\ p \in Nat /\ free_block_count \in Nat
  BY <1>1, ExtentsAreOrdered, Numbers DEF SInv, TypeOK
<1>6. Taken \subseteq FreeSet
  <2>1. ASSUME NEW b \in Taken
        PROVE  b \in Nat /\ p <= b /\ b < p + count[p] /\ b < N
    BY <1>2, <1>3, <1>5 DEF Taken
  <2>2. ASSUME NEW b \in Taken PROVE b \in DataBlocks
    BY <2>1, <1>5, Numbers
  <2> QED BY <1>1, <2>1, <2>2 DEF FreeSet
<1>7. p \in Taken BY <1>2, <1>5 DEF Taken
<1>8. free_block_count' > 0 BY <1>2, <1>4, <1>5
<1> QED BY <1>1, <1>2, <1>3, <1>4, <1>6, <1>7, <1>8

\* There are finitely many data blocks.
LEMMA DataBlocksAreFinite == IsFiniteSet(DataBlocks)
BY FS_Interval DEF DataBlocks, FirstData

\* The held blocks are finitely many.
LEMMA HeldIsFinite ==
    ASSUME TypeOK
    PROVE  IsFiniteSet(held) /\ Cardinality(held) \in Nat
BY DataBlocksAreFinite, FS_Subset, FS_CardinalityType DEF TypeOK

\* Taking an extent away from, or cutting the front off, the list keeps SInv
\* and hands out exactly the blocks of Taken.
LEMMA AllocateKeepsSInv ==
    ASSUME SInv, AllocateExact \/ AllocateSplit
    PROVE  SInv' /\ FreeSet' = FreeSet \ Taken
<1> DEFINE new == p + want
           rest == count[p] - want
<1>1. /\ p \in linked /\ want \in Nat /\ want > 0 /\ want <= count[p]
      /\ Taken \subseteq FreeSet /\ held' = held \cup Taken
      /\ free_block_count' = free_block_count - want /\ free_block_count' > 0
      /\ pc' = "idle" /\ p' = ListHead
  BY FoundExtent
<1>2. /\ p \in DataBlocks /\ p \in Blocks /\ p \in Nat /\ count[p] \in Nat
      /\ p + count[p] <= N /\ block_index[p] = p
  BY <1>1, ExtentsAreOrdered, Numbers
<1>3. \A x \in linked :
        /\ x \in DataBlocks /\ x \in Blocks /\ x \in Nat
        /\ block_index[x] = x /\ count[x] \in Nat /\ count[x] > 0
        /\ x + count[x] <= N
  BY ExtentsAreOrdered, Numbers
<1>4. \A x, z \in linked : x < z => x + count[x] <= z
  BY ExtentsAreOrdered
<1>5. /\ next \in [Blocks -> Blocks] /\ prev \in [Blocks -> Blocks]
      /\ linked \in SUBSET DataBlocks /\ IsSortedRing(next, prev, linked)
      /\ count \in [Blocks -> 0..N] /\ block_index \in [Blocks -> Blocks]
  BY DEF SInv, TypeOK, SortedRing
\* The conclusion is drawn once, from what both actions make of the list.
<1>6. ASSUME next' \in [Blocks -> Blocks], prev' \in [Blocks -> Blocks],
             IsSortedRing(next', prev', linked'), linked' \subseteq DataBlocks,
             count' \in [Blocks -> 0..N], block_index' \in [Blocks -> Blocks],
             block_index'[ListHead] = 0,
             \A x \in linked' : /\ block_index'[x] = x /\ count'[x] > 0
                                /\ x + count'[x] <= N,
             \A x, z \in linked' : x < z => x + count'[x] <= z,
             FreeSet' = FreeSet \ Taken
      PROVE  SInv'
  <2>1. IsFiniteSet(held) /\ Cardinality(held) \in Nat
    BY HeldIsFinite DEF SInv
  <2>2. Cardinality(held') = Cardinality(held) + want
    <3>1. IsFiniteSet(Taken) /\ Cardinality(Taken) = want
      <4>1. p + want - 1 \in Int /\ p <= p + want - 1 BY <1>1, <1>2
      <4>2. /\ IsFiniteSet(Taken)
            /\ Cardinality(Taken) = IF p > p + want - 1 THEN 0
                                    ELSE (p + want - 1) - p + 1
        BY <4>1, <1>2, FS_Interval DEF Taken
      <4> QED BY <4>1, <4>2, <1>1, <1>2
    <3>2. held \cap Taken = {}
      BY <1>1 DEF SInv, NeverFreeAndHeld
    <3>3. Cardinality(held \cup Taken)
            = Cardinality(held) + Cardinality(Taken) - Cardinality(held \cap Taken)
      BY <2>1, <3>1, FS_Union
    <3>4. Cardinality(held \cap Taken) = 0
      BY <3>2, FS_EmptySet
    <3> QED BY <2>1, <3>1, <3>3, <3>4, <1>1
  <2>3. free_block_count \in 0..N /\ free_block_count + Cardinality(held) <= N
    BY <2>1, Numbers, FoundExtent DEF SInv, TypeOK, CounterOK
  <2>4. TypeOK'
    <3>1. fb' \in Blocks /\ want' \in Sizes \cup {0} /\ pc' = "idle" /\ p' = ListHead
      BY <1>1, Numbers DEF AllocateExact, AllocateSplit, Return
    <3>2. held' \subseteq DataBlocks
      BY <1>1 DEF SInv, TypeOK, FreeSet
    <3>3. free_block_count' \in 0..N
      BY <1>1, <2>3
    <3> QED BY <3>1, <3>2, <3>3, <1>6 DEF TypeOK, Ring
  <2>5. SortedRing' BY <1>6 DEF SortedRing
  <2>6. DisjointExtents'
    BY <1>6 DEF DisjointExtents, IsSortedRing
  <2>7. NeverFreeAndHeld'
    BY <1>1, <1>6 DEF SInv, NeverFreeAndHeld
  <2>8. CursorOK' BY <1>1, <1>6 DEF CursorOK
  <2>9. CounterOK'
    BY <1>1, <2>1, <2>2, <2>3 DEF CounterOK
  <2> QED BY <2>4, <2>5, <2>6, <2>7, <2>8, <2>9 DEF SInv
<1>7. CASE AllocateExact
  <2>1. /\ next' = DelNext(next, prev, p) /\ prev' = DelPrev(next, prev, p)
        /\ linked' = linked \ {p} /\ count' = count
        /\ block_index' = block_index /\ count[p] = want
    BY <1>7 DEF AllocateExact
  <2>2. /\ next' \in [Blocks -> Blocks] /\ prev' \in [Blocks -> Blocks]
        /\ IsSortedRing(next', prev', linked')
    BY <2>1, <1>1, <1>5, DelKeepsRing
  <2>3. \A x \in linked' : /\ x \in linked /\ x # p
                           /\ count'[x] = count[x] /\ block_index'[x] = x
    BY <2>1, <1>3
  <2>4. FreeSet' = FreeSet \ Taken
    <3>1. ASSUME NEW b \in DataBlocks, NEW x \in linked', x <= b, b < x + count[x]
          PROVE  b \notin Taken
      BY <3>1, <2>3, <2>1, <1>1, <1>2, <1>3, <1>4, Numbers DEF Taken
    <3>2. ASSUME NEW b \in DataBlocks, p <= b, b < p + count[p]
          PROVE  b \in Taken
      BY <3>2, <2>1, <1>1, <1>2, Numbers DEF Taken
    <3> QED BY <3>1, <3>2, <2>1, <2>3, <1>3 DEF FreeSet
  <2>5. block_index'[ListHead] = 0 BY <2>1 DEF SInv, CursorOK
  <2>6. \A x \in linked' : count'[x] > 0 /\ x + count'[x] <= N
    BY <2>1, <1>3
  <2>7. \A x, z \in linked' : x < z => x + count'[x] <= z
    BY <2>1, <1>4
  <2> QED BY <2>1, <2>2, <2>3, <2>4, <2>5, <2>6, <2>7, <1>5, <1>6
<1>8. CASE AllocateSplit
  <2> DEFINE nx == AddNext(next, new, p)
             pv == AddPrev(next, prev, new, p)
  <2>1. /\ next' = DelNext(nx, pv, p) /\ prev' = DelPrev(nx, pv, p)
        /\ linked' = (linked \ {p}) \cup {new}
        /\ count' = [count EXCEPT ![p] = @ - want, ![new] = count[p] - want]
        /\ block_index' = [block_index EXCEPT
                              ![p] = @ + want, ![new] = block_index[p] + want]
        /\ count[p] > want
    BY <1>8 DEF AllocateSplit
  <2>2. /\ new \in DataBlocks /\ new \in Blocks /\ p < new /\ new < p + count[p]
        /\ rest \in 0..N /\ rest > 0 /\ new + rest = p + count[p] /\ new # p
        /\ new \in Nat /\ rest \in Nat
    BY <2>1, <1>1, <1>2, Numbers
  <2>3. new \notin linked
    BY <2>2, <1>1, <1>2, <1>4
  <2>4. next[p] = ListHead \/ new < next[p]
    <3>1. next[p] # ListHead => next[p] \in linked /\ p < next[p]
      BY <1>1, <1>5 DEF IsSortedRing
    <3>2. next[p] # ListHead => p + count[p] <= next[p] /\ next[p] \in Nat
      BY <3>1, <1>1, <1>3, <1>4
    <3> QED BY <3>2, <2>2, <1>2
  <2>5. /\ nx \in [Blocks -> Blocks] /\ pv \in [Blocks -> Blocks]
        /\ IsSortedRing(nx, pv, linked \cup {new})
    BY <2>2, <2>3, <2>4, <1>1, <1>5, AddKeepsRing
  <2>6. /\ next' \in [Blocks -> Blocks] /\ prev' \in [Blocks -> Blocks]
        /\ IsSortedRing(next', prev', linked')
    <3>1. linked' = (linked \cup {new}) \ {p} BY <2>1, <2>2
    <3>2. linked \cup {new} \in SUBSET DataBlocks BY <2>2, <1>5
    <3>3. p \in linked \cup {new} BY <1>1
    <3>4. next' = DelNext(nx, pv, p) /\ prev' = DelPrev(nx, pv, p) BY <2>1
    <3> HIDE DEF nx, pv, new
    <3>5. /\ DelNext(nx, pv, p) \in [Blocks -> Blocks]
          /\ DelPrev(nx, pv, p) \in [Blocks -> Blocks]
          /\ IsSortedRing(DelNext(nx, pv, p), DelPrev(nx, pv, p),
                          (linked \cup {new}) \ {p})
      BY <3>2, <3>3, <2>5, DelKeepsRing
    <3> QED BY <3>1, <3>4, <3>5
  <2>7. /\ count' \in [Blocks -> 0..N] /\ block_index' \in [Blocks -> Blocks]
        /\ count'[new] = rest /\ block_index'[new] = new
    BY <2>1, <2>2, <1>2, <1>5
  <2>8. \A x \in linked' \ {new} :
          /\ x \in linked /\ x # p /\ x # new
          /\ count'[x] = count[x] /\ block_index'[x] = x
    BY <2>1, <2>3, <1>3, <1>5
  <2>9. block_index'[ListHead] = 0
    BY <2>1, <2>2, <1>2, <1>5, Numbers DEF SInv, CursorOK
  <2>10. \A x \in linked' : /\ block_index'[x] = x /\ count'[x] > 0
                            /\ x + count'[x] <= N
    BY <2>2, <2>7, <2>8, <1>2, <1>3
  <2>11. \A x, z \in linked' : x < z => x + count'[x] <= z
    <3>0. ASSUME NEW x \in linked' \ {new}
          PROVE  /\ x \in linked /\ x \in Nat /\ count[x] \in Nat /\ x # p
                 /\ x < p => x + count[x] <= p
                 /\ p < x => new + rest <= x
                 /\ count'[x] = count[x]
      <4>1. x \in linked /\ x # p /\ count'[x] = count[x] BY <2>8
      <4> QED BY <4>1, <1>1, <1>3, <1>4, <2>2
    <3>1. ASSUME NEW x \in linked' \ {new}, x < new PROVE x + count[x] <= new
      <4> HIDE DEF new, rest
      <4> QED BY <3>1, <3>0, <2>2, <1>2
    <3>2. ASSUME NEW z \in linked' \ {new}, new < z PROVE new + rest <= z
      <4> HIDE DEF new, rest
      <4> QED BY <3>2, <3>0, <2>2, <1>2
    <3> HIDE DEF new, rest
    <3>3. SUFFICES ASSUME NEW x \in linked', NEW z \in linked', x < z
                   PROVE  x + count'[x] <= z
      OBVIOUS
    <3>4. CASE x = new /\ z # new
      BY <3>4, <3>3, <3>2, <2>7
    <3>5. CASE x # new /\ z = new
      BY <3>5, <3>3, <3>1, <3>0
    <3>6. CASE x # new /\ z # new
      BY <3>6, <3>3, <3>0, <1>4
    <3>7. CASE x = new /\ z = new
      BY <3>7, <3>3, <2>2
    <3> QED BY <3>4, <3>5, <3>6, <3>7
  <2>12. FreeSet' = FreeSet \ Taken
    <3>1. ASSUME NEW b \in DataBlocks, NEW x \in linked' \ {new},
                 x <= b, b < x + count[x]
          PROVE  b \notin Taken
      <4>1. /\ x \in linked /\ x # p /\ x \in Nat /\ count[x] \in Nat /\ b \in Nat
            /\ x < p => x + count[x] <= p
            /\ p < x => p + count[p] <= x
        BY <2>8, <1>1, <1>3, <1>4, Numbers
      <4>2. b < p \/ p + want <= b
        BY <4>1, <3>1, <1>1, <1>2
      <4> QED BY <4>1, <4>2, <1>1, <1>2 DEF Taken
    <3>2. ASSUME NEW b \in DataBlocks
          PROVE  /\ new <= b /\ b < new + rest =>
                      b \notin Taken /\ p <= b /\ b < p + count[p]
                 /\ p <= b /\ b < p + count[p] =>
                      b \in Taken \/ (new <= b /\ b < new + rest)
      BY <2>2, <1>1, <1>2, Numbers DEF Taken
    <3> HIDE DEF new, rest
    <3>3. new \in linked' /\ linked' = (linked \ {p}) \cup {new} BY <2>1
    <3>4. ASSUME NEW b \in FreeSet' PROVE b \in FreeSet /\ b \notin Taken
      BY <3>1, <3>2, <3>3, <2>7, <2>8, <1>1 DEF FreeSet
    <3>5. ASSUME NEW b \in FreeSet, b \notin Taken PROVE b \in FreeSet'
      BY <3>2, <3>3, <3>5, <2>7, <2>8, <2>3 DEF FreeSet
    <3> QED BY <3>4, <3>5
  <2>13. linked' \subseteq DataBlocks BY <2>1, <2>2, <1>5
  <2> QED BY <2>6, <2>7, <2>9, <2>10, <2>11, <2>12, <2>13, <1>6
<1> QED
  <2>1. CASE AllocateExact
    <3>1. linked' \subseteq DataBlocks /\ TRUE BY <2>1, <1>5 DEF AllocateExact
    <3> QED BY <1>7, <2>1
  <2> QED BY <1>7, <1>8, <2>1

\* Linking the freed block where the scan stopped keeps SInv.
LEMMA InsertKeepsSInv ==
    ASSUME SInv, FreeInsert
    PROVE  SInv' /\ FreeSet' = FreeSet \cup {fb} /\ fb \notin FreeSet
<1> DEFINE q == prev[p]
<1>1. /\ pc = "scan" /\ p \in linked /\ block_index[p] > block_index[fb]
      /\ next' = AddNext(next, fb, q) /\ prev' = AddPrev(next, prev, fb, q)
      /\ linked' = linked \cup {fb} /\ held' = held \ {fb}
      /\ pc' = "merge" /\ p' = next'[ListHead]
      /\ UNCHANGED <<count, block_index, free_block_count, fb, want>>
  BY DEF FreeInsert, SInv, TypeOK, Ring
<1>2. fb \in held /\ q < fb /\ count[fb] = 1 /\ block_index[fb] = fb
  BY <1>1 DEF SInv, CursorOK
<1>3. /\ fb \in DataBlocks /\ fb \in Nat /\ fb \notin FreeSet
  BY <1>2, Numbers DEF SInv, TypeOK, NeverFreeAndHeld
<1>4. \A x \in linked :
        /\ x \in DataBlocks /\ x \in Nat /\ x # fb
        /\ block_index[x] = x /\ count[x] \in Nat /\ count[x] > 0
        /\ x + count[x] <= N
  BY ExtentsAreOrdered, Numbers, <1>2
<1>5. \A x, z \in linked : x < z => x + count[x] <= z
  BY ExtentsAreOrdered
<1>6. /\ next \in [Blocks -> Blocks] /\ prev \in [Blocks -> Blocks]
      /\ linked \in SUBSET DataBlocks /\ IsSortedRing(next, prev, linked)
      /\ count \in [Blocks -> 0..N] /\ block_index \in [Blocks -> Blocks]
  BY DEF SInv, TypeOK, SortedRing
<1>7. q \in linked \cup {ListHead} /\ next[q] = p /\ fb < p
  BY <1>1, <1>2, <1>4, <1>6 DEF IsSortedRing
<1>8. fb \in DataBlocks \ linked
  BY <1>3, <1>4
<1>9. /\ next' \in [Blocks -> Blocks] /\ prev' \in [Blocks -> Blocks]
      /\ IsSortedRing(next', prev', linked')
  <2> HIDE DEF q
  <2>1. /\ AddNext(next, fb, q) \in [Blocks -> Blocks]
        /\ AddPrev(next, prev, fb, q) \in [Blocks -> Blocks]
        /\ IsSortedRing(AddNext(next, fb, q), AddPrev(next, prev, fb, q),
                        linked \cup {fb})
    BY <1>2, <1>6, <1>7, <1>8, AddKeepsRing
  <2> QED BY <2>1, <1>1
<1>10. /\ \A x \in linked : x < fb => x + count[x] <= fb
       /\ \A z \in linked : fb < z => fb + 1 <= z
  <2>1. ASSUME NEW x \in linked, x < fb PROVE x + count[x] <= fb
    <3>1. ~(x <= fb /\ fb < x + count[x]) BY <1>3 DEF FreeSet
    <3> QED BY <3>1, <2>1, <1>3, <1>4
  <2> QED BY <2>1, <1>3, <1>4
<1>11. TypeOK'
  <2>1. linked' \subseteq DataBlocks /\ held' \subseteq DataBlocks
    BY <1>1, <1>3, <1>6 DEF SInv, TypeOK
  <2>2. p' \in Ring' BY <1>1, <1>9 DEF IsSortedRing, Ring
  <2> QED BY <2>1, <2>2, <1>1, <1>9 DEF SInv, TypeOK
<1>12. SortedRing' BY <1>9 DEF SortedRing
<1>13. DisjointExtents'
  <2>1. ASSUME NEW x \in linked'
        PROVE  /\ block_index'[x] = x /\ count'[x] > 0 /\ x + count'[x] <= N
               /\ \A z \in linked' : x < z => x + count'[x] <= z
    <3>1. CASE x = fb BY <3>1, <1>1, <1>2, <1>3, <1>4, <1>10, Numbers
    <3>2. CASE x # fb BY <3>2, <1>1, <1>4, <1>5, <1>10
    <3> QED BY <3>1, <3>2
  <2>2. ASSUME NEW x \in linked', next'[x] # ListHead
        PROVE  next'[x] \in linked' /\ x < next'[x]
    BY <2>2, <1>9 DEF IsSortedRing
  <2> QED BY <2>1, <2>2 DEF DisjointExtents
<1>14. FreeSet' = FreeSet \cup {fb}
  <2>1. \A b \in DataBlocks : fb <= b /\ b < fb + count[fb] <=> b = fb
    BY <1>2, <1>3, Numbers
  <2> QED BY <2>1, <1>1, <1>3 DEF FreeSet
<1>15. NeverFreeAndHeld'
  BY <1>1, <1>14 DEF SInv, NeverFreeAndHeld
<1>16. CursorOK' BY <1>1 DEF SInv, CursorOK
<1>17. CounterOK'
  <2>1. IsFiniteSet(held) /\ Cardinality(held) \in Nat
    BY HeldIsFinite DEF SInv
  <2>2. Cardinality(held') = Cardinality(held) - 1
    BY <2>1, <1>1, <1>2, FS_RemoveElement
  <2>3. free_block_count \in Nat /\ free_block_count' = free_block_count
    BY <1>1 DEF SInv, TypeOK
  <2>4. free_block_count + Cardinality(held) <= N
    BY <2>1, <2>3, <1>1 DEF SInv, CounterOK
  <2> QED BY <2>1, <2>2, <2>3, <2>4, <1>1, Numbers DEF CounterOK
<1> QED BY <1>3, <1>11, <1>12, <1>13, <1>14, <1>15, <1>16, <1>17 DEF SInv

\* merge_block keeps SInv and the set of free blocks.
LEMMA MergeKeepsSInv ==
    ASSUME SInv, MergeNext
    PROVE  SInv' /\ FreeSet' = FreeSet
<1> DEFINE q == next[p]
<1>1. /\ pc = "merge" /\ p \in linked /\ block_index[p] + count[p] = block_index[q]
      /\ next' = DelNext(next, prev, q) /\ prev' = DelPrev(next, prev, q)
      /\ count' = [count EXCEPT ![p] = @ + count[q]]
      /\ linked' = linked \ {q} /\ p' = next'[p]
      /\ UNCHANGED <<block_index, free_block_count, pc, fb, want, held>>
  BY DEF MergeNext, SInv, TypeOK, Ring, Adjacent
<1>4. \A x \in linked :
        /\ x \in DataBlocks /\ x \in Blocks /\ x \in Nat
        /\ block_index[x] = x /\ count[x] \in Nat /\ count[x] > 0
        /\ x + count[x] <= N
  BY ExtentsAreOrdered, Numbers
<1>5. \A x, z \in linked : x < z => x + count[x] <= z
  BY ExtentsAreOrdered
<1>6. /\ next \in [Blocks -> Blocks] /\ prev \in [Blocks -> Blocks]
      /\ linked \in SUBSET DataBlocks /\ IsSortedRing(next, prev, linked)
      /\ count \in [Blocks -> 0..N] /\ block_index \in [Blocks -> Blocks]
  BY DEF SInv, TypeOK, SortedRing
<1>7. q \in linked /\ p # q /\ p + count[p] = q /\ p < q
  <2>1. q \in linked \cup {ListHead} BY <1>1, <1>6 DEF IsSortedRing
  <2>2. q # ListHead
    <3>1. block_index[ListHead] = 0 BY DEF SInv, CursorOK
    <3> QED BY <3>1, <1>1, <1>4
  <2> HIDE DEF q
  <2> QED BY <2>1, <2>2, <1>1, <1>4
<1> HIDE DEF q
<1>8. /\ next' \in [Blocks -> Blocks] /\ prev' \in [Blocks -> Blocks]
      /\ IsSortedRing(next', prev', linked')
  BY <1>1, <1>6, <1>7, DelKeepsRing
<1>9. /\ count'[p] = count[p] + count[q]
      /\ p + count'[p] = q + count[q]
      /\ \A x \in linked' \ {p} : count'[x] = count[x] /\ x \in linked /\ x # q
      /\ p \in linked'
  BY <1>1, <1>4, <1>6, <1>7
<1>10. TypeOK'
  <2>1. linked' \subseteq DataBlocks /\ p' \in Ring'
    BY <1>1, <1>6, <1>8, <1>9 DEF IsSortedRing, Ring
  <2>2. count' \in [Blocks -> 0..N]
    <3>1. count[p] + count[q] \in 0..N
      BY <1>9, <1>1, <1>4, <1>7, Numbers
    <3> QED BY <3>1, <1>1, <1>6
  <2> QED BY <2>1, <2>2, <1>1, <1>8 DEF SInv, TypeOK
<1>11. SortedRing' BY <1>8 DEF SortedRing
<1>12. DisjointExtents'
  <2>1. ASSUME NEW x \in linked'
        PROVE  /\ block_index'[x] = x /\ count'[x] > 0 /\ x + count'[x] <= N
               /\ \A z \in linked' : x < z => x + count'[x] <= z
    <3>1. CASE x = p
      <4>1. block_index'[x] = x /\ count'[x] > 0 /\ x + count'[x] <= N
        BY <3>1, <1>1, <1>4, <1>7, <1>9
      <4>2. ASSUME NEW z \in linked', p < z PROVE q + count[q] <= z
        <5>1. z \in linked /\ z # q /\ z # p /\ z \in Nat
          BY <4>2, <1>1, <1>4
        <5>2. q < z BY <5>1, <4>2, <1>1, <1>4, <1>5, <1>7
        <5> QED BY <5>1, <5>2, <1>5, <1>7
      <4> QED BY <3>1, <4>1, <4>2, <1>9
    <3>2. CASE x # p
      BY <3>2, <1>1, <1>4, <1>5, <1>9
    <3> QED BY <3>1, <3>2
  <2>2. ASSUME NEW x \in linked', next'[x] # ListHead
        PROVE  next'[x] \in linked' /\ x < next'[x]
    BY <2>2, <1>8 DEF IsSortedRing
  <2> QED BY <2>1, <2>2 DEF DisjointExtents
<1>13. FreeSet' = FreeSet
  <2>1. \A b \in DataBlocks :
          p <= b /\ b < p + count'[p] <=>
             (p <= b /\ b < p + count[p]) \/ (q <= b /\ b < q + count[q])
    BY <1>1, <1>4, <1>7, <1>9, Numbers
  <2>2. linked = (linked' \ {p}) \cup {p, q} BY <1>1, <1>7, <1>9
  <2> QED BY <2>1, <2>2, <1>9 DEF FreeSet
<1>14. NeverFreeAndHeld' BY <1>1, <1>13 DEF SInv, NeverFreeAndHeld
<1>15. CursorOK' BY <1>1 DEF SInv, CursorOK
<1>16. CounterOK' BY <1>1 DEF SInv, CounterOK
<1> QED BY <1>10, <1>11, <1>12, <1>13, <1>14, <1>15, <1>16 DEF SInv

\* The steps that leave the list as it is: calls, cursor moves and returns.
Quiet == \/ \E n \in Sizes : AllocateCall(n)
         \/ \E b \in held : FreeCall(b)
         \/ AllocateSkip \/ AllocateMiss \/ FreeSkip \/ FreeLost
         \/ MergeSkip \/ FreeReturn \/ UNCHANGED vars

\* Steps that write no list pointer keep the structure: calls, cursor moves,
\* the failing allocation, the lost block and the return of free_block.
LEMMA QuietKeepsSInv ==
    ASSUME SInv, Quiet
    PROVE  SInv' /\ FreeSet' = FreeSet
<1>1. /\ \A x \in Ring : next[x] \in Ring
      /\ IsSortedRing(next, prev, linked) /\ ListHead \in Ring
      /\ \A x \in linked : x \in DataBlocks /\ x \notin held
      /\ block_index[ListHead] = 0 /\ N \in Nat
  BY ExtentsAreOrdered, Numbers
     DEF SInv, SortedRing, IsSortedRing, Ring, CursorOK
\* The list and everything said of it is as before.
<1>2. ASSUME UNCHANGED <<next, prev, linked>>,
             \A x \in linked : /\ count'[x] = count[x]
                               /\ block_index'[x] = block_index[x],
             held' \subseteq held, TypeOK', CursorOK', CounterOK'
      PROVE  SInv' /\ FreeSet' = FreeSet
  <2>1. SortedRing' BY <1>2 DEF SInv, SortedRing
  <2>2. DisjointExtents' BY <1>2 DEF SInv, DisjointExtents
  <2>3. FreeSet' = FreeSet BY <1>2 DEF FreeSet
  <2>4. NeverFreeAndHeld' BY <2>3, <1>2 DEF SInv, NeverFreeAndHeld
  <2> QED BY <2>1, <2>2, <2>3, <2>4, <1>2 DEF SInv
<1>3. ASSUME NEW n \in Sizes, AllocateCall(n) PROVE SInv' /\ FreeSet' = FreeSet
  <2>1. TypeOK' BY <1>1, <1>3 DEF AllocateCall, SInv, TypeOK, Ring, listVars
  <2>2. CursorOK' BY <1>3 DEF AllocateCall, SInv, CursorOK, listVars
  <2>3. CounterOK' BY <1>3 DEF AllocateCall, SInv, CounterOK
  <2> QED BY <2>1, <2>2, <2>3, <1>2, <1>3 DEF AllocateCall, listVars
<1>4. ASSUME NEW b \in held, FreeCall(b) PROVE SInv' /\ FreeSet' = FreeSet
  <2>1. b \in DataBlocks /\ b \in Blocks /\ b # ListHead /\ b > 0
    BY Numbers DEF SInv, TypeOK
  <2>2. TypeOK'
    BY <2>1, <1>1, <1>4 DEF FreeCall, SInv, TypeOK, Ring
  <2>3. count'[b] = 1 /\ block_index'[b] = b /\ block_index'[ListHead] = 0
    BY <2>1, <1>1, <1>4, Numbers DEF FreeCall, SInv, TypeOK
  <2>4. prev[next[ListHead]] = ListHead
    BY <1>1 DEF IsSortedRing, Ring
  <2>5. CursorOK'
    BY <2>1, <2>3, <2>4, <1>4 DEF FreeCall, CursorOK, ListHead
  <2>6. CounterOK' BY <1>4 DEF FreeCall, SInv, CounterOK
  <2>7. \A x \in linked : /\ count'[x] = count[x]
                          /\ block_index'[x] = block_index[x]
    BY <1>1, <1>4 DEF FreeCall, SInv, TypeOK
  <2> QED BY <2>2, <2>5, <2>6, <2>7, <1>2, <1>4 DEF FreeCall
<1>5. CASE AllocateSkip
  <2>1. TypeOK' BY <1>1, <1>5 DEF AllocateSkip, SInv, TypeOK, Ring, listVars
  <2>2. CursorOK' BY <1>5 DEF AllocateSkip, SInv, CursorOK, listVars
  <2>3. CounterOK' BY <1>5 DEF AllocateSkip, SInv, CounterOK
  <2> QED BY <2>1, <2>2, <2>3, <1>2, <1>5 DEF AllocateSkip, listVars
<1>6. CASE AllocateMiss
  <2>1. /\ want \in Nat /\ free_block_count' = free_block_count - want
        /\ free_block_count' \in 0..N /\ free_block_count \in Nat
    <3>1. want \in Sizes /\ free_block_count >= want + 1
      BY <1>6 DEF AllocateMiss, SInv, CursorOK
    <3>2. want \in Nat BY <3>1
    <3>3. free_block_count \in 0..N BY DEF SInv, TypeOK
    <3> QED BY <3>1, <3>2, <3>3, <1>1, <1>6 DEF AllocateMiss
  <2>2. TypeOK'
    BY <2>1, <1>1, <1>6, Numbers
       DEF AllocateMiss, Return, SInv, TypeOK, Ring, listVars
  <2>3. CursorOK' BY <1>6 DEF AllocateMiss, Return, SInv, CursorOK, listVars
  <2>4. CounterOK'
    BY <2>1, <1>1, <1>6, HeldIsFinite DEF AllocateMiss, Return, SInv, CounterOK
  <2> QED BY <2>2, <2>3, <2>4, <1>2, <1>6 DEF AllocateMiss, listVars
<1>7. CASE FreeSkip
  <2>1. TypeOK' BY <1>1, <1>7 DEF FreeSkip, SInv, TypeOK, Ring, listVars
  <2>2. prev[next[p]] = p /\ p \in linked
    BY <1>1, <1>7 DEF FreeSkip, SInv, TypeOK, IsSortedRing, Ring
  <2>3. p < fb
    <3>1. fb \in held /\ block_index[fb] = fb /\ block_index[p] = p
      BY <2>2, <1>7, ExtentsAreOrdered DEF FreeSkip, SInv, CursorOK
    <3>2. p <= fb /\ p # fb BY <3>1, <2>2, <1>1, <1>7 DEF FreeSkip
    <3>3. p \in Nat /\ fb \in Nat
      BY <3>1, <2>2, <1>1, Numbers DEF SInv, TypeOK
    <3> QED BY <3>2, <3>3
  <2>4. CursorOK' BY <2>2, <2>3, <1>7 DEF FreeSkip, SInv, CursorOK, listVars
  <2>5. CounterOK' BY <1>7 DEF FreeSkip, SInv, CounterOK
  <2> QED BY <2>1, <2>4, <2>5, <1>2, <1>7 DEF FreeSkip, listVars
<1>8. CASE FreeLost
  <2>1. TypeOK' BY <1>1, <1>8 DEF FreeLost, SInv, TypeOK, Ring, listVars
  <2>2. CursorOK' BY <1>8 DEF FreeLost, SInv, CursorOK, listVars
  <2>3. fb \in held /\ IsFiniteSet(held) /\ Cardinality(held) \in Nat
    BY <1>8, HeldIsFinite DEF FreeLost, SInv, CursorOK
  <2>4. Cardinality(held') = Cardinality(held) - 1
    BY <2>3, <1>8, FS_RemoveElement DEF FreeLost
  <2>5. CounterOK'
    <3>1. free_block_count \in Nat BY DEF SInv, TypeOK
    <3> QED BY <3>1, <2>3, <2>4, <1>1, <1>8 DEF FreeLost, SInv, CounterOK
  <2> QED BY <2>1, <2>2, <2>5, <1>2, <1>8 DEF FreeLost, listVars
<1>9. CASE MergeSkip
  <2>1. TypeOK' BY <1>1, <1>9 DEF MergeSkip, SInv, TypeOK, Ring, listVars
  <2>2. CursorOK' BY <1>9 DEF MergeSkip, SInv, CursorOK, listVars
  <2>3. CounterOK' BY <1>9 DEF MergeSkip, SInv, CounterOK
  <2> QED BY <2>1, <2>2, <2>3, <1>2, <1>9 DEF MergeSkip, listVars
<1>10. CASE FreeReturn
  <2>1. /\ Cardinality(held) \in Nat /\ free_block_count \in Nat
        /\ free_block_count + Cardinality(held) + 1 <= N
        /\ free_block_count' = free_block_count + 1
    BY <1>10, HeldIsFinite DEF FreeReturn, SInv, TypeOK, CounterOK
  <2>2. free_block_count' \in 0..N BY <2>1, <1>1
  <2>3. TypeOK'
    BY <2>2, <1>1, <1>10, Numbers DEF FreeReturn, Return, SInv, TypeOK, Ring, listVars
  <2>4. CursorOK' BY <1>10 DEF FreeReturn, Return, SInv, CursorOK, listVars
  <2>5. CounterOK'
    BY <2>1, <1>1, <1>10 DEF FreeReturn, Return, CounterOK
  <2> QED BY <2>3, <2>4, <2>5, <1>2, <1>10 DEF FreeReturn, listVars
<1>11. CASE UNCHANGED vars
  <2>1. TypeOK' BY <1>11 DEF vars, SInv, TypeOK, Ring
  <2>2. CursorOK' BY <1>11 DEF vars, SInv, CursorOK
  <2>3. CounterOK' BY <1>11 DEF vars, SInv, CounterOK
  <2> QED BY <2>1, <2>2, <2>3, <1>2, <1>11 DEF vars
<1> QED BY <1>3, <1>4, <1>5, <1>6, <1>7, <1>8, <1>9, <1>10, <1>11 DEF Quiet

\* The structural invariant holds initially ...
LEMMA InitEstablishesSInv == Init => SInv
<1> SUFFICES ASSUME Init PROVE SInv
  OBVIOUS
<1>1. /\ FirstData \in Blocks /\ FirstData \in DataBlocks /\ FirstData > 0
      /\ N - FirstData \in 0..N /\ 0 \in 0..N /\ N - FirstData > 0
      /\ FirstData \in Nat /\ N \in Nat /\ ListHead \in Blocks
      /\ ListHead # FirstData /\ ListHead = 0
  BY Numbers
<1>2. /\ linked = {FirstData} /\ held = {} /\ pc = "idle" /\ p = ListHead
      /\ fb = ListHead /\ want = 0 /\ free_block_count = N - FirstData
      /\ next[ListHead] = FirstData /\ next[FirstData] = ListHead
      /\ prev[ListHead] = FirstData /\ prev[FirstData] = ListHead
      /\ count[FirstData] = N - FirstData
      /\ block_index[FirstData] = FirstData /\ block_index[ListHead] = 0
  BY <1>1 DEF Init
<1>3. TypeOK BY <1>1 DEF Init, TypeOK, Ring
<1>4. SortedRing BY <1>1, <1>2 DEF SortedRing, IsSortedRing
<1>5. DisjointExtents BY <1>1, <1>2 DEF DisjointExtents
<1>6. NeverFreeAndHeld BY <1>2 DEF NeverFreeAndHeld
<1>7. CursorOK BY <1>2 DEF CursorOK
<1>8. CounterOK BY <1>1, <1>2, FS_EmptySet DEF CounterOK
<1> QED BY <1>3, <1>4, <1>5, <1>6, <1>7, <1>8 DEF SInv

\* ... and is kept by every step.
LEMMA NextKeepsSInv == SInv /\ [Next]_vars => SInv'
<1> SUFFICES ASSUME SInv, [Next]_vars PROVE SInv'
  OBVIOUS
<1>1. AllocateExact \/ AllocateSplit \/ FreeInsert \/ MergeNext \/ Quiet
  BY DEF Next, Step, Quiet
<1> QED BY <1>1, AllocateKeepsSInv, InsertKeepsSInv, MergeKeepsSInv, QuietKeepsSInv

\* Whatever calls are made and wherever their loops stand, the list of block.c is
\* a sorted ring of disjoint extents, and the cursor and the block being freed
\* are where the loop conditions put them.
THEOREM StructureInvariant == Spec => []SInv
BY InitEstablishesSInv, NextKeepsSInv, PTL DEF Spec

\* The state of block.c is typed at every step, and its counter in range.
THEOREM TypeCorrect == Spec => []TypeOK
<1>1. SInv => TypeOK BY DEF SInv
<1> QED BY <1>1, StructureInvariant, PTL

\* Whatever sizes are asked for and in whatever order blocks come back, every
\* walk over the list meets each node once, in ascending order.
THEOREM RingIsSorted == Spec => []SortedRing
<1>1. SInv => SortedRing BY DEF SInv
<1> QED BY <1>1, StructureInvariant, PTL

\* No block is described by two extents.
THEOREM ExtentsAreDisjoint == Spec => []DisjointExtents
<1>1. SInv => DisjointExtents BY DEF SInv
<1> QED BY <1>1, StructureInvariant, PTL

\* allocate_block never hands out a block that is still held.
THEOREM NoDoubleUse == Spec => []NeverFreeAndHeld
<1>1. SInv => NeverFreeAndHeld BY DEF SInv
<1> QED BY <1>1, StructureInvariant, PTL

-----------------------------------------------------------------------------
(***************************************************************************)
(* Free extents stay merged up to one seam.                                *)
(*                                                                         *)
(* free_block links the freed block, which may create two seams, one on    *)
(* each side, next to the one an earlier call may have left.  Its merge    *)
(* pass moves on after every merge and so does not compare the merged node *)
(* with its new neighbour.  Yet the seam it skips is always one that it    *)
(* has just removed the partner of: charging 2 for a seam the pass has     *)
(* left behind and 1 for a seam still ahead, the pass never pays more than *)
(* the 3 it starts with, so at its end at most one seam is left.           *)
(***************************************************************************)
Behind == {y \in Seams : p = ListHead \/ y <= p}
Ahead == Seams \ Behind

SeamBudget ==
    /\ pc # "merge" => Cardinality(Seams) <= 1
    /\ pc = "merge" => 2 * Cardinality(Behind) + Cardinality(Ahead) <= 3

\* The seams are finitely many, and behind or ahead of the cursor.
LEMMA SeamsAreFinite ==
    ASSUME linked \subseteq DataBlocks
    PROVE  /\ IsFiniteSet(Seams) /\ Cardinality(Seams) \in Nat
           /\ IsFiniteSet(Behind) /\ Cardinality(Behind) \in Nat
           /\ IsFiniteSet(Ahead) /\ Cardinality(Ahead) \in Nat
<1>1. IsFiniteSet(DataBlocks)
  BY DataBlocksAreFinite
<1>2. Seams \subseteq DataBlocks /\ Behind \subseteq Seams /\ Ahead \subseteq Seams
  BY DEF Seams, Behind, Ahead
<1>3. IsFiniteSet(Seams) BY <1>1, <1>2, FS_Subset
<1>4. IsFiniteSet(Behind) /\ IsFiniteSet(Ahead) BY <1>2, <1>3, FS_Subset
<1> QED BY <1>3, <1>4, FS_CardinalityType

\* A seam lies behind the extent it touches.
LEMMA SeamFollows ==
    ASSUME SInv, NEW y \in Seams
    PROVE  /\ y \in linked /\ y \in Nat
           /\ next[ListHead] # ListHead /\ next[ListHead] < y
           /\ \E x \in linked : x \in Nat /\ x + count[x] = y /\ x < y
<1>1. PICK x \in linked : x + count[x] = y BY DEF Seams
<1>2. y \in linked BY DEF Seams
<1>3. x \in Nat /\ y \in Nat /\ count[x] \in Nat /\ count[x] > 0
  BY <1>1, <1>2, ExtentsAreOrdered, Numbers
<1>4. x < y BY <1>1, <1>3
<1>5. ListHead < x BY <1>1, ExtentsAreOrdered, Numbers
<1>6. next[ListHead] # ListHead /\ next[ListHead] <= x
  BY <1>1, <1>5 DEF SInv, SortedRing, IsSortedRing
<1>7. next[ListHead] \in Nat
  BY <1>6, ExtentsAreOrdered, Numbers DEF SInv, SortedRing, IsSortedRing
<1> QED BY <1>1, <1>2, <1>3, <1>4, <1>6, <1>7

\* No step that shrinks the set of seams between walks breaks the budget.
LEMMA FewerSeams ==
    ASSUME SInv, SInv', Seams' \subseteq Seams, pc # "merge", pc' # "merge", SeamBudget
    PROVE  SeamBudget'
<1>1. linked \subseteq DataBlocks /\ linked' \subseteq DataBlocks
  BY DEF SInv, TypeOK
<1>2. IsFiniteSet(Seams) /\ Cardinality(Seams) \in Nat
  BY <1>1, SeamsAreFinite
<1>3. IsFiniteSet(Seams') /\ Cardinality(Seams') <= Cardinality(Seams)
  BY <1>2, FS_Subset
<1>4. Cardinality(Seams') \in Nat BY <1>3, FS_CardinalityType
<1> QED BY <1>2, <1>3, <1>4 DEF SeamBudget

\* An allocation makes no new pair of touching extents.
LEMMA AllocateKeepsBudget ==
    ASSUME SInv, SInv', SeamBudget, AllocateExact \/ AllocateSplit
    PROVE  SeamBudget'
<1>1. pc = "find" /\ pc' = "idle" /\ p \in linked /\ want \in Nat /\ want > 0
      /\ want <= count[p] /\ count[p] \in Nat /\ p \in Nat /\ p + count[p] <= N
  BY FoundExtent, ExtentsAreOrdered, Numbers DEF AllocateExact, AllocateSplit
<1>2. CASE AllocateExact
  <2>1. linked' = linked \ {p} /\ count' = count BY <1>2 DEF AllocateExact
  <2>2. Seams' \subseteq Seams BY <2>1 DEF Seams
  <2> QED BY <2>2, <1>1, FewerSeams
<1>3. CASE AllocateSplit
  <2> DEFINE new == p + want
  <2>1. /\ linked' = (linked \ {p}) \cup {new} /\ count[p] > want
        /\ count' = [count EXCEPT ![p] = @ - want, ![new] = count[p] - want]
    BY <1>3 DEF AllocateSplit
  <2>2. /\ new \in Blocks /\ new \in Nat /\ p < new /\ new < p + count[p]
    BY <2>1, <1>1, Numbers, ExtentsAreOrdered DEF Blocks
  <2>3. count \in [Blocks -> 0..N] /\ \A x \in linked : x \in Blocks
    BY ExtentsAreOrdered, Numbers DEF SInv, TypeOK
  <2>4. new + count'[new] = p + count[p] /\ p # new
    BY <2>1, <2>2, <2>3, <1>1
  <2>5. \A x \in linked \ {p} : x # new => count'[x] = count[x]
    BY <2>1, <2>3
  <2>6. \A x \in linked \ {p} : x # new /\ x + count[x] # new
    <3>1. SUFFICES ASSUME NEW x \in linked \ {p} PROVE x # new /\ x + count[x] # new
      OBVIOUS
    <3>2. x \in Nat /\ count[x] \in Nat /\ count[x] > 0
      BY ExtentsAreOrdered, Numbers
    <3>3. (x < p /\ x + count[x] <= p) \/ p + count[p] <= x
      BY <3>2, <1>1, ExtentsAreOrdered
    <3> HIDE DEF new
    <3> QED BY <3>2, <3>3, <2>2, <1>1
  <2>7. new \notin Seams'
    <3>1. new + count'[new] # new BY <2>4, <2>2, <1>1
    <3> QED BY <3>1, <2>1, <2>5, <2>6 DEF Seams
  <2>8. Seams' \subseteq Seams
    <3> HIDE DEF new
    <3>1. SUFFICES ASSUME NEW y \in Seams' PROVE y \in Seams
      OBVIOUS
    <3>2. y \in linked BY <2>1, <2>7 DEF Seams
    <3>3. PICK x \in linked' : x + count'[x] = y BY DEF Seams
    <3>4. CASE x = new BY <3>2, <3>3, <3>4, <2>4, <1>1 DEF Seams
    <3>5. CASE x # new BY <3>2, <3>3, <3>5, <2>1, <2>5 DEF Seams
    <3> QED BY <3>4, <3>5
  <2> QED BY <2>8, <1>1, FewerSeams
<1> QED BY <1>2, <1>3

\* Linking the freed block makes two seams at most, both ahead of the pass.
LEMMA InsertKeepsBudget ==
    ASSUME SInv, SInv', SeamBudget, FreeInsert
    PROVE  SeamBudget'
<1>1. /\ pc = "scan" /\ pc' = "merge" /\ p \in linked /\ p' = next'[ListHead]
      /\ linked' = linked \cup {fb} /\ count' = count /\ count[fb] = 1
  BY DEF FreeInsert, SInv, TypeOK, Ring, CursorOK
<1>2. Seams' \subseteq Seams \cup {fb, p}
  <2>1. SUFFICES ASSUME NEW y \in linked, fb + 1 = y PROVE y = p \/ y \in Seams
    BY <1>1 DEF Seams
  <2>2. block_index[p] > block_index[fb] /\ block_index[fb] = fb
        /\ block_index[p] = p /\ prev[p] < fb /\ p \in Nat
    BY <1>1, ExtentsAreOrdered, Numbers DEF FreeInsert, SInv, CursorOK
  <2>3. y \in Nat /\ fb \in Nat /\ p <= y
    <3>1. y \in Nat /\ fb \in Nat
      BY <1>1, ExtentsAreOrdered, Numbers DEF FreeInsert, SInv, CursorOK, TypeOK
    <3>2. prev[p] \in Ring /\ next[prev[p]] = p /\ prev[p] \in Nat
      BY <1>1, Numbers, ExtentsAreOrdered DEF SInv, SortedRing, IsSortedRing, Ring
    <3>3. prev[p] < y BY <3>1, <3>2, <2>1, <2>2
    <3> QED BY <3>1, <3>2, <3>3, <2>1 DEF SInv, SortedRing, IsSortedRing, Ring
  <2>4. y <= p BY <2>1, <2>2, <2>3
  <2> QED BY <2>2, <2>3, <2>4
<1>3. /\ IsFiniteSet(Seams) /\ Cardinality(Seams) \in Nat
      /\ IsFiniteSet(Ahead') /\ Cardinality(Ahead') \in Nat
      /\ Cardinality(Seams) <= 1
  <2>1. linked \subseteq DataBlocks /\ linked' \subseteq DataBlocks
    BY DEF SInv, TypeOK
  <2>2. IsFiniteSet(Seams) /\ Cardinality(Seams) \in Nat BY <2>1, SeamsAreFinite
  <2>3. /\ IsFiniteSet(Seams \cup {fb, p})
    <3>1. Seams \cup {fb, p} = (Seams \cup {fb}) \cup {p} OBVIOUS
    <3> QED BY <3>1, <2>2, FS_AddElement
  <2>4. IsFiniteSet(Ahead') BY <2>3, <1>2, FS_Subset DEF Ahead
  <2> QED BY <2>2, <2>4, <1>1, FS_CardinalityType DEF SeamBudget
<1>4. Cardinality(Ahead') <= 3
  <2>1. Ahead' \subseteq (Seams \cup {fb}) \cup {p} BY <1>2 DEF Ahead
  <2>2. /\ IsFiniteSet(Seams \cup {fb})
        /\ Cardinality(Seams \cup {fb}) <= Cardinality(Seams) + 1
        /\ Cardinality(Seams \cup {fb}) \in Nat
    <3>1. /\ IsFiniteSet(Seams \cup {fb})
          /\ Cardinality(Seams \cup {fb}) =
               IF fb \in Seams THEN Cardinality(Seams) ELSE Cardinality(Seams) + 1
      BY <1>3, FS_AddElement
    <3> QED BY <3>1, <1>3
  <2>3. /\ IsFiniteSet((Seams \cup {fb}) \cup {p})
        /\ Cardinality((Seams \cup {fb}) \cup {p}) <= Cardinality(Seams \cup {fb}) + 1
        /\ Cardinality((Seams \cup {fb}) \cup {p}) \in Nat
    <3> DEFINE S == Seams \cup {fb}
    <3>0. IsFiniteSet(S) /\ Cardinality(S) \in Nat BY <2>2
    <3> HIDE DEF S
    <3>1. /\ IsFiniteSet(S \cup {p})
          /\ Cardinality(S \cup {p}) =
               IF p \in S THEN Cardinality(S) ELSE Cardinality(S) + 1
      BY <3>0, FS_AddElement
    <3>2. /\ IsFiniteSet(S \cup {p}) /\ Cardinality(S \cup {p}) <= Cardinality(S) + 1
          /\ Cardinality(S \cup {p}) \in Nat
      BY <3>0, <3>1
    <3> QED BY <3>2 DEF S
  <2>4. Cardinality(Ahead') <= Cardinality((Seams \cup {fb}) \cup {p})
    BY <2>1, <2>3, FS_Subset
  <2> QED BY <2>2, <2>3, <2>4, <1>3
<1>5. Behind' = {}
  <2>1. SUFFICES ASSUME NEW y \in Seams' PROVE p' # ListHead /\ ~(y <= p')
    BY DEF Behind
  <2>2. PICK x \in linked' : x + count'[x] = y BY DEF Seams
  <2>3. x \in Nat /\ count'[x] \in Nat /\ count'[x] > 0 /\ ListHead < x
    BY <2>2, Numbers DEF SInv, TypeOK, DisjointExtents
  <2>4. p' # ListHead /\ p' <= x
    BY <2>2, <2>3, <1>1 DEF SInv, SortedRing, IsSortedRing
  <2>5. p' \in Nat BY <2>4, Numbers DEF SInv, TypeOK, Ring
  <2> QED BY <2>2, <2>3, <2>4, <2>5
<1>6. Cardinality(Behind') = 0 BY <1>5, FS_EmptySet
<1> QED BY <1>1, <1>3, <1>4, <1>6 DEF SeamBudget

\* The merge pass keeps the budget: a seam it leaves behind is paid for by the
\* two that it removes from what lies ahead.
LEMMA MergeKeepsBudget ==
    ASSUME SInv, SInv', SeamBudget, MergeNext
    PROVE  SeamBudget'
<1> DEFINE q == next[p]
           r == p'
<1>1. /\ pc = "merge" /\ pc' = "merge" /\ p \in linked
      /\ block_index[p] + count[p] = block_index[q]
      /\ linked' = linked \ {q} /\ r = next'[p]
      /\ count' = [count EXCEPT ![p] = @ + count[q]]
  BY DEF MergeNext, SInv, TypeOK, Ring, Adjacent
<1>2. q \in linked
  <2>1. q \in Ring BY <1>1 DEF SInv, SortedRing, IsSortedRing, Ring
  <2>2. q # ListHead
    <3>1. block_index[ListHead] = 0 BY DEF SInv, CursorOK
    <3> QED BY <3>1, <1>1, ExtentsAreOrdered, Numbers
  <2> QED BY <2>1, <2>2 DEF Ring
<1>3. /\ p \in Nat /\ q \in Nat /\ count[p] \in Nat /\ count[q] \in Nat
      /\ count[p] > 0 /\ count[q] > 0 /\ p + count[p] = q /\ p < q
  BY <1>1, <1>2, ExtentsAreOrdered, Numbers
<1> HIDE DEF q
<1>4. Seams' \subseteq Seams \ {q}
  <2>1. SUFFICES ASSUME NEW y \in Seams' PROVE y \in Seams \ {q}
    OBVIOUS
  <2>2. y \in linked /\ y # q BY <1>1 DEF Seams
  <2>3. PICK x \in linked' : x + count'[x] = y BY DEF Seams
  <2>4. count \in [Blocks -> 0..N] /\ p \in Blocks /\ x \in Blocks
    BY <2>3, <1>1, ExtentsAreOrdered, Numbers DEF SInv, TypeOK
  <2>5. CASE x = p
    <3>1. q + count[q] = y BY <2>3, <2>4, <2>5, <1>1, <1>3
    <3> QED BY <3>1, <2>2, <1>2 DEF Seams
  <2>6. CASE x # p BY <2>2, <2>3, <2>4, <2>6, <1>1 DEF Seams
  <2> QED BY <2>5, <2>6
<1>5. q \in Ahead
  <2>1. q \in Seams BY <1>1, <1>2, <1>3 DEF Seams
  <2> QED BY <2>1, <1>1, <1>3, Numbers, ExtentsAreOrdered DEF Ahead, Behind
<1>6. p \in linked' /\ p # ListHead BY <1>1, <1>3, ExtentsAreOrdered, Numbers
<1>7. \A z \in linked' : /\ z \in Nat
                         /\ p < z => r # ListHead /\ r <= z
  BY <1>1, <1>6, Numbers DEF SInv, TypeOK, SortedRing, IsSortedRing
<1>8. r # ListHead => r \in Nat /\ p < r
  BY <1>1, <1>6, Numbers DEF SInv, TypeOK, Ring, SortedRing, IsSortedRing
<1>9. Behind' \subseteq Behind \cup {r}
  <2>1. SUFFICES ASSUME NEW y \in Behind', y # r PROVE y \in Behind
    OBVIOUS
  <2>2. y \in Seams' /\ y \in linked' /\ y \in Seams
    BY <1>4 DEF Behind, Seams
  <2>3. y \in Nat BY <2>2, <1>7
  <2>4. y <= p
    <3>1. SUFFICES ASSUME p < y PROVE FALSE BY <2>3, <1>3
    <3>2. r # ListHead /\ r <= y /\ r \in Nat BY <3>1, <2>2, <1>7, <1>8
    <3>3. y <= r BY <3>2 DEF Behind
    <3> QED BY <3>2, <3>3, <2>1, <2>3
  <2> QED BY <2>2, <2>4 DEF Behind
<1>10. Ahead' \subseteq Ahead \ {q, r}
  <2>1. SUFFICES ASSUME NEW y \in Ahead' PROVE y \in Ahead /\ y # q /\ y # r
    OBVIOUS
  <2>2. /\ y \in Seams' /\ r # ListHead /\ ~(y <= r) /\ y \in linked'
        /\ y \in Seams /\ y # q
    BY <1>4 DEF Ahead, Behind, Seams
  <2>3. y \in Nat /\ r \in Nat /\ p < r BY <2>2, <1>7, <1>8
  <2>4. ~(y <= p) /\ y # r BY <2>2, <2>3, <1>3
  <2> QED BY <2>2, <2>4, <1>6 DEF Ahead, Behind
<1>11. r \in Behind' => r \in Ahead /\ r # q
  <2>1. SUFFICES ASSUME r \in Behind' PROVE r \in Ahead /\ r # q
    OBVIOUS
  <2>2. r \in Seams' /\ r \in linked' BY <2>1 DEF Behind, Seams
  <2>3. r # ListHead BY <2>2, Numbers DEF SInv, TypeOK
  <2>4. r \in Seams /\ r # q BY <2>2, <1>4
  <2>5. ~(r <= p) BY <2>3, <1>3, <1>8
  <2> QED BY <2>4, <2>5, <1>6 DEF Ahead, Behind
<1>12. /\ IsFiniteSet(Behind) /\ Cardinality(Behind) \in Nat
       /\ IsFiniteSet(Ahead) /\ Cardinality(Ahead) \in Nat
  <2>1. linked \subseteq DataBlocks BY DEF SInv, TypeOK
  <2> QED BY <2>1, SeamsAreFinite
<1>13. /\ IsFiniteSet(Behind') /\ IsFiniteSet(Ahead')
       /\ Cardinality(Behind') \in Nat /\ Cardinality(Ahead') \in Nat
  <2>1. IsFiniteSet(Behind \cup {r}) BY <1>12, FS_AddElement
  <2>2. IsFiniteSet(Behind') BY <2>1, <1>9, FS_Subset
  <2>3. IsFiniteSet(Ahead') BY <1>10, <1>12, FS_Subset
  <2> QED BY <2>2, <2>3, FS_CardinalityType
<1>14. 2 * Cardinality(Behind) + Cardinality(Ahead) <= 3
  BY <1>1 DEF SeamBudget
<1>15. 2 * Cardinality(Behind') + Cardinality(Ahead') <= 3
  <2>1. CASE r \in Behind'
    <3>1. Cardinality(Behind') <= Cardinality(Behind) + 1
      <4> DEFINE B == Behind
      <4>1. /\ IsFiniteSet(Behind \cup {r}) /\ Cardinality(Behind \cup {r}) =
                 IF r \in Behind THEN Cardinality(Behind) ELSE Cardinality(Behind) + 1
        BY <1>12, FS_AddElement
      <4>2. Cardinality(Behind') <= Cardinality(Behind \cup {r})
        BY <4>1, <1>9, FS_Subset
      <4> QED BY <4>1, <4>2, <1>12, <1>13
    <3>2. Cardinality(Ahead') <= Cardinality(Ahead) - 2
      <4>1. /\ IsFiniteSet(Ahead \ {q}) /\ Cardinality(Ahead \ {q}) = Cardinality(Ahead) - 1
        BY <1>5, <1>12, FS_RemoveElement
      <4>2. r \in Ahead \ {q} BY <2>1, <1>11
      <4>3. /\ IsFiniteSet((Ahead \ {q}) \ {r})
            /\ Cardinality((Ahead \ {q}) \ {r}) = Cardinality(Ahead \ {q}) - 1
        BY <4>1, <4>2, FS_RemoveElement
      <4>4. Ahead' \subseteq (Ahead \ {q}) \ {r} BY <1>10
      <4>5. Cardinality(Ahead') <= Cardinality((Ahead \ {q}) \ {r})
        BY <4>3, <4>4, FS_Subset
      <4> QED BY <4>1, <4>3, <4>5, <1>12, <1>13
    <3> QED BY <3>1, <3>2, <1>12, <1>13, <1>14
  <2>2. CASE r \notin Behind'
    <3>1. Behind' \subseteq Behind BY <2>2, <1>9
    <3>2. Cardinality(Behind') <= Cardinality(Behind) BY <3>1, <1>12, FS_Subset
    <3>3. Cardinality(Ahead') <= Cardinality(Ahead) BY <1>10, <1>12, FS_Subset
    <3> QED BY <3>2, <3>3, <1>12, <1>13, <1>14
  <2> QED BY <2>1, <2>2
<1> QED BY <1>1, <1>15 DEF SeamBudget

\* Walking on over extents that do not touch, and returning, keep it as well.
LEMMA QuietKeepsBudget ==
    ASSUME SInv, SInv', SeamBudget, Quiet
    PROVE  SeamBudget'
<1>1. /\ linked' = linked
      /\ \A x \in linked : count'[x] = count[x]
  <2>1. CASE \E b \in held : FreeCall(b)
    <3>1. \A x \in linked : x \notin held BY ExtentsAreOrdered
    <3> QED BY <2>1, <3>1 DEF FreeCall, SInv, TypeOK
  <2>2. CASE ~ \E b \in held : FreeCall(b)
    BY <2>2 DEF Quiet, AllocateCall, AllocateSkip, AllocateMiss, FreeSkip,
                FreeLost, MergeSkip, FreeReturn, listVars, vars
  <2> QED BY <2>1, <2>2
<1>2. Seams' = Seams BY <1>1 DEF Seams
<1>3. /\ IsFiniteSet(Seams) /\ Cardinality(Seams) \in Nat
      /\ IsFiniteSet(Behind) /\ Cardinality(Behind) \in Nat
      /\ IsFiniteSet(Ahead) /\ Cardinality(Ahead) \in Nat
  <2>1. linked \subseteq DataBlocks BY DEF SInv, TypeOK
  <2> QED BY <2>1, SeamsAreFinite
<1>4. CASE pc # "merge" /\ pc' # "merge"
  BY <1>4, <1>2, FewerSeams
<1>5. CASE FreeLost
  <2>1. pc = "scan" /\ pc' = "merge" /\ p' = next[ListHead]
    BY <1>5 DEF FreeLost
  <2>2. Behind' = {}
    <3>1. SUFFICES ASSUME NEW y \in Seams PROVE p' # ListHead /\ ~(y <= p')
      BY <1>2 DEF Behind
    <3>2. next[ListHead] # ListHead /\ next[ListHead] < y /\ y \in Nat
      BY SeamFollows
    <3>3. next[ListHead] \in Nat
      BY <3>2, ExtentsAreOrdered, Numbers DEF SInv, SortedRing, IsSortedRing
    <3> QED BY <3>2, <3>3, <2>1
  <2>3. Ahead' = Seams BY <2>2, <1>2 DEF Ahead
  <2>4. Cardinality(Behind') = 0 /\ Cardinality(Ahead') <= 1
    BY <2>1, <2>2, <2>3, FS_EmptySet DEF SeamBudget
  <2>5. Cardinality(Ahead') \in Nat BY <2>3, <1>3
  <2> QED BY <2>1, <2>4, <2>5 DEF SeamBudget
<1>6. CASE MergeSkip
  <2> DEFINE q == next[p]
  <2>1. /\ pc = "merge" /\ pc' = "merge" /\ p \in linked /\ p' = q
        /\ block_index[p] + count[p] # block_index[q]
    BY <1>6 DEF MergeSkip, SInv, TypeOK, Ring, Adjacent
  <2>2. p \in Nat /\ count[p] \in Nat /\ count[p] > 0 /\ p # ListHead /\ block_index[p] = p
    BY <2>1, ExtentsAreOrdered, Numbers
  <2>3. Behind' = Behind
    <3>1. SUFFICES ASSUME NEW y \in Seams
                   PROVE  (q = ListHead \/ y <= q) <=> y <= p
      BY <1>2, <2>1, <2>2 DEF Behind
    <3>2. y \in linked /\ y \in Nat BY SeamFollows
    <3>3. PICK x \in linked : x \in Nat /\ x + count[x] = y /\ x < y
      BY SeamFollows
    <3>4. ASSUME p < y PROVE q # ListHead /\ q <= y /\ q \in linked /\ q \in Nat
      <4>1. q # ListHead /\ q <= y /\ q \in Ring
        BY <3>2, <3>4, <2>1 DEF SInv, SortedRing, IsSortedRing, Ring
      <4> QED BY <4>1, ExtentsAreOrdered, Numbers DEF Ring
    <3>5. q # ListHead => q \in Nat /\ p < q
      <4>1. q \in Ring /\ (q # ListHead => p < q)
        BY <2>1 DEF SInv, SortedRing, IsSortedRing, Ring
      <4> QED BY <4>1, ExtentsAreOrdered, Numbers DEF Ring
    <3>6. ASSUME p < y, y = q PROVE FALSE
      <4>1. block_index[q] = q /\ q \in linked
        BY <3>2, <3>6, ExtentsAreOrdered
      <4>2. x # p BY <4>1, <3>3, <3>6, <2>1, <2>2
      <4>3. CASE x < p
        <5>1. x + count[x] <= p BY <4>3, <2>1, ExtentsAreOrdered
        <5> QED BY <5>1, <3>2, <3>3, <3>6, <2>2
      <4>4. CASE p < x
        <5>1. q <= x
          BY <4>4, <2>1 DEF SInv, SortedRing, IsSortedRing
        <5> HIDE DEF q
        <5> QED BY <5>1, <3>2, <3>3, <3>6
      <4> QED BY <4>2, <4>3, <4>4, <3>3, <2>2
    <3> HIDE DEF q
    <3> QED BY <3>2, <3>4, <3>5, <3>6, <2>2
  <2>4. Ahead' = Ahead BY <2>3, <1>2 DEF Ahead
  <2> QED BY <2>1, <2>3, <2>4 DEF SeamBudget
<1>7. CASE FreeReturn
  <2>1. pc = "merge" /\ pc' = "idle" /\ p = ListHead
    BY <1>7 DEF FreeReturn, Return
  <2>2. Behind = Seams BY <2>1 DEF Behind
  <2>3. 2 * Cardinality(Seams) + Cardinality(Ahead) <= 3
    BY <2>1, <2>2 DEF SeamBudget
  <2>4. Cardinality(Seams) <= 1 BY <2>3, <1>3
  <2> QED BY <2>1, <2>4, <1>2 DEF SeamBudget
<1>8. CASE UNCHANGED vars
  <2>1. p' = p /\ pc' = pc BY <1>8 DEF vars
  <2>2. Behind' = Behind BY <2>1, <1>2 DEF Behind
  <2>3. Ahead' = Ahead BY <2>2, <1>2 DEF Ahead
  <2> QED BY <2>1, <2>2, <2>3, <1>2 DEF SeamBudget
<1>9. \/ pc # "merge" /\ pc' # "merge"
      \/ FreeLost \/ MergeSkip \/ FreeReturn \/ UNCHANGED vars
  BY DEF Quiet, AllocateCall, AllocateSkip, AllocateMiss, FreeCall, FreeSkip,
         Return, listVars
<1> QED BY <1>4, <1>5, <1>6, <1>7, <1>8, <1>9

\* my_format leaves a single extent, which touches none.
LEMMA InitEstablishesBudget == Init => SeamBudget
<1> SUFFICES ASSUME Init PROVE SeamBudget
  OBVIOUS
<1>1. linked = {FirstData} /\ count[FirstData] = N - FirstData /\ pc = "idle"
  BY Numbers DEF Init
<1>2. FirstData + count[FirstData] = N /\ N # FirstData
  BY <1>1, Numbers
<1>3. Seams = {} BY <1>1, <1>2 DEF Seams
<1> QED BY <1>1, <1>3, FS_EmptySet DEF SeamBudget

\* However long the sequence of calls, after every one of them at most one
\* pair of touching extents is left unmerged.
THEOREM OneSeamAtMost == Spec => []AtMostOneSeam
<1>1. Init => SInv /\ SeamBudget
  BY InitEstablishesSInv, InitEstablishesBudget
<1>2. SInv /\ SeamBudget /\ [Next]_vars => SInv' /\ SeamBudget'
  <2> SUFFICES ASSUME SInv, SeamBudget, [Next]_vars PROVE SInv' /\ SeamBudget'
    OBVIOUS
  <2>1. SInv' BY NextKeepsSInv
  <2>2. (AllocateExact \/ AllocateSplit) \/ FreeInsert \/ MergeNext \/ Quiet
    BY DEF Next, Step, Quiet
  <2> QED BY <2>1, <2>2, AllocateKeepsBudget, InsertKeepsBudget,
             MergeKeepsBudget, QuietKeepsBudget
<1>3. SeamBudget => AtMostOneSeam
  BY DEF SeamBudget, AtMostOneSeam
<1> QED BY <1>1, <1>2, <1>3, PTL DEF Spec

-----------------------------------------------------------------------------
(***************************************************************************)
(* With requests of one block the free list is a pool of blocks.           *)
(*                                                                         *)
(* Every caller in file.c asks allocate_block for a single block.  Then    *)
(* the last block of the disk is never handed out: allocation takes the    *)
(* lowest free block and refuses to take the last one.  So a scan always   *)
(* finds an extent behind the freed block, no block falls off the list,    *)
(* and the counter is exact.                                               *)
(***************************************************************************)
PoolInv ==
    /\ N - 1 \in FreeSet
    /\ NoBlockLost
    /\ pc # "merge" => Cardinality(FreeSet) = free_block_count
    /\ pc = "merge" => Cardinality(FreeSet) = free_block_count + 1
    /\ pc = "find" => p = next[ListHead]

\* The first node of the list starts the lowest free extent.
LEMMA FirstIsLowest ==
    ASSUME SInv, PoolInv
    PROVE  /\ next[ListHead] \in linked
           /\ \A c \in FreeSet : next[ListHead] <= c /\ c \in Nat
<1>1. ASSUME NEW c \in FreeSet
      PROVE  next[ListHead] \in linked /\ next[ListHead] <= c /\ c \in Nat
  <2>1. PICK x \in linked : x <= c /\ c < x + count[x] BY DEF FreeSet
  <2>2. ListHead < x /\ x \in Nat /\ c \in Nat
    BY <2>1, ExtentsAreOrdered, Numbers DEF FreeSet
  <2>3. next[ListHead] # ListHead /\ next[ListHead] <= x /\ next[ListHead] \in linked
    BY <2>1, <2>2 DEF SInv, SortedRing, IsSortedRing
  <2>4. next[ListHead] \in Nat BY <2>3, ExtentsAreOrdered, Numbers
  <2> QED BY <2>1, <2>2, <2>3, <2>4
<1> QED BY <1>1 DEF PoolInv

\* While a block is being freed there is an extent behind it.
LEMMA ScanFindsANode ==
    ASSUME SInv, PoolInv, pc = "scan"
    PROVE  p # ListHead
<1>1. SUFFICES ASSUME p = ListHead PROVE FALSE
  OBVIOUS
<1> DEFINE last == prev[ListHead]
<1>2. fb \in held /\ last < fb /\ fb \notin FreeSet
  BY <1>1 DEF SInv, CursorOK, NeverFreeAndHeld
<1>3. PICK x \in linked : x <= N - 1 /\ N - 1 < x + count[x]
  BY DEF PoolInv, FreeSet
<1>4. last \in Ring /\ next[last] = ListHead
  BY DEF SInv, SortedRing, IsSortedRing, Ring
<1>5. ~(last < x) BY <1>3, <1>4 DEF SInv, SortedRing, IsSortedRing, Ring
<1>6. /\ last \in Nat /\ x \in Nat /\ fb \in Nat /\ fb \in DataBlocks /\ fb < N
      /\ N \in Nat /\ count[x] \in Nat
  BY <1>2, <1>4, <1>3, ExtentsAreOrdered, Numbers DEF Ring, SInv, TypeOK
<1> HIDE DEF last
<1>7. x <= fb /\ fb < x + count[x] BY <1>2, <1>3, <1>5, <1>6
<1> QED BY <1>2, <1>3, <1>6, <1>7 DEF FreeSet

\* The free blocks can be counted.
LEMMA FreeSetIsFinite == IsFiniteSet(FreeSet) /\ Cardinality(FreeSet) \in Nat
<1>1. FreeSet \subseteq DataBlocks BY DEF FreeSet
<1> QED BY <1>1, DataBlocksAreFinite, FS_Subset, FS_CardinalityType

\* A request of one block takes the lowest free block, and not the last one.
LEMMA AllocateTakesLowest ==
    ASSUME Sizes = {1}, SInv, PoolInv, AllocateExact \/ AllocateSplit
    PROVE  /\ p \in FreeSet /\ \A c \in FreeSet : p <= c
           /\ FreeSet # {p} /\ p # N - 1
           /\ FreeSet' = FreeSet \ {p} /\ held' = held \cup {p}
           /\ Cardinality(FreeSet') = free_block_count' /\ pc' = "idle"
<1>1. /\ p \in linked /\ Taken \subseteq FreeSet /\ p \in Taken
      /\ held' = held \cup Taken /\ free_block_count' = free_block_count - want
      /\ pc' = "idle" /\ FreeSet' = FreeSet \ Taken
  BY FoundExtent, AllocateKeepsSInv
<1>2. pc = "find" /\ want \in Sizes /\ free_block_count >= want + 1
  BY DEF AllocateExact, AllocateSplit, SInv, CursorOK
<1>3. want = 1 /\ free_block_count >= 2 /\ free_block_count \in Nat
  BY <1>2 DEF SInv, TypeOK
<1>4. p \in Nat BY <1>1, ExtentsAreOrdered, Numbers
<1>5. Taken = {p} BY <1>3, <1>4 DEF Taken
<1>6. p \in FreeSet /\ \A c \in FreeSet : p <= c /\ c \in Nat
  BY <1>1, <1>2, FirstIsLowest DEF PoolInv
<1>7. Cardinality(FreeSet) = free_block_count BY <1>2 DEF PoolInv
<1>8. FreeSet # {p}
  BY <1>3, <1>7, FS_Singleton, FreeSetIsFinite
<1>9. p # N - 1
  <2>1. SUFFICES ASSUME p = N - 1 PROVE FreeSet = {p}
    BY <1>8
  <2>2. ASSUME NEW c \in FreeSet PROVE c = p
    <3>1. c \in Nat /\ c < N /\ p <= c BY <1>6, Numbers DEF FreeSet
    <3> QED BY <3>1, <2>1, <1>4, Numbers
  <2> QED BY <2>2, <1>6
<1>10. Cardinality(FreeSet') = free_block_count'
  <2>1. Cardinality(FreeSet \ {p}) = Cardinality(FreeSet) - 1
    BY <1>6, FreeSetIsFinite, FS_RemoveElement
  <2> QED BY <2>1, <1>1, <1>3, <1>5, <1>7
<1> QED BY <1>1, <1>5, <1>6, <1>8, <1>9, <1>10

\* No step of a single-block call or of its loops breaks the pool invariant.
LEMMA NextKeepsPoolInv ==
    ASSUME Sizes = {1}, SInv, PoolInv, [Next]_vars
    PROVE  PoolInv'
<1>1. CASE AllocateExact \/ AllocateSplit
  BY <1>1, AllocateTakesLowest DEF PoolInv, NoBlockLost
<1>2. CASE FreeInsert
  <2>1. /\ FreeSet' = FreeSet \cup {fb} /\ fb \notin FreeSet
    BY <1>2, InsertKeepsSInv
  <2>2. /\ held' = held \ {fb} /\ pc = "scan" /\ pc' = "merge"
        /\ free_block_count' = free_block_count
    BY <1>2 DEF FreeInsert
  <2>3. Cardinality(FreeSet') = Cardinality(FreeSet) + 1
    BY <2>1, FreeSetIsFinite, FS_AddElement
  <2> QED BY <2>1, <2>2, <2>3 DEF PoolInv, NoBlockLost
<1>3. CASE MergeNext
  BY <1>3, MergeKeepsSInv DEF PoolInv, NoBlockLost, MergeNext
<1>4. CASE Quiet
  <2>1. FreeSet' = FreeSet BY <1>4, QuietKeepsSInv
  <2>2. CASE \E n \in Sizes : AllocateCall(n)
    BY <2>1, <2>2 DEF AllocateCall, PoolInv, NoBlockLost, listVars
  <2>3. CASE \E b \in held : FreeCall(b)
    BY <2>1, <2>3 DEF FreeCall, PoolInv, NoBlockLost
  <2>4. CASE AllocateSkip
    <3>1. want = 1 /\ p \in linked /\ count[p] < want
      BY <2>4 DEF AllocateSkip, SInv, TypeOK, CursorOK, Ring
    <3> QED BY <3>1, ExtentsAreOrdered
  <2>5. CASE AllocateMiss
    <3>1. p = ListHead /\ p = next[ListHead] BY <2>5 DEF AllocateMiss, PoolInv
    <3> QED BY <3>1, FirstIsLowest, ExtentsAreOrdered, Numbers
  <2>6. CASE FreeSkip
    BY <2>1, <2>6 DEF FreeSkip, PoolInv, NoBlockLost, listVars
  <2>7. CASE FreeLost
    BY <2>7, ScanFindsANode DEF FreeLost
  <2>8. CASE MergeSkip
    BY <2>1, <2>8 DEF MergeSkip, PoolInv, NoBlockLost, listVars
  <2>9. CASE FreeReturn
    BY <2>1, <2>9 DEF FreeReturn, Return, PoolInv, NoBlockLost, listVars
  <2>10. CASE UNCHANGED vars
    BY <2>1, <2>10 DEF vars, PoolInv, NoBlockLost
  <2> QED BY <1>4, <2>2, <2>3, <2>4, <2>5, <2>6, <2>7, <2>8, <2>9, <2>10 DEF Quiet
<1> QED BY <1>1, <1>2, <1>3, <1>4 DEF Next, Step, Quiet

\* my_format leaves every data block free and none held.
LEMMA InitEstablishesPoolInv == Init => PoolInv /\ FreeSet = DataBlocks /\ held = {}
<1> SUFFICES ASSUME Init PROVE PoolInv /\ FreeSet = DataBlocks /\ held = {}
  OBVIOUS
<1>1. /\ linked = {FirstData} /\ count[FirstData] = N - FirstData /\ pc = "idle"
      /\ held = {} /\ free_block_count = N - FirstData
  BY Numbers DEF Init
<1>2. \A b \in DataBlocks : FirstData <= b /\ b < FirstData + count[FirstData]
  BY <1>1, Numbers
<1>3. FreeSet = DataBlocks BY <1>1, <1>2 DEF FreeSet
<1>4. N - 1 \in DataBlocks BY Numbers
<1>5. Cardinality(DataBlocks) = N - FirstData
  <2>1. FirstData \in Int /\ N - 1 \in Int /\ FirstData <= N - 1 /\ N \in Nat
    BY Numbers
  <2>2. Cardinality(FirstData..N-1) =
          IF FirstData > N - 1 THEN 0 ELSE (N - 1) - FirstData + 1
    BY <2>1, FS_Interval
  <2> QED BY <2>1, <2>2 DEF DataBlocks
<1> QED BY <1>1, <1>3, <1>4, <1>5 DEF PoolInv, NoBlockLost

\* With single-block requests the last block of the disk stays free, no block is
\* lost, the counter is right up to the block being freed, and allocate_block
\* never walks past the first extent.
THEOREM PoolInvariant ==
    ASSUME Sizes = {1}
    PROVE  Spec => [](SInv /\ PoolInv)
<1>1. Init => SInv /\ PoolInv BY InitEstablishesSInv, InitEstablishesPoolInv
<1>2. SInv /\ PoolInv /\ [Next]_vars => SInv' /\ PoolInv'
  BY NextKeepsSInv, NextKeepsPoolInv
<1> QED BY <1>1, <1>2, PTL DEF Spec

\* A disk on which single blocks are asked for loses none of them.
THEOREM NoBlockIsLost ==
    ASSUME Sizes = {1}
    PROVE  Spec => []NoBlockLost
<1>1. PoolInv => NoBlockLost BY DEF PoolInv
<1> QED BY <1>1, PoolInvariant, PTL

\* sb->free_block_count is the number of free blocks between any two calls.
THEOREM CounterIsExact ==
    ASSUME Sizes = {1}
    PROVE  Spec => []CountExact
<1>1. PoolInv => CountExact BY DEF PoolInv, CountExact
<1> QED BY <1>1, PoolInvariant, PTL

\* Neither walk of block.c ever runs into the head of the list.
THEOREM WalksFindANode ==
    ASSUME Sizes = {1}
    PROVE  Spec => []WalkFindsANode
<1>1. SInv /\ PoolInv => WalkFindsANode
  <2> SUFFICES ASSUME SInv, PoolInv PROVE WalkFindsANode
    OBVIOUS
  <2>1. pc = "find" => p # ListHead
    BY FirstIsLowest, ExtentsAreOrdered, Numbers DEF PoolInv
  <2> QED BY <2>1, ScanFindsANode DEF WalkFindsANode
<1> QED BY <1>1, PoolInvariant, PTL

\* The pointer-level list implements the pool of BlockPool: an allocation
\* hands out the lowest free block, a release gives it back, nothing else shows.
THEOREM ListImplementsPool ==
    ASSUME Sizes = {1}
    PROVE  Spec => ImplementsPool
<1>1. Init => Pool!PoolInit
  BY InitEstablishesPoolInv DEF Pool!PoolInit
<1>2. SInv /\ PoolInv /\ [Next]_vars => [Pool!PoolNext]_Pool!poolVars
  <2> SUFFICES ASSUME SInv, PoolInv, [Next]_vars
               PROVE  Pool!PoolNext \/ (FreeSet' = FreeSet /\ held' = held)
    BY DEF Pool!poolVars
  <2>1. CASE AllocateExact \/ AllocateSplit
    <3>1. Pool!TakeLowest(p)
      BY <2>1, AllocateTakesLowest DEF Pool!TakeLowest
    <3>2. p \in DataBlocks BY <2>1, AllocateTakesLowest DEF FreeSet
    <3> QED BY <3>1, <3>2 DEF Pool!PoolNext
  <2>2. CASE FreeInsert
    <3>1. fb \in held /\ fb \in DataBlocks /\ held' = held \ {fb}
      BY <2>2 DEF FreeInsert, SInv, CursorOK, TypeOK
    <3>2. Pool!GiveBack(fb) BY <3>1, <2>2, InsertKeepsSInv DEF Pool!GiveBack
    <3> QED BY <3>1, <3>2 DEF Pool!PoolNext
  <2>3. CASE MergeNext
    BY <2>3, MergeKeepsSInv DEF MergeNext
  <2>4. CASE Quiet
    <3>1. FreeSet' = FreeSet BY <2>4, QuietKeepsSInv
    <3>2. ~FreeLost BY ScanFindsANode DEF FreeLost
    <3>3. held' = held
      BY <2>4, <3>2 DEF Quiet, AllocateCall, FreeCall, AllocateSkip, AllocateMiss,
                        FreeSkip, MergeSkip, FreeReturn, vars
    <3> QED BY <3>1, <3>3
  <2> QED BY <2>1, <2>2, <2>3, <2>4 DEF Next, Step, Quiet
<1> QED BY <1>1, <1>2, PoolInvariant, PTL DEF Spec, ImplementsPool, Pool!PoolSpec
=============================================================================
