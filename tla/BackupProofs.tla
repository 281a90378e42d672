----------------------------- MODULE BackupProofs -----------------------------
(***************************************************************************)
(* For every number of blocks, every set of addresses and every content: a *)
(* session's pointers point into its own image, and backup and sessions    *)
(* implement ImageStore.  The invariant says how far the relocation of the *)
(* list has come: the nodes before the cursor are moved, the cursor's and  *)
(* the later ones are as the file had them.                                *)
(***************************************************************************)
EXTENDS Backup, TLAPS, WellFoundedInduction

-----------------------------------------------------------------------------
(* Neighbours                                                              *)

\* A set of naturals that is not empty has a smallest element.
LEMMA Smallest ==
    ASSUME NEW T \in SUBSET Nat, T # {}
    PROVE  \E x \in T : \A y \in T : x <= y
<1>1. PICK x \in T : \A y \in T : ~(<<y, x>> \in OpToRel(<, Nat))
  BY NatLessThanWellFounded, WFMin, Zenon
<1>2. \A y \in T : ~(y < x) BY <1>1 DEF OpToRel
<1> QED BY <1>2

\* One that is bounded has a largest element.
LEMMA Largest ==
    ASSUME NEW T \in SUBSET Nat, T # {}, NEW n \in Nat, \A x \in T : x <= n
    PROVE  \E x \in T : \A y \in T : y <= x
<1> DEFINE R == {n - x : x \in T}
<1>1. R \in SUBSET Nat /\ R # {}
  <2>1. \A x \in T : x \in Nat /\ n - x \in Nat OBVIOUS
  <2>2. \E x \in T : n - x \in R OBVIOUS
  <2> QED BY <2>1, <2>2
<1>2. PICK r \in R : \A s \in R : r <= s
  <2> HIDE DEF R
  <2> QED BY <1>1, Smallest
<1>3. PICK x \in T : r = n - x BY <1>2
<1>4. \A y \in T : n - x <= n - y BY <1>2, <1>3
<1> QED BY <1>3, <1>4

\* The neighbours are places, and the next one follows at once.
LEMMA Neighbours ==
    ASSUME NEW S \in SUBSET Nodes, NEW p \in Places
    PROVE  /\ NextIn(S, p) \in S \cup {0} /\ NextIn(S, p) \in Places
           /\ PrevIn(S, p) \in Places
           /\ NextIn(S, p) # 0 => NextIn(S, p) > p /\ \A r \in S : r > p => NextIn(S, p) <= r
           /\ NextIn(S, p) = 0 => \A r \in S : ~(r > p)
<1> USE BackupAssumption
<1>1. S \in SUBSET Nat /\ (\A x \in S : x \in Nat /\ x >= 2 /\ x <= N) BY DEF Nodes
<1> DEFINE Follows ==
      /\ NextIn(S, p) \in S \cup {0} /\ NextIn(S, p) \in Places
      /\ NextIn(S, p) # 0 => NextIn(S, p) > p /\ \A r \in S : r > p => NextIn(S, p) <= r
      /\ NextIn(S, p) = 0 => \A r \in S : ~(r > p)
<1>2. ASSUME \E q \in S : q > p PROVE Follows
  <2> DEFINE T == {q \in S : q > p}
  <2>1. \E q \in T : \A y \in T : q <= y BY <1>1, <1>2, Smallest
  <2>2. \E q \in S : q > p /\ \A r \in S : r > p => q <= r BY <2>1
  <2>3. NextIn(S, p) = CHOOSE q \in S : q > p /\ \A r \in S : r > p => q <= r
    BY <1>2 DEF NextIn
  <2>4. NextIn(S, p) \in S /\ NextIn(S, p) > p /\ \A r \in S : r > p => NextIn(S, p) <= r
    BY <2>2, <2>3
  <2>5. NextIn(S, p) \in Nat /\ NextIn(S, p) >= 2 /\ NextIn(S, p) <= N BY <2>4, <1>1
  <2>6. NextIn(S, p) \in Places /\ NextIn(S, p) # 0 BY <2>5 DEF Places
  <2> QED BY <2>4, <2>6
<1>3. ASSUME ~\E q \in S : q > p PROVE Follows
  <2>1. NextIn(S, p) = 0 BY <1>3 DEF NextIn
  <2> QED BY <2>1, <1>3 DEF Places
<1>4. PrevIn(S, p) \in Places
  <2>1. CASE Before(S, p) = {} BY <2>1 DEF PrevIn, Places
  <2>2. CASE Before(S, p) # {}
    <3> DEFINE T == Before(S, p)
    <3>1. T \in SUBSET Nat /\ T \subseteq S /\ \A x \in T : x <= N BY <1>1 DEF Before
    <3>2. \E q \in T : \A r \in T : r <= q BY <3>1, <2>2, Largest
    <3>3. PrevIn(S, p) = CHOOSE q \in T : \A r \in T : r <= q BY <2>2 DEF PrevIn
    <3>4. PrevIn(S, p) \in T BY <3>2, <3>3
    <3> QED BY <3>4, <3>1, <1>1 DEF Places
  <2> QED BY <2>1, <2>2
<1> QED BY <1>2, <1>3, <1>4

\* Moving on from a node puts it behind the cursor, and nothing else.
LEMMA CursorMoves ==
    ASSUME NEW S \in SUBSET Nodes, NEW c \in S
    PROVE  Before(S, NextIn(S, c)) = Before(S, c) \cup {c}
<1> USE BackupAssumption
<1> DEFINE n == NextIn(S, c)
<1>1. c \in Places /\ c # 0 /\ \A q \in S : q \in Nat /\ q # 0
  BY DEF Nodes, Places
<1>2. n \in S \cup {0} /\ n \in Nat BY <1>1, Neighbours DEF Places
<1>3. CASE n = 0
  <2>1. \A q \in S : ~(q > c) BY <1>1, <1>3, Neighbours
  <2> QED BY <2>1, <1>1, <1>3 DEF Before
<1>4. CASE n # 0
  <2>1. n > c /\ \A q \in S : q > c => n <= q BY <1>1, <1>4, Neighbours
  <2> HIDE DEF n
  <2>2. \A q \in S : q < n <=> q < c \/ q = c BY <2>1, <1>1, <1>2
  <2> QED BY <2>2, <1>1, <1>4 DEF Before, n
<1> QED BY <1>3, <1>4

-----------------------------------------------------------------------------
(* Images                                                                  *)

\* What an image says, without its address.
Relative(S, d) ==
    [start |-> 0, fcbs |-> 1,
     next |-> [p \in Places |-> IF p \in S \cup {0} THEN NextIn(S, p) ELSE -1],
     prev |-> [p \in Places |-> IF p \in S \cup {0} THEN PrevIn(S, p) ELSE -1],
     data |-> [p \in 1..N |-> IF p \in S THEN 0 ELSE d[p]]]

\* An image means the same wherever it lies.
LEMMA MeaningIsRelative ==
    ASSUME NEW b \in Bases, NEW S \in SUBSET Nodes, NEW d \in Contents
    PROVE  /\ Meaning(ImageOf(b, S, d), b) = Relative(S, d)
           /\ ImageOf(b, S, d) \in LegalImages[b]
           /\ Relative(S, d) \in Images
<1> USE BackupAssumption
<1> DEFINE i == ImageOf(b, S, d)
<1>1. b \in Nat /\ b >= 1 OBVIOUS
<1>2. i.start_pos - b = 0 /\ i.fcb_array - b = 1 /\ i.data = Relative(S, d).data
  BY <1>1 DEF ImageOf, Relative
<1>3. ASSUME NEW p \in Places
      PROVE  /\ (IF i.next[p] = 0 THEN -1 ELSE i.next[p] - b) = Relative(S, d).next[p]
             /\ (IF i.prev[p] = 0 THEN -1 ELSE i.prev[p] - b) = Relative(S, d).prev[p]
  <2>1. CASE p \in S \cup {0}
    <3>1. i.next[p] = b + NextIn(S, p) /\ i.prev[p] = b + PrevIn(S, p)
      BY <2>1 DEF ImageOf
    <3>2. NextIn(S, p) \in Nat /\ PrevIn(S, p) \in Nat BY Neighbours DEF Places
    <3>3. Relative(S, d).next[p] = NextIn(S, p) /\ Relative(S, d).prev[p] = PrevIn(S, p)
      BY <2>1 DEF Relative
    <3> HIDE DEF i
    <3> QED BY <3>1, <3>2, <3>3, <1>1
  <2>2. CASE p \notin S \cup {0}
    BY <2>2 DEF ImageOf, Relative
  <2> QED BY <2>1, <2>2
<1>4. Meaning(i, b) = Relative(S, d)
  BY <1>2, <1>3 DEF Meaning, Relative
<1>5. i \in LegalImages[b] BY DEF LegalImages
<1>6. Meaning(i, b) \in Images BY <1>5 DEF Images
<1> QED BY <1>4, <1>5, <1>6

\* The three marks are told from images and from one another.
LEMMA MarksAreNoImages ==
    /\ \A k \in {1, 2, 3} : Mark(k) \notin Images
    /\ Mark(1) # Mark(2) /\ Mark(2) # Mark(3)
<1>1. \A k : Mark(k).start = k BY DEF Mark, Meaning
<1>2. ASSUME NEW m \in Images PROVE m.start = 0
  <2>1. PICK b \in Bases : \E i \in LegalImages[b] : m = Meaning(i, b) BY DEF Images
  <2>4. PICK i \in LegalImages[b] : m = Meaning(i, b) BY <2>1
  <2>2. PICK S \in SUBSET Nodes, d \in Contents : i = ImageOf(b, S, d)
    BY <2>1 DEF LegalImages
  <2>3. m = Relative(S, d) BY <2>4, <2>2, MeaningIsRelative
  <2> QED BY <2>3 DEF Relative
<1>3. \A k \in {1, 2, 3} : Mark(k) \notin Images
  <2> SUFFICES ASSUME NEW k \in {1, 2, 3}, Mark(k) \in Images PROVE FALSE
    OBVIOUS
  <2>1. k = 0 BY <1>1, <1>2
  <2> QED BY <2>1
<1>4. Mark(1) # Mark(2) /\ Mark(2) # Mark(3)
  <2>1. Mark(1).start = 1 /\ Mark(2).start = 2 /\ Mark(3).start = 3 BY <1>1
  <2> HIDE DEF Mark
  <2> QED BY <2>1
<1> QED BY <1>3, <1>4

-----------------------------------------------------------------------------
(* How far the relocation is                                               *)

\* The memory at address a when the first k blocks of an image of address b
\* have been read and the cursor is at c.
HalfMoved(a, k, b, S, d, c) ==
    [start_pos |-> a, fcb_array |-> b + 1,
     next |-> [p \in Places |-> IF p \in Before(S, c) \cup {0} THEN a + NextIn(S, p)
                               ELSE IF p < k /\ p \in S THEN b + NextIn(S, p) ELSE 0],
     prev |-> [p \in Places |-> IF p \in Before(S, c) \cup {0} THEN a + PrevIn(S, p)
                               ELSE IF p < k /\ p \in S THEN b + PrevIn(S, p) ELSE 0],
     data |-> [p \in 1..N |-> IF p < k /\ p \notin S THEN d[p] ELSE 0]]

MovedTo(b, S, d, c) ==
    /\ bak.image = ImageOf(b, S, d) /\ delta = base - b /\ pos = base + c
    /\ \A q \in Before(S, c) : q < bak.size
    /\ mem = HalfMoved(base, bak.size, b, S, d, c)

HowFar ==
    /\ bak # NoFile /\ base \in Bases
    /\ \E b \in Bases, S \in SUBSET Nodes, d \in Contents :
         \E c \in S \cup {0} : MovedTo(b, S, d, c)

\* The inductive invariant.
BackupInv ==
    /\ TypeOK
    /\ bak # NoFile => \E b \in Bases : bak.image \in LegalImages[b]
    /\ InSession => base \in Bases /\ mem \in LegalImages[base]
    /\ pc = "removing" => mem = Formatted(base)
    /\ pc = "saving" => bak # NoFile /\ bak.image = mem
    /\ pc = "relocating" => HowFar
    /\ WildOnlyWhenTorn

Image == [start_pos : Int, fcb_array : Int, next : [Places -> Int],
          prev : [Places -> Int], data : Contents]

\* Images and what becomes of them while they are moved have the right type.
LEMMA ImagesHaveType ==
    ASSUME NEW b \in Bases, NEW S \in SUBSET Nodes, NEW d \in Contents
    PROVE  /\ ImageOf(b, S, d) \in Image
           /\ \A a \in Bases, k \in Int : \A c : HalfMoved(a, k, b, S, d, c) \in Image
<1> USE BackupAssumption
<1>1. b \in Int /\ b + 1 \in Int /\ \A a \in Bases : a \in Int OBVIOUS
<1>2. \A p \in Places : NextIn(S, p) \in Int /\ PrevIn(S, p) \in Int
  BY Neighbours DEF Places
<1>3. \A p \in 1..N : d[p] \in Data \cup {0} BY DEF Contents
<1>4. ImageOf(b, S, d) \in Image
  <2>1. ImageOf(b, S, d).next \in [Places -> Int] /\ ImageOf(b, S, d).prev \in [Places -> Int]
    BY <1>1, <1>2 DEF ImageOf
  <2>2. ImageOf(b, S, d).data \in Contents BY <1>3 DEF ImageOf, Contents
  <2> QED BY <1>1, <2>1, <2>2 DEF ImageOf, Image
<1>5. ASSUME NEW a \in Bases, NEW k \in Int, NEW c
      PROVE  HalfMoved(a, k, b, S, d, c) \in Image
  <2> DEFINE h == HalfMoved(a, k, b, S, d, c)
  <2>1. h.next \in [Places -> Int] /\ h.prev \in [Places -> Int]
    BY <1>1, <1>2 DEF HalfMoved
  <2>2. h.data \in Contents BY <1>3 DEF HalfMoved, Contents
  <2> QED BY <1>1, <2>1, <2>2 DEF HalfMoved, Image
<1> QED BY <1>4, <1>5

\* Every legal image has the type of an image.
LEMMA LegalImagesHaveType ==
    ASSUME NEW b \in Bases, NEW i \in LegalImages[b]
    PROVE  /\ i \in Image
           /\ \E S \in SUBSET Nodes, d \in Contents : i = ImageOf(b, S, d)
<1>1. PICK S \in SUBSET Nodes, d \in Contents : i = ImageOf(b, S, d) BY DEF LegalImages
<1> QED BY <1>1, ImagesHaveType

\* my_format makes a legal image.
LEMMA FormattedIsLegal ==
    ASSUME NEW b \in Bases
    PROVE  Formatted(b) \in LegalImages[b]
<1>1. {2} \in SUBSET Nodes /\ Zeros \in Contents
  BY BackupAssumption DEF Nodes, Zeros, Contents
<1> QED BY <1>1, MeaningIsRelative DEF Formatted

-----------------------------------------------------------------------------
(* The steps                                                               *)

\* What a backup that exists holds.
LEMMA BackupHolds ==
    ASSUME BackupInv, bak # NoFile
    PROVE  /\ bak.size \in 0..Whole /\ bak.size \in Int
           /\ \E b \in Bases : \E S \in SUBSET Nodes, d \in Contents :
                  bak.image = ImageOf(b, S, d)
<1>1. bak.size \in 0..Whole /\ bak.size \in Int
  BY BackupAssumption DEF BackupInv, TypeOK, Whole
<1>2. PICK b \in Bases : bak.image \in LegalImages[b] BY DEF BackupInv
<1>3. \E S \in SUBSET Nodes, d \in Contents : bak.image = ImageOf(b, S, d)
  BY <1>2, LegalImagesHaveType
<1> QED BY <1>1, <1>3

\* recover up to the loop leaves the cursor at the first node, nothing moved
\* behind the head.
LEMMA RecoverStarts ==
    ASSUME BackupInv, Recover
    PROVE  BackupInv'
<1> USE BackupAssumption
<1>1. bak # NoFile /\ bak.size > 0 /\ bak' = bak /\ pc' = "relocating"
  BY DEF Recover, NoFile
<1>2. PICK b \in Bases, S \in SUBSET Nodes, d \in Contents : bak.image = ImageOf(b, S, d)
  <2>1. PICK b \in Bases : \E S \in SUBSET Nodes, d \in Contents : bak.image = ImageOf(b, S, d)
    BY <1>1, BackupHolds
  <2> QED BY <2>1
<1>3. PICK a \in Bases :
        LET e == a - ReadIn.start_pos
            head == ReadIn.next[0] + e
        IN base' = a /\ delta' = e /\ pos' = head
           /\ mem' = [ReadIn EXCEPT !.start_pos = a, !.next[0] = head, !.prev[0] = @ + e]
  BY DEF Recover
<1> DEFINE c == NextIn(S, 0)
           k == bak.size
<1>4. 0 \in Places /\ k \in Int /\ 0 < k /\ a \in Nat /\ b \in Nat
  BY <1>1, BackupHolds DEF Places
<1>5. c \in S \cup {0} /\ c \in Nat /\ PrevIn(S, 0) \in Nat
  BY <1>4, Neighbours DEF Places
<1>6. Before(S, c) = {}
  <2>1. \A q \in S : q \in Nat /\ q > 0 BY DEF Nodes
  <2>2. CASE c = 0 BY <2>1, <2>2, <1>4, Neighbours DEF Before
  <2>3. CASE c # 0
    <3>1. \A q \in S : c <= q BY <2>1, <2>3, <1>4, Neighbours
    <3> HIDE DEF c
    <3>2. \A q \in S : ~(q < c) BY <3>1, <2>1, <1>5
    <3> QED BY <3>2, <2>3 DEF Before
  <2> QED BY <2>2, <2>3
<1>7. /\ ReadIn.start_pos = b /\ ReadIn.fcb_array = b + 1
      /\ ReadIn.next[0] = b + c /\ ReadIn.prev[0] = b + PrevIn(S, 0)
  BY <1>2, <1>4 DEF ReadIn, ImageOf, Got
<1>8. \A p \in Places \ {0} :
          /\ ReadIn.next[p] = IF p < k /\ p \in S THEN b + NextIn(S, p) ELSE 0
          /\ ReadIn.prev[p] = IF p < k /\ p \in S THEN b + PrevIn(S, p) ELSE 0
  BY <1>2 DEF ReadIn, ImageOf, Got
<1>9. ReadIn.data = HalfMoved(a, k, b, S, d, c).data
  BY <1>2 DEF ReadIn, ImageOf, Got, HalfMoved
<1> HIDE DEF c, k
<1>10. delta' = a - b /\ pos' = a + c
  BY <1>3, <1>7, <1>4, <1>5
<1>11. b + PrevIn(S, 0) + (a - b) = a + PrevIn(S, 0) /\ b + c + (a - b) = a + c
  BY <1>4, <1>5
<1>12. mem' = HalfMoved(a, k, b, S, d, c)
  <2> DEFINE h == HalfMoved(a, k, b, S, d, c)
  <2>1. /\ ReadIn.next[0] + (a - ReadIn.start_pos) = a + c
        /\ ReadIn.prev[0] + (a - ReadIn.start_pos) = a + PrevIn(S, 0)
    BY <1>7, <1>11
  <2>2. mem' = [ReadIn EXCEPT !.start_pos = a, !.next[0] = a + c, !.prev[0] = a + PrevIn(S, 0)]
    BY <1>3, <2>1, <1>4 DEF ReadIn
  <2>3. mem' = [start_pos |-> a, fcb_array |-> ReadIn.fcb_array,
                next |-> [ReadIn.next EXCEPT ![0] = a + c],
                prev |-> [ReadIn.prev EXCEPT ![0] = a + PrevIn(S, 0)],
                data |-> ReadIn.data]
    BY <2>2 DEF ReadIn
  <2>4. [ReadIn.next EXCEPT ![0] = a + c] = h.next
    BY <1>8, <1>6, <1>4 DEF ReadIn, HalfMoved, c
  <2>5. [ReadIn.prev EXCEPT ![0] = a + PrevIn(S, 0)] = h.prev
    BY <1>8, <1>6, <1>4 DEF ReadIn, HalfMoved
  <2> QED BY <2>3, <2>4, <2>5, <1>7, <1>9 DEF HalfMoved
<1>13. HowFar'
  BY <1>1, <1>2, <1>3, <1>5, <1>6, <1>10, <1>12 DEF HowFar, MovedTo, k
<1>14. mem' \in Image /\ base' \in Bases /\ delta' \in Int /\ pos' \in Int
  BY <1>3, <1>4, <1>5, <1>10, <1>12, ImagesHaveType
<1> QED BY <1>1, <1>13, <1>14
      DEF BackupInv, TypeOK, InSession, WildOnlyWhenTorn, Image

\* Where the cursor is, in numbers.
LEMMA CursorInNumbers ==
    ASSUME BackupInv, NEW b \in Bases, NEW S \in SUBSET Nodes, NEW d \in Contents,
           NEW c \in S \cup {0}, MovedTo(b, S, d, c), pc = "relocating"
    PROVE  /\ base \in Nat /\ b \in Nat /\ c \in Nat /\ bak.size \in Int /\ bak # NoFile
           /\ pos - base = c /\ delta = base - b /\ (pos = base <=> c = 0)
           /\ c \in Places /\ (c # 0 => c \in S /\ c \in 1..N)
<1> USE BackupAssumption
<1>1. bak # NoFile /\ base \in Bases BY DEF BackupInv, HowFar
<1>2. base \in Nat /\ b \in Nat BY <1>1
<1>3. c \in Nat /\ c \in Places /\ (c # 0 => c \in S /\ c \in 1..N) BY DEF Nodes, Places
<1>4. bak.size \in Int BY <1>1, BackupHolds
<1>5. pos = base + c /\ delta = base - b BY DEF MovedTo
<1> QED BY <1>1, <1>2, <1>3, <1>4, <1>5

\* One iteration moves the node at the cursor and no other.
LEMMA RelocateMoves ==
    ASSUME BackupInv, Relocate
    PROVE  BackupInv'
<1> USE BackupAssumption
<1>1. pc = "relocating" /\ UNCHANGED <<pc, base, delta, bak>> BY DEF Relocate
<1>. PICK b \in Bases, S \in SUBSET Nodes, d \in Contents :
          \E c \in S \cup {0} : MovedTo(b, S, d, c)
  BY <1>1 DEF BackupInv, HowFar
<1>2. PICK c \in S \cup {0} : MovedTo(b, S, d, c) OBVIOUS
<1>3. /\ base \in Nat /\ b \in Nat /\ c \in Nat /\ bak.size \in Int /\ bak # NoFile
      /\ pos - base = c /\ delta = base - b /\ c \in Places
      /\ (c # 0 => c \in S /\ c \in 1..N)
  BY <1>1, <1>2, CursorInNumbers
<1> DEFINE n == NextIn(S, c)
           k == bak.size
           h == HalfMoved(base, k, b, S, d, c)
<1>4. c # 0 /\ c \in S /\ c < k BY <1>3 DEF Relocate, AtNode, Got
<1>5. mem = h BY <1>2 DEF MovedTo
<1>6. n \in S \cup {0} /\ n \in Nat /\ PrevIn(S, c) \in Nat
  BY <1>3, Neighbours DEF Places
<1>7. Before(S, n) = Before(S, c) \cup {c} BY <1>4, CursorMoves
<1>8. c \notin Before(S, c) /\ c \notin Before(S, c) \cup {0}
  BY <1>4, <1>3 DEF Before
<1>9. mem.next[c] = b + n /\ mem.prev[c] = b + PrevIn(S, c)
  BY <1>3, <1>4, <1>5, <1>8 DEF HalfMoved
<1>10. /\ b + n + delta = base + n
       /\ b + PrevIn(S, c) + delta = base + PrevIn(S, c)
  <2> HIDE DEF n
  <2> QED BY <1>3, <1>6
<1>11. pos' = base + n /\ mem' = [mem EXCEPT !.next[c] = base + n,
                                             !.prev[c] = base + PrevIn(S, c)]
  <2>1. /\ mem' = [mem EXCEPT !.next[c] = mem.next[c] + delta, !.prev[c] = mem.prev[c] + delta]
        /\ pos' = mem.next[c] + delta
    BY <1>3, <1>5, <1>9 DEF Relocate, HalfMoved
  <2> QED BY <2>1, <1>9, <1>10
<1>12. mem' = HalfMoved(base, k, b, S, d, n)
  <2> DEFINE m == HalfMoved(base, k, b, S, d, n)
  <2>1. mem' = [h EXCEPT !.next = [h.next EXCEPT ![c] = base + n],
                         !.prev = [h.prev EXCEPT ![c] = base + PrevIn(S, c)]]
    BY <1>11, <1>5 DEF HalfMoved
  <2>2. [h.next EXCEPT ![c] = base + n] = m.next
    BY <1>3, <1>7 DEF HalfMoved
  <2>3. [h.prev EXCEPT ![c] = base + PrevIn(S, c)] = m.prev
    BY <1>3, <1>7 DEF HalfMoved
  <2>4. h.data = m.data BY DEF HalfMoved
  <2> QED BY <2>1, <2>2, <2>3, <2>4 DEF HalfMoved
<1>13. \A q \in Before(S, n) : q < k BY <1>2, <1>4, <1>7 DEF MovedTo
<1> HIDE DEF n, h, k
<1>14. base \in Bases BY <1>1 DEF BackupInv, HowFar
<1>15. MovedTo(b, S, d, n)' BY <1>1, <1>2, <1>11, <1>12, <1>13 DEF MovedTo, k
<1>16. HowFar' BY <1>1, <1>3, <1>6, <1>14, <1>15 DEF HowFar
<1>17. mem' \in Image /\ pos' \in Int
  BY <1>3, <1>6, <1>11, <1>12, <1>14, ImagesHaveType DEF k
<1> QED BY <1>1, <1>16, <1>17
      DEF BackupInv, TypeOK, InSession, WildOnlyWhenTorn, Image

\* When the loop is back at the head the image is a legal one, and the backup's
\* own if that is whole.
LEMMA RecoveredIsLegal ==
    ASSUME BackupInv, Recovered
    PROVE  /\ base \in Bases /\ bak # NoFile /\ mem' \in LegalImages[base]
           /\ Usable => Meaning(mem', base) = Meaning(bak.image, bak.image.start_pos)
<1> USE BackupAssumption
<1>1. pc = "relocating" /\ pos = base BY DEF Recovered
<1>. PICK b \in Bases, S \in SUBSET Nodes, d \in Contents :
          \E c \in S \cup {0} : MovedTo(b, S, d, c)
  BY <1>1 DEF BackupInv, HowFar
<1>2. PICK c \in S \cup {0} : MovedTo(b, S, d, c) OBVIOUS
<1>3. /\ c = 0 /\ base \in Nat /\ b \in Nat /\ delta = base - b
      /\ bak.size \in Int /\ bak # NoFile
  BY <1>1, <1>2, CursorInNumbers
<1>4. base \in Bases BY <1>1 DEF BackupInv, HowFar
<1> DEFINE k == bak.size
           e == [p \in 1..N |-> IF p < k THEN d[p] ELSE 0]
<1>5. Before(S, c) = S /\ \A q \in S : q < k BY <1>2, <1>3 DEF Before, MovedTo
<1>6. mem = HalfMoved(base, k, b, S, d, c) BY <1>2 DEF MovedTo
<1>7. mem' = [mem EXCEPT !.fcb_array = base + 1]
  <2>1. mem.fcb_array + delta = base + 1 BY <1>3, <1>6 DEF HalfMoved
  <2> QED BY <2>1, <1>6 DEF Recovered, HalfMoved
<1>8. e \in Contents BY DEF Contents
<1>9. mem' = ImageOf(base, S, e)
  <2> DEFINE i == ImageOf(base, S, e)
  <2>1. mem.next = i.next /\ mem.prev = i.prev
    BY <1>5, <1>6 DEF HalfMoved, ImageOf
  <2>2. mem.data = i.data BY <1>5, <1>6 DEF HalfMoved, ImageOf
  <2> QED BY <2>1, <2>2, <1>6, <1>7 DEF HalfMoved, ImageOf
<1>10. mem' \in LegalImages[base] BY <1>4, <1>8, <1>9, MeaningIsRelative
<1>11. ASSUME Usable
       PROVE  Meaning(mem', base) = Meaning(bak.image, bak.image.start_pos)
  <2>1. \A p \in 1..N : p < k BY <1>11, <1>3 DEF Usable
  <2>2. e = d BY <2>1 DEF Contents
  <2>3. bak.image = ImageOf(b, S, d) /\ bak.image.start_pos = b
    BY <1>2 DEF MovedTo, ImageOf
  <2> HIDE DEF e
  <2> QED BY <2>2, <2>3, <1>4, <1>9, MeaningIsRelative
<1> QED BY <1>3, <1>4, <1>10, <1>11

\* Of the other steps, those that leave the relocation alone.
LEMMA OthersKeepBackupInv ==
    ASSUME BackupInv, [Next]_vars, ~Recover, ~Relocate
    PROVE  BackupInv'
<1> USE BackupAssumption
<1> USE DEF BackupInv, InSession, WildOnlyWhenTorn, Usable
<1>1. CASE Recreate \/ NothingToRecover
  <2>1. PICK b \in Bases : FormatAt(b) BY <1>1 DEF Recreate, NothingToRecover
  <2>2. /\ base' = b /\ mem' = Formatted(b) /\ delta' = 0 /\ pos' = 0
        /\ bak' = bak /\ pc' \in {"running", "removing"}
    BY <1>1, <2>1 DEF FormatAt, Recreate, NothingToRecover
  <2>3. mem' \in LegalImages[base'] /\ mem' \in Image
    BY <2>2, FormattedIsLegal, LegalImagesHaveType
  <2> QED BY <2>2, <2>3 DEF TypeOK, Image
<1>2. CASE RemoveBackup
  <2>1. mem' = mem /\ base' = base /\ delta' = delta /\ pos' = pos /\ bak' = NoFile
        /\ pc = "removing" /\ pc' = "running"
    BY <1>2 DEF RemoveBackup
  <2> QED BY <2>1 DEF TypeOK
<1>3. CASE RecoverNothing
  <2>1. UNCHANGED <<base, mem, delta, pos, bak>> /\ bak.size = 0 /\ pc' = "wild"
    BY <1>3 DEF RecoverNothing
  <2> QED BY <2>1 DEF TypeOK
<1>4. CASE GoWild
  <2>1. UNCHANGED <<base, mem, delta, pos, bak>> /\ pc = "relocating" /\ pc' = "wild"
    BY <1>4 DEF GoWild
  <2>. PICK b \in Bases, S \in SUBSET Nodes, d \in Contents :
          \E c \in S \cup {0} : MovedTo(b, S, d, c)
    BY <2>1 DEF HowFar
  <2>2. PICK c \in S \cup {0} : MovedTo(b, S, d, c) OBVIOUS
  <2>3. c \in 1..N /\ ~(c < bak.size) /\ bak.size \in Int
    BY <2>1, <2>2, <1>4, CursorInNumbers DEF GoWild, AtNode, Got
  <2>4. ~(bak.size > N) BY <2>3
  <2> QED BY <2>1, <2>4 DEF TypeOK
<1>5. CASE Recovered
  <2>1. base \in Bases /\ mem' \in LegalImages[base]
    BY <1>5, RecoveredIsLegal
  <2>2. mem' \in Image BY <2>1, LegalImagesHaveType
  <2>3. base' = base /\ bak' = bak /\ delta' = 0 /\ pos' = 0 /\ pc' = "running"
    BY <1>5 DEF Recovered
  <2> QED BY <2>1, <2>2, <2>3 DEF TypeOK, Image
<1>6. CASE Work
  <2>1. /\ pc = "running" /\ mem' \in LegalImages[base] /\ base \in Bases
        /\ UNCHANGED <<pc, base, delta, pos, bak>>
    BY <1>6 DEF Work
  <2>2. mem' \in Image BY <2>1, LegalImagesHaveType
  <2> QED BY <2>1, <2>2 DEF TypeOK, Image
<1>7. CASE SaveOpens
  <2>1. /\ pc = "running" /\ pc' = "saving" /\ UNCHANGED <<base, mem, delta, pos>>
        /\ bak' = [size |-> 0, image |-> mem]
    BY <1>7 DEF SaveOpens
  <2>2. bak'.size = 0 /\ bak'.image = mem /\ bak' # NoFile BY <2>1 DEF NoFile
  <2>3. bak' \in [size : 0..Whole, image : Image]
    BY <2>1 DEF TypeOK, Image, Whole
  <2> QED BY <2>1, <2>2, <2>3 DEF TypeOK, Image
<1>8. CASE SaveWrites
  <2>1. /\ pc = "saving" /\ UNCHANGED <<pc, base, mem, delta, pos>>
        /\ bak' = [bak EXCEPT !.size = @ + 1] /\ bak.size < Whole
    BY <1>8 DEF SaveWrites
  <2>2. bak \in [size : 0..Whole, image : Image] BY <2>1 DEF TypeOK, Image
  <2>3. bak'.image = bak.image /\ bak'.size = bak.size + 1 BY <2>1, <2>2
  <2>4. bak.size + 1 \in 0..Whole BY <2>1, <2>2 DEF Whole
  <2>5. bak' \in [size : 0..Whole, image : Image] BY <2>1, <2>2, <2>4
  <2>6. bak' # NoFile BY <2>3, <2>4 DEF NoFile
  <2> QED BY <2>1, <2>3, <2>5, <2>6 DEF TypeOK, Image
<1>9. CASE SaveCannotOpen \/ Exit \/ Stop
  <2>1. /\ pc' = "off" /\ base' = 0 /\ mem' = NoMemory /\ delta' = 0 /\ pos' = 0
        /\ bak' = bak
    BY <1>9 DEF SaveCannotOpen, Exit, Stop, Off
  <2>2. NoMemory \in Image BY DEF NoMemory, Image, Zeros, Contents
  <2> QED BY <2>1, <2>2 DEF TypeOK, Image
<1>10. CASE UNCHANGED vars
  BY <1>10 DEF vars, TypeOK, HowFar, MovedTo
<1> QED BY <1>1, <1>2, <1>3, <1>4, <1>5, <1>6, <1>7, <1>8, <1>9, <1>10 DEF Next, Loop

\* Nothing runs and nothing is stored at first.
LEMMA InitEstablishesBackupInv == Init => BackupInv
  BY DEF Init, BackupInv, TypeOK, InSession, WildOnlyWhenTorn, NoMemory, NoFile,
         Zeros, Contents, Usable

-----------------------------------------------------------------------------
(* The theorems                                                            *)

\* The inductive invariant of save, recover and update_list.
THEOREM RelocationInvariant == Spec => []BackupInv
<1>1. BackupInv /\ [Next]_vars => BackupInv'
  BY RecoverStarts, RelocateMoves, OthersKeepBackupInv
<1> QED BY InitEstablishesBackupInv, <1>1, PTL DEF Spec

\* The state of myfs.c keeps its types.
THEOREM BackupTypeCorrect == Spec => []TypeOK
<1>1. BackupInv => TypeOK BY DEF BackupInv
<1> QED BY <1>1, RelocationInvariant, PTL

\* Between start_sys and the end of a session every pointer in the image points
\* into it, at every address malloc may choose.
THEOREM PointersStayInside == Spec => []PointersInside
<1>1. BackupInv => PointersInside BY DEF BackupInv, PointersInside
<1> QED BY <1>1, RelocationInvariant, PTL

\* update_list follows a wild pointer only when the file ends too early.
THEOREM OnlyTornBackupsRunWild == Spec => []WildOnlyWhenTorn
<1>1. BackupInv => WildOnlyWhenTorn BY DEF BackupInv
<1> QED BY <1>1, RelocationInvariant, PTL

\* A session means one of the images, the address left out.
LEMMA SessionMeans ==
    ASSUME NEW b \in Bases, NEW i \in LegalImages[b]
    PROVE  Meaning(i, b) \in Images /\ Meaning(i, b) # Mark(1) /\ i.start_pos = b
<1>1. PICK S \in SUBSET Nodes, d \in Contents : i = ImageOf(b, S, d)
  BY LegalImagesHaveType
<1>2. Meaning(i, b) \in Images BY <1>1, MeaningIsRelative
<1>3. i.start_pos = b BY <1>1 DEF ImageOf
<1> QED BY <1>2, <1>3, MarksAreNoImages

\* my_format makes the same image at every address.
LEMMA FreshMeans ==
    ASSUME NEW b \in Bases
    PROVE  Meaning(Formatted(b), b) = Meaning(Formatted(AnyBase), AnyBase)
<1>1. AnyBase \in Bases BY DEF AnyBase
<1>2. {2} \in SUBSET Nodes /\ Zeros \in Contents
  BY BackupAssumption DEF Nodes, Zeros, Contents
<1> QED BY <1>1, <1>2, MeaningIsRelative DEF Formatted

\* What ImageStore sees of a state.
Session == IF InSession THEN Meaning(mem, base) ELSE Mark(1)
Stored == IF bak = NoFile THEN Mark(2)
          ELSE IF Usable THEN Meaning(bak.image, bak.image.start_pos)
          ELSE Mark(3)

\* The step in which the session begins gives it what the store promises.
LEMMA RecoveredBegins ==
    ASSUME BackupInv, Recovered
    PROVE  /\ Session = Mark(1) /\ Stored' = Stored
           /\ \/ Stored \in Images /\ Session' = Stored
              \/ Stored = Mark(3) /\ Session' \in Images
<1>1. /\ pc = "relocating" /\ pc' = "running" /\ base' = base /\ bak' = bak
  BY DEF Recovered
<1>2. /\ base \in Bases /\ bak # NoFile /\ mem' \in LegalImages[base]
      /\ Usable => Meaning(mem', base) = Meaning(bak.image, bak.image.start_pos)
  BY RecoveredIsLegal
<1>3. Session = Mark(1) /\ Session' = Meaning(mem', base) /\ Stored' = Stored
  BY <1>1 DEF Session, Stored, InSession, Usable
<1>4. Session' \in Images BY <1>2, <1>3, SessionMeans
<1>5. CASE Usable
  <2>1. Stored = Session' BY <1>2, <1>3, <1>5 DEF Stored
  <2> QED BY <2>1, <1>3, <1>4
<1>6. CASE ~Usable
  BY <1>2, <1>3, <1>4, <1>6 DEF Stored
<1> QED BY <1>5, <1>6

\* Writing tears the store until the last block of the image is out.
LEMMA SaveWritesEnds ==
    ASSUME BackupInv, SaveWrites
    PROVE  /\ Session' = Session /\ Session # Mark(1)
           /\ \/ Stored' = Stored
              \/ Stored = Mark(3) /\ Stored' = Session
<1> USE BackupAssumption
<1>1. /\ pc = "saving" /\ UNCHANGED <<pc, base, mem, delta, pos>>
      /\ bak' = [bak EXCEPT !.size = @ + 1]
  BY DEF SaveWrites
<1>2. bak # NoFile /\ bak.image = mem /\ base \in Bases /\ mem \in LegalImages[base]
  BY <1>1 DEF BackupInv, InSession
<1>3. bak \in [size : 0..Whole, image : Image] BY <1>2 DEF BackupInv, TypeOK, Image
<1>4. /\ bak'.size = bak.size + 1 /\ bak'.image = bak.image
      /\ bak.size \in Nat /\ bak'.size # -1
  BY <1>1, <1>3 DEF Whole
<1>5. bak' # NoFile BY <1>4 DEF NoFile
<1>6. Session = Meaning(mem, base) /\ Session' = Session /\ Session # Mark(1)
  BY <1>1, <1>2, SessionMeans DEF Session, InSession
<1>7. bak.image.start_pos = base BY <1>2, SessionMeans
<1>8. CASE Usable
  <2>1. Usable' BY <1>4, <1>8 DEF Usable
  <2>2. Stored' = Stored BY <2>1, <1>2, <1>4, <1>5, <1>8 DEF Stored
  <2> QED BY <2>2, <1>6
<1>9. CASE ~Usable
  <2>1. Stored = Mark(3) BY <1>2, <1>9 DEF Stored
  <2>2. Stored' = Mark(3) \/ Stored' = Meaning(mem, base)
    BY <1>2, <1>4, <1>5, <1>7 DEF Stored
  <2> QED BY <2>1, <2>2, <1>6
<1> QED BY <1>8, <1>9

\* Backups and sessions implement the store: a session begins with the image
\* the last whole backup holds, and only a save in progress or the wish for a
\* new file system takes that backup away.
THEOREM BackupImplementsStore == Spec => ImplementsStore
<1> USE BackupAssumption
<1>1. Init => Store!Init
  BY DEF Init, Store!Init, InSession
<1>2. BackupInv /\ [Next]_vars => [Store!Next]_<<Session, Stored>>
  <2> SUFFICES ASSUME BackupInv, [Next]_vars
               PROVE  Store!Next \/ (Session' = Session /\ Stored' = Stored)
    BY DEF Session, Stored
  <2>1. CASE Recreate \/ NothingToRecover
    <3>1. PICK b \in Bases : FormatAt(b) BY <2>1 DEF Recreate, NothingToRecover
    <3>2. Session = Mark(1) /\ Session' = Meaning(Formatted(b), b) /\ Stored' = Stored
      BY <2>1, <3>1 DEF Recreate, NothingToRecover, FormatAt, Session, Stored, InSession, Usable
    <3>3. Session' = Meaning(Formatted(AnyBase), AnyBase) BY <3>2, FreshMeans
    <3> QED BY <3>2, <3>3 DEF Store!Next, Store!Begin, Session, Stored
  <2>2. CASE RemoveBackup
    <3>1. Session' = Session /\ Stored' = Mark(2)
      BY <2>2 DEF RemoveBackup, Session, Stored, InSession
    <3>2. Session = Meaning(Formatted(base), base) /\ base \in Bases
      BY <2>2 DEF RemoveBackup, BackupInv, Session, InSession
    <3>3. Session = Meaning(Formatted(AnyBase), AnyBase) BY <3>2, FreshMeans
    <3> QED BY <3>1, <3>3 DEF Store!Next, Store!Discard, Session, Stored
  <2>3. CASE Recover \/ RecoverNothing \/ Relocate \/ GoWild
    BY <2>3 DEF Recover, RecoverNothing, Relocate, GoWild, Session, Stored, InSession, Usable
  <2>4. CASE Recovered
    <3>1. /\ Session = Mark(1) /\ Stored' = Stored
          /\ \/ Stored \in Images /\ Session' = Stored
             \/ Stored = Mark(3) /\ Session' \in Images
      BY <2>4, RecoveredBegins
    <3> QED BY <3>1 DEF Store!Next, Store!Begin, Session, Stored
  <2>5. CASE Work
    <3>1. /\ pc = "running" /\ base \in Bases /\ mem \in LegalImages[base]
          /\ mem' \in LegalImages[base] /\ UNCHANGED <<pc, base, delta, pos, bak>>
      BY <2>5 DEF Work, BackupInv, InSession
    <3>2. Session = Meaning(mem, base) /\ Session' = Meaning(mem', base) /\ Stored' = Stored
      BY <3>1 DEF Session, Stored, InSession, Usable
    <3>3. Session # Mark(1) /\ Session' \in Images BY <3>1, <3>2, SessionMeans
    <3> QED BY <3>2, <3>3 DEF Store!Next, Store!Work, Session, Stored
  <2>6. CASE SaveOpens
    <3>1. /\ pc = "running" /\ pc' = "saving" /\ UNCHANGED <<base, mem, delta, pos>>
          /\ bak' = [size |-> 0, image |-> mem]
      BY <2>6 DEF SaveOpens
    <3>2. Session = Meaning(mem, base) /\ Session' = Session
      BY <3>1 DEF Session, InSession
    <3>3. Session # Mark(1) BY <3>1, <3>2, SessionMeans DEF BackupInv, InSession
    <3>4. bak'.size = 0 /\ ~(0 > N) /\ bak' # NoFile BY <3>1 DEF NoFile
    <3>5. Stored' = Mark(3) BY <3>4 DEF Stored, Usable
    <3> QED BY <3>2, <3>3, <3>5 DEF Store!Next, Store!BeginSave, Session, Stored
  <2>7. CASE SaveWrites
    BY <2>7, SaveWritesEnds DEF Store!Next, Store!EndSave, Session, Stored
  <2>8. CASE SaveCannotOpen \/ Exit \/ Stop
    <3>1. pc' = "off" /\ bak' = bak BY <2>8 DEF SaveCannotOpen, Exit, Stop, Off
    <3>2. Session' = Mark(1) /\ Stored' = Stored
      BY <3>1 DEF Session, Stored, InSession, Usable
    <3> QED BY <3>2 DEF Store!Next, Store!Stop, Session, Stored
  <2>9. CASE UNCHANGED vars
    BY <2>9 DEF vars, Session, Stored, InSession, Usable
  <2> QED BY <2>1, <2>2, <2>3, <2>4, <2>5, <2>6, <2>7, <2>8, <2>9 DEF Next, Loop
<1> QED BY <1>1, <1>2, RelocationInvariant, PTL
        DEF Spec, ImplementsStore, Store!Spec, Session, Stored
=============================================================================
