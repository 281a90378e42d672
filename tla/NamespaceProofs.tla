---------------------------- MODULE NamespaceProofs ----------------------------
(***************************************************************************)
(* For every set of names, any number of inodes and slots and paths of any *)
(* length: no file is open twice, the directories form a tree, the prompt  *)
(* leads to the current directory, and how that can leave the table.       *)
(***************************************************************************)
EXTENDS Namespace, TLAPS, SequenceTheorems, FiniteSetTheorems, WellFoundedInduction

-----------------------------------------------------------------------------
\* A set of naturals that is not empty has a smallest element.
LEMMA SmallestOf ==
    ASSUME NEW T \in SUBSET Nat, T # {}
    PROVE  \E x \in T : \A y \in T : x <= y
<1>1. PICK x \in T : \A y \in T : ~(<<y, x>> \in OpToRel(<, Nat))
  BY NatLessThanWellFounded, WFMin, Zenon
<1>2. \A y \in T : ~(y < x) BY <1>1 DEF OpToRel
<1> QED BY <1>2

\* What First returns.
LEMMA FirstOf ==
    ASSUME NEW T, T \subseteq Nat \ {0}
    PROVE  /\ First(T) = 0 <=> T = {}
           /\ T # {} => First(T) \in T /\ \A y \in T : First(T) <= y
<1>1. CASE T = {} BY <1>1 DEF First
<1>2. CASE T # {}
  <2>1. \E x \in T : \A y \in T : x <= y
    <3>1. T \in SUBSET Nat OBVIOUS
    <3> QED BY <1>2, <3>1, SmallestOf
  <2>2. First(T) \in T /\ \A y \in T : First(T) <= y BY <1>2, <2>1 DEF First, Min
  <2> QED BY <1>2, <2>2
<1> QED BY <1>1, <1>2

\* What holds of 0 and of a number with the one before it holds up to n.
LEMMA Upwards ==
    ASSUME NEW n \in Nat, NEW T, 0 \in T, \A k \in 1..n : k - 1 \in T => k \in T
    PROVE  0..n \subseteq T
<1> DEFINE None == {k \in 0..n : k \notin T}
<1> SUFFICES ASSUME None # {} PROVE FALSE OBVIOUS
<1>1. PICK m \in None : \A j \in None : m <= j
  <2>1. None \in SUBSET Nat OBVIOUS
  <2> HIDE DEF None
  <2> QED BY <2>1, SmallestOf
<1>2. m \in 1..n /\ m - 1 \in 0..n /\ ~(m <= m - 1) BY <1>1
<1>3. m - 1 \in T BY <1>1, <1>2
<1> QED BY <1>1, <1>2, <1>3

\* A function defined by recursion over 0..n.
Chain(g, n, S, b, F) ==
    g \in [0..n -> S] /\ g[0] = b /\ \A k \in 1..n : g[k] = F[k][g[k - 1]]

LEMMA Iterated ==
    ASSUME NEW n \in Nat, NEW S, NEW b \in S, NEW F \in [1..n -> [S -> S]]
    PROVE  \E g : Chain(g, n, S, b, F)
<1> USE DEF Chain
<1> DEFINE Up(m, g) == g \in [0..m -> S] /\ g[0] = b /\ \A k \in 1..m : g[k] = F[k][g[k - 1]]
           None == {m \in 0..n : ~\E g : Up(m, g)}
<1> SUFFICES ASSUME None # {} PROVE FALSE
  <2>1. n \notin None => \E g : Up(n, g) OBVIOUS
  <2> QED BY <2>1
<1>1. PICK m \in None : \A j \in None : m <= j
  <2>1. None \in SUBSET Nat OBVIOUS
  <2> HIDE DEF None
  <2> QED BY <2>1, SmallestOf
<1>2. CASE m = 0
  <2> DEFINE g == [k \in 0..0 |-> b]
  <2>1. Up(0, g) OBVIOUS
  <2> QED BY <1>1, <1>2, <2>1
<1>3. CASE m # 0
  <2>0. m - 1 \in 0..n /\ m \in 1..n BY <1>1, <1>3
  <2>1. m - 1 \in 0..n /\ m - 1 \notin None /\ m \in 1..n
    <3>1. ~(m <= m - 1) BY <2>0
    <3> HIDE DEF None
    <3> QED BY <1>1, <2>0, <3>1
  <2>2. PICK h : Up(m - 1, h) BY <2>1
  <2> DEFINE g == [k \in 0..m |-> IF k < m THEN h[k] ELSE F[m][h[m - 1]]]
  <2>3. F[m] \in [S -> S] /\ h[m - 1] \in S BY <2>1, <2>2
  <2>4. g \in [0..m -> S]
    <3>1. \A k \in 0..m : k < m => k \in 0..m - 1 BY <2>1
    <3> QED BY <2>2, <2>3, <3>1
  <2>5. g[0] = b BY <2>1, <2>2
  <2>6. ASSUME NEW k \in 1..m PROVE g[k] = F[k][g[k - 1]]
    <3>1. CASE k < m
      <4>1. k \in 1..m - 1 /\ k - 1 \in 0..m /\ k - 1 < m BY <2>1, <3>1
      <4> QED BY <2>2, <3>1, <4>1
    <3>2. CASE k = m BY <2>1, <3>2
    <3> QED BY <2>1, <3>1, <3>2
  <2>7. Up(m, g)
    <3> HIDE DEF g
    <3> QED BY <2>4, <2>5, <2>6
  <2> QED BY <1>1, <2>7
<1> QED BY <1>2, <1>3

-----------------------------------------------------------------------------
(* The table of open files                                                 *)

Slots == 1..MaxOpen

\* A table without a file that is open twice.
Once(table) ==
    /\ DOMAIN table = Slots
    /\ \A k \in Slots : table[k] # Closed => table[k].fcb # NoFile
    /\ \A j, k \in Slots : table[j] # Closed /\ table[j].fcb = table[k].fcb => j = k

\* A table with some slots closed, none of them under the name of the prompt.
Fewer(table, left, name) ==
    /\ left = [k \in Slots |-> left[k]]
    /\ \A k \in Slots : \/ left[k] = table[k]
                        \/ left[k] = Closed /\ table[k] # Closed /\ table[k].path # name

\* What the loops of is_file_open and get_user_open find.
LEMMA OpenSlot ==
    ASSUME NEW table, DOMAIN table = Slots, NEW files, NEW path
    PROVE  LET k == IsFileOpen(files, table, path)
           IN /\ k = 0 => \A j \in Slots : table[j] # Closed =>
                                              table[j].fcb # FindFcb(files, path)
              /\ k # 0 => k \in Slots /\ table[k] # Closed
                          /\ table[k].fcb = FindFcb(files, path)
<1> DEFINE Found == {j \in DOMAIN table : table[j] # Closed
                                            /\ table[j].fcb = FindFcb(files, path)}
<1>1. Found \subseteq Nat \ {0} BY DEF Slots
<1>2. IsFileOpen(files, table, path) = First(Found) BY DEF IsFileOpen
<1>3. /\ First(Found) = 0 <=> Found = {}
      /\ Found # {} => First(Found) \in Found
  <2> HIDE DEF Found
  <2> QED BY <1>1, FirstOf
<1> QED BY <1>2, <1>3

LEMMA Opened ==
    ASSUME NEW table, DOMAIN table = Slots, NEW path
    PROVE  \/ DoOpen(table, path) = table /\ \A j \in Slots : table[j] # Closed
           \/ \E k \in Slots : /\ table[k] = Closed
                               /\ DoOpen(table, path) = [table EXCEPT ![k] =
                                      [fcb |-> FindFcb(fcb, path), path |-> path]]
<1> DEFINE Empty == {j \in DOMAIN table : table[j] = Closed}
<1>1. Empty \subseteq Nat \ {0} BY DEF Slots
<1>2. /\ First(Empty) = 0 <=> Empty = {}
      /\ Empty # {} => First(Empty) \in Empty
  <2> HIDE DEF Empty
  <2> QED BY <1>1, FirstOf
<1>3. DoOpen(table, path) =
        IF First(Empty) = 0 THEN table
        ELSE [table EXCEPT ![First(Empty)] = [fcb |-> FindFcb(fcb, path), path |-> path]]
  BY DEF DoOpen
<1>4. CASE Empty = {} BY <1>2, <1>3, <1>4
<1>5. CASE Empty # {} BY <1>2, <1>3, <1>5
<1> QED BY <1>4, <1>5

LEMMA ClosedBy ==
    ASSUME NEW table, table = [k \in Slots |-> table[k]], NEW path, NEW name
    PROVE  LET left == DoClose(table, path, name)
           IN /\ Fewer(table, left, name)
              /\ \A k \in Slots : left[k] # table[k] => table[k].fcb = FindFcb(fcb, path)
<1> DEFINE k == IsFileOpen(fcb, table, path)
<1>1. k # 0 => k \in Slots /\ table[k] # Closed /\ table[k].fcb = FindFcb(fcb, path)
  BY OpenSlot
<1>2. DoClose(table, path, name) =
        IF FindFcb(fcb, path) = NoFile \/ k = 0 THEN table
        ELSE IF table[k].path = name THEN table ELSE [table EXCEPT ![k] = Closed]
  BY DEF DoClose
<1> HIDE DEF k
<1> QED BY <1>1, <1>2 DEF Fewer

LEMMA FewerIsOnce ==
    ASSUME NEW table, Once(table), NEW left, NEW name, Fewer(table, left, name)
    PROVE  Once(left)
<1>1. Closed.fcb = NoFile BY DEF Closed
<1> QED BY <1>1 DEF Once, Fewer

LEMMA FewerAgain ==
    ASSUME NEW a, NEW b, NEW c, NEW name, Fewer(a, b, name), Fewer(b, c, name)
    PROVE  Fewer(a, c, name)
BY DEF Fewer

\* The equation of the recursive function in CloseAll, and its solution.
Closing(g) ==
    g = [k \in 0..MaxOpen |-> IF k > 0 THEN CloseSlot(g[k - 1], k)
                              ELSE [table |-> open, ended |-> FALSE]]

LEMMA AllClosed ==
    ASSUME open = [k \in Slots |-> open[k]], CloseAll
    PROVE  Fewer(open, open', cwdName)
<1>0. MaxOpen \in Nat BY NamespaceAssumption
<1> DEFINE Tables == [Slots -> {open[k] : k \in Slots} \cup {Closed}]
           S == {acc \in [table : Tables, ended : BOOLEAN] : Fewer(open, acc.table, cwdName)}
           b == [table |-> open, ended |-> FALSE]
           F == [k \in 1..MaxOpen |-> [acc \in S |-> CloseSlot(acc, k)]]
           c == CHOOSE c : Closing(c)
<1>1. b \in S
  <2>1. \A k \in Slots : open[k] \in {open[j] : j \in Slots} \cup {Closed} OBVIOUS
  <2>2. [k \in Slots |-> open[k]] \in Tables BY <2>1
  <2>3. open \in Tables BY <2>2
  <2>4. Fewer(open, open, cwdName) BY DEF Fewer
  <2> QED BY <2>3, <2>4
<1>2. ASSUME NEW acc \in S, NEW k \in Slots PROVE CloseSlot(acc, k) \in S
  <2>1. DOMAIN acc.table = Slots /\ Fewer(open, acc.table, cwdName) BY DEF Fewer
  <2> DEFINE left == DoClose(acc.table, acc.table[k].path, cwdName)
  <2>2. Fewer(acc.table, left, cwdName) BY <2>1, ClosedBy
  <2>3. Fewer(open, left, cwdName) BY <2>1, <2>2, FewerAgain
  <2>4. left \in Tables
    <3>1. left = acc.table \/ \E j \in Slots : left = [acc.table EXCEPT ![j] = Closed]
      <4> DEFINE j == IsFileOpen(fcb, acc.table, acc.table[k].path)
      <4>1. j # 0 => j \in Slots BY <2>1, OpenSlot
      <4> QED BY <4>1 DEF DoClose
    <3> QED BY <3>1
  <2> HIDE DEF left, Tables
  <2>5. acc.table \in Tables /\ acc.ended \in BOOLEAN OBVIOUS
  <2>6. [acc EXCEPT !.ended = TRUE] \in S /\ [acc EXCEPT !.table = left] \in S
    BY <2>1, <2>3, <2>4, <2>5
  <2> QED BY <2>6 DEF CloseSlot, left
<1>3. F \in [1..MaxOpen -> [S -> S]]
  <2> HIDE DEF S
  <2> QED BY <1>2 DEF Slots
<1>4. PICK g : Chain(g, MaxOpen, S, b, F)
  <2> HIDE DEF S, F, b
  <2> QED BY <1>0, <1>1, <1>3, Iterated
<1>5. ASSUME NEW k \in 1..MaxOpen PROVE g[k] = CloseSlot(g[k - 1], k)
  <2>1. g[k - 1] \in S /\ g[k] = F[k][g[k - 1]]
    <3>1. k - 1 \in 0..MaxOpen BY <1>0
    <3> HIDE DEF S, F, b
    <3> QED BY <1>4, <3>1 DEF Chain
  <2> HIDE DEF S
  <2> QED BY <2>1
<1>6. Closing(g)
  <2>1. \A k \in 0..MaxOpen : g[k] = IF k > 0 THEN CloseSlot(g[k - 1], k) ELSE b
    <3> HIDE DEF S, F, b
    <3> QED BY <1>4, <1>5 DEF Chain
  <2>2. g = [k \in 0..MaxOpen |-> g[k]] BY <1>4 DEF Chain
  <2> QED BY <2>1, <2>2 DEF Closing
<1>7. Closing(c) BY <1>6
<1>8. open' = c[MaxOpen].table BY DEF CloseAll, Closing
<1>9. c[MaxOpen] \in S
  <2> HIDE DEF S, F, c, b
  <2> DEFINE T == {k \in 0..MaxOpen : c[k] \in S}
  <2>1. 0 \in T BY <1>0, <1>1, <1>7 DEF Closing, b
  <2>2. ASSUME NEW k \in 1..MaxOpen, k - 1 \in T PROVE k \in T
    <3>1. k \in 0..MaxOpen /\ k > 0 BY <1>0
    <3>2. \A h : Closing(h) => h[k] = CloseSlot(h[k - 1], k) BY <3>1 DEF Closing
    <3> QED BY <1>2, <1>7, <2>2, <3>1, <3>2 DEF Slots
  <2>3. 0..MaxOpen \subseteq T
    <3> HIDE DEF T
    <3> QED BY <1>0, <2>1, <2>2, Upwards
  <2> QED BY <1>0, <2>3
<1> QED BY <1>8, <1>9

-----------------------------------------------------------------------------
(* The tree                                                                *)

Dirents == [name : Names \cup {".", ".."}, inode : Inodes]
Fcbs == [is_used : BOOLEAN, dir : BOOLEAN, name : Names \cup {"/"}, entries : Seq(Dirents)]

Types ==
    /\ fcb \in [Inodes -> Fcbs]
    /\ open \in [Slots -> [fcb : Inodes \cup {NoFile}, path : Seq(Names)]]
    /\ cwd \in Inodes /\ cwdName \in Seq(Names) /\ astray \in BOOLEAN

\* Where the files and directories are entered in a directory, behind its dots.
Dots(d) == IF d = Root THEN 1 ELSE 2
Listed(d) == {k \in DOMAIN fcb[d].entries : k > Dots(d)}
Child(d, k) == fcb[d].entries[k].inode

\* What the FCBs of the directories look like.
Shape ==
    /\ fcb[Root].dir
    /\ \A i \in Inodes : ~fcb[i].is_used => ~fcb[i].dir
    /\ \A i \in Inodes : ~fcb[i].dir => fcb[i].entries = <<>>
    /\ \A i \in Inodes : fcb[i].dir =>
          /\ Len(fcb[i].entries) >= Dots(i)
          /\ fcb[i].entries[1] = Entry(".", i)
          /\ i # Root => fcb[i].entries[2].name = ".."
          /\ \A k \in Listed(i) : fcb[i].entries[k].name \in Names
    /\ fcb[cwd].is_used => fcb[cwd].dir

\* Every file and directory but the root is entered once, in the directory its
\* dots lead back to.
Tree ==
    /\ \A d \in Inodes : \A k \in Listed(d) :
          /\ Child(d, k) # Root /\ fcb[Child(d, k)].is_used
          /\ fcb[Child(d, k)].dir => Child(Child(d, k), 2) = d
    /\ \A d, e \in Inodes : \A k \in Listed(d), l \in Listed(e) :
          Child(d, k) = Child(e, l) => d = e /\ k = l
    /\ \A i \in Inodes \ {Root} : fcb[i].is_used =>
          \E d \in Inodes : \E k \in Listed(d) : Child(d, k) = i

\* No directory is below itself.
Ranks(h) == /\ h \in [Inodes -> Nat]
            /\ \A d \in Inodes : \A k \in Listed(d) : h[d] < h[Child(d, k)]
Ranked == \E h : Ranks(h)

-----------------------------------------------------------------------------
(* Paths                                                                   *)

\* A path that is typed is resolved to a sequence of names.
LEMMA FullPaths ==
    ASSUME cwdName \in Seq(Names), NEW arg \in Args
    PROVE  GetFullPath(arg) \in Seq(Names)
<1> DEFINE n == Len(arg.parts)
           b == IF arg.absolute THEN <<>> ELSE cwdName
           Full(g) == g = [k \in 0..n |-> IF k > 0 THEN Onward(g[k - 1], arg.parts[k])
                                          ELSE IF arg.absolute THEN <<>> ELSE cwdName]
           S == Seq(Names)
           F == [k \in 1..n |-> [path \in S |-> Onward(path, arg.parts[k])]]
           c == CHOOSE c : Full(c)
<1>1. arg.parts \in Seq(Names \cup {".."}) /\ n \in Nat
  <2>1. \A m \in 0..MaxArg : [1..m -> Names \cup {".."}] \subseteq Seq(Names \cup {".."})
    BY SeqDef, NamespaceAssumption
  <2>2. arg.parts \in Seq(Names \cup {".."}) BY <2>1 DEF Args
  <2> QED BY <2>2, LenProperties
<1>2. b \in S BY EmptySeq
<1>3. ASSUME NEW path \in S, NEW k \in 1..n PROVE Onward(path, arg.parts[k]) \in S
  <2>1. arg.parts[k] \in Names \cup {".."} BY <1>1, ElementOfSeq
  <2>2. CASE arg.parts[k] # ".." BY <2>1, <2>2, AppendProperties DEF Onward
  <2>3. CASE arg.parts[k] = ".." /\ path = <<>> BY <2>3 DEF Onward
  <2>4. CASE arg.parts[k] = ".." /\ path # <<>>
    <3>1. Len(path) \in Nat /\ Len(path) # 0 BY <2>4, LenProperties, EmptySeq
    <3>2. Front(path) \in Seq(Names)
      <4>1. \A i \in 1..Len(path) - 1 : path[i] \in Names BY <3>1, ElementOfSeq
      <4> QED BY <3>1, <4>1, SubSeqProperties DEF Front
    <3> QED BY <2>4, <3>2 DEF Onward
  <2> QED BY <2>2, <2>3, <2>4
<1> HIDE DEF n, b, S, F, c
<1>4. F \in [1..n -> [S -> S]] BY <1>3 DEF F
<1>5. PICK g : Chain(g, n, S, b, F) BY <1>1, <1>2, <1>4, Iterated
<1>6. ASSUME NEW k \in 1..n PROVE g[k] = Onward(g[k - 1], arg.parts[k])
  <2>1. k - 1 \in 0..n BY <1>1
  <2>2. g[k - 1] \in S /\ g[k] = F[k][g[k - 1]] BY <1>5, <2>1 DEF Chain
  <2> QED BY <2>2 DEF F
<1>7. Full(g)
  <2>1. \A k \in 0..n : g[k] = IF k > 0 THEN Onward(g[k - 1], arg.parts[k])
                              ELSE IF arg.absolute THEN <<>> ELSE cwdName
    BY <1>1, <1>5, <1>6 DEF Chain, b
  <2>2. g = [k \in 0..n |-> g[k]] BY <1>5 DEF Chain
  <2> QED BY <2>1, <2>2
<1>8. Full(c) BY <1>7 DEF c
<1>9. GetFullPath(arg) = c[n] BY DEF GetFullPath, c, n
<1>10. c[0] = b BY <1>1, <1>8 DEF b
<1>11. ASSUME NEW k \in 1..n PROVE c[k] = Onward(c[k - 1], arg.parts[k])
  <2>1. k \in 0..n /\ k > 0 BY <1>1
  <2>2. \A h : Full(h) => h[k] = Onward(h[k - 1], arg.parts[k]) BY <2>1
  <2> QED BY <1>8, <2>2
<1>12. c[n] \in Seq(Names)
  <2> DEFINE T == {k \in 0..n : c[k] \in S}
  <2>1. 0 \in T BY <1>1, <1>2, <1>10
  <2>2. ASSUME NEW k \in 1..n, k - 1 \in T PROVE k \in T
    <3>1. k \in 0..n BY <1>1
    <3> QED BY <1>3, <1>11, <2>2, <3>1
  <2>3. 0..n \subseteq T
    <3> HIDE DEF T
    <3> QED BY <1>1, <2>1, <2>2, Upwards
  <2> QED BY <1>1, <2>3 DEF S
<1> QED BY <1>9, <1>12

\* The positions of a walk: one component after the other, from the root.
Top == [at |-> Root, last |-> "/", parent |-> Root]
Walked(files, path, c) ==
    /\ c[0] = Top
    /\ \A k \in 1..Len(path) : c[k] = Down(files, c[k - 1], path[k])
    /\ Walk(files, path) = c[Len(path)]
Positions == [at : Inodes, last : Names \cup {".", "..", "/"}, parent : Inodes]

LEMMA LookedUp ==
    ASSUME NEW files \in [Inodes -> Fcbs], NEW i \in Inodes, NEW name
    PROVE  LET k == Lookup(files, i, name)
               s == files[i].entries
           IN /\ s \in Seq(Dirents)
              /\ k = 0 => \A j \in DOMAIN s : s[j].name # name
              /\ k # 0 => /\ k \in DOMAIN s /\ s[k].name = name
                          /\ \A j \in DOMAIN s : s[j].name = name => k <= j
<1> DEFINE s == files[i].entries
           Same == {j \in DOMAIN s : s[j].name = name}
<1>1. s \in Seq(Dirents) BY DEF Fcbs
<1>2. Same \subseteq Nat \ {0} BY <1>1, LenProperties
<1>3. /\ First(Same) = 0 <=> Same = {}
      /\ Same # {} => First(Same) \in Same /\ \A j \in Same : First(Same) <= j
  <2> HIDE DEF Same
  <2> QED BY <1>2, FirstOf
<1>4. Lookup(files, i, name) = First(Same) BY DEF Lookup
<1> QED BY <1>1, <1>3, <1>4

LEMMA GoesDown ==
    ASSUME NEW files \in [Inodes -> Fcbs], NEW w \in Positions, NEW part \in Names
    PROVE  Down(files, w, part) \in Positions
<1> DEFINE s == files[w.at].entries
           k == Lookup(files, w.at, part)
<1>1. w.at \in Inodes BY DEF Positions
<1>2. s \in Seq(Dirents) /\ (k # 0 => k \in DOMAIN s) BY <1>1, LookedUp
<1>3. \A j \in DOMAIN s : s[j] \in Dirents BY <1>2, LenProperties, ElementOfSeq
<1>4. CASE k > 0 BY <1>1, <1>2, <1>3, <1>4 DEF Down, Positions, Dirents
<1>5. CASE ~(k > 0) /\ s = <<>> BY <1>5 DEF Down
<1>6. CASE ~(k > 0) /\ s # <<>>
  <2>1. Len(s) \in DOMAIN s BY <1>2, <1>6, EmptySeq, LenProperties
  <2>2. s[Len(s)].name \in Names \cup {".", ".."} BY <1>3, <2>1 DEF Dirents
  <2>3. Down(files, w, part) = [w EXCEPT !.last = s[Len(s)].name] BY <1>6 DEF Down
  <2> QED BY <2>2, <2>3 DEF Positions
<1> QED BY <1>4, <1>5, <1>6

LEMMA WalkIs ==
    ASSUME NEW files \in [Inodes -> Fcbs], NEW path \in Seq(Names)
    PROVE  \E c : Walked(files, path, c) /\ \A k \in 0..Len(path) : c[k] \in Positions
<1> DEFINE n == Len(path)
           Steps(g) == g = [k \in 0..n |->
                              IF k > 0 THEN Down(files, g[k - 1], path[k])
                              ELSE [at |-> Root, last |-> "/", parent |-> Root]]
           F == [k \in 1..n |-> [w \in Positions |-> Down(files, w, path[k])]]
           c == CHOOSE c : Steps(c)
<1>1. n \in Nat BY LenProperties
<1>2. Top \in Positions BY NamespaceAssumption DEF Top, Positions, Root, Inodes
<1>3. ASSUME NEW w \in Positions, NEW k \in 1..n PROVE Down(files, w, path[k]) \in Positions
  BY ElementOfSeq, GoesDown
<1> HIDE DEF n, F, c
<1>4. F \in [1..n -> [Positions -> Positions]] BY <1>3 DEF F
<1>5. PICK g : Chain(g, n, Positions, Top, F) BY <1>1, <1>2, <1>4, Iterated
<1>6. ASSUME NEW k \in 1..n PROVE g[k] = Down(files, g[k - 1], path[k])
  <2>1. k - 1 \in 0..n BY <1>1
  <2>2. g[k - 1] \in Positions /\ g[k] = F[k][g[k - 1]] BY <1>5, <2>1 DEF Chain
  <2> QED BY <2>2 DEF F
<1>7. Steps(g)
  <2>1. \A k \in 0..n : g[k] = IF k > 0 THEN Down(files, g[k - 1], path[k])
                               ELSE [at |-> Root, last |-> "/", parent |-> Root]
    BY <1>1, <1>5, <1>6 DEF Chain, Top
  <2>2. g = [k \in 0..n |-> g[k]] BY <1>5 DEF Chain
  <2> QED BY <2>1, <2>2
<1>8. Steps(c) BY <1>7 DEF c
<1>9. Walk(files, path) = c[n] BY DEF Walk, c, n
<1>10. c[0] = Top BY <1>1, <1>8 DEF Top
<1>11. ASSUME NEW k \in 1..n PROVE c[k] = Down(files, c[k - 1], path[k])
  <2>1. k \in 0..n /\ k > 0 BY <1>1
  <2>2. \A h : Steps(h) => h[k] = Down(files, h[k - 1], path[k]) BY <2>1
  <2> QED BY <1>8, <2>2
<1>12. \A k \in 0..n : c[k] \in Positions
  <2> DEFINE T == {k \in 0..n : c[k] \in Positions}
  <2>1. 0 \in T BY <1>1, <1>2, <1>10
  <2>2. ASSUME NEW k \in 1..n, k - 1 \in T PROVE k \in T
    <3>1. k \in 0..n BY <1>1
    <3> QED BY <1>3, <1>11, <2>2, <3>1
  <2>3. 0..n \subseteq T
    <3> HIDE DEF T
    <3> QED BY <1>1, <2>1, <2>2, Upwards
  <2> QED BY <2>3
<1> QED BY <1>9, <1>10, <1>11, <1>12 DEF Walked, n

\* A walk is at the root or at what it found last; and where nothing is entered
\* it has just found that.
Entered(w, k) == k \in Listed(w.parent) /\ Child(w.parent, k) = w.at
Standing(w) ==
    /\ w \in Positions
    /\ w.at = Root \/ \E k : Entered(w, k)
    /\ \/ fcb[w.at].entries # <<>>
       \/ \E k : Entered(w, k) /\ fcb[w.parent].entries[k].name = w.last

\* A name is that of an entry behind the dots.
LEMMA NamedIsListed ==
    ASSUME Types, Shape, NEW d \in Inodes, NEW k \in DOMAIN fcb[d].entries
    PROVE  /\ fcb[d].dir
           /\ fcb[d].entries[k].name \in Names <=> k \in Listed(d)
<1>1. fcb[d].entries \in Seq(Dirents) BY DEF Types, Fcbs
<1>2. fcb[d].entries # <<>> /\ k \in Nat \ {0} BY <1>1, EmptySeq, LenProperties
<1>3. fcb[d].dir BY <1>2 DEF Shape
<1>4. k = 1 => fcb[d].entries[k].name = "."
  <2>1. fcb[d].entries[1] = Entry(".", d) BY <1>3 DEF Shape
  <2> QED BY <2>1 DEF Entry
<1>5. k = 2 /\ d # Root => fcb[d].entries[k].name = ".." BY <1>3 DEF Shape
<1>6. k \in Listed(d) => fcb[d].entries[k].name \in Names BY <1>3 DEF Shape
<1>7. k \notin Listed(d) => k = 1 \/ (k = 2 /\ d # Root) BY <1>2 DEF Listed, Dots
<1> QED BY <1>3, <1>4, <1>5, <1>6, <1>7, NamespaceAssumption

\* Directory p has an entry for inode i behind the dots, with this name.
EntersAs(p, i, name) ==
    \E k \in Listed(p) : Child(p, k) = i /\ fcb[p].entries[k].name = name

LEMMA StandsBelow ==
    ASSUME Types, Shape, NEW w, Standing(w), NEW part \in Names
    PROVE  LET v == Down(fcb, w, part)
           IN /\ Standing(v)
              /\ v.last = part => EntersAs(v.parent, v.at, part)
<1> DEFINE s == fcb[w.at].entries
           k == Lookup(fcb, w.at, part)
           v == Down(fcb, w, part)
<1>1. w \in Positions /\ w.at \in Inodes /\ w.parent \in Inodes BY DEF Standing, Positions
<1>2. fcb \in [Inodes -> Fcbs] BY DEF Types
<1>3. v \in Positions BY <1>1, <1>2, GoesDown
<1>4. /\ s \in Seq(Dirents)
      /\ k = 0 => \A j \in DOMAIN s : s[j].name # part
      /\ k # 0 => k \in DOMAIN s /\ s[k].name = part
  BY <1>1, <1>2, LookedUp
<1>5. k # 0 => k \in Nat /\ k > 0 BY <1>4, LenProperties
<1>6. CASE k > 0
  <2>1. k \in Listed(w.at) BY <1>1, <1>4, <1>6, NamedIsListed
  <2>2. v = [at |-> s[k].inode, last |-> part, parent |-> w.at] BY <1>6 DEF Down
  <2>3. Entered(v, k) /\ fcb[v.parent].entries[k].name = v.last /\ v.last = part
    BY <1>4, <1>6, <2>1, <2>2 DEF Entered, Child
  <2>4. EntersAs(v.parent, v.at, part) BY <2>3 DEF Entered, EntersAs
  <2> QED BY <1>3, <2>3, <2>4 DEF Standing
<1>7. CASE ~(k > 0) /\ s = <<>>
  <2>1. v = w BY <1>7 DEF Down
  <2>2. \E j : Entered(w, j) /\ fcb[w.parent].entries[j].name = w.last BY <1>7 DEF Standing
  <2>3. EntersAs(w.parent, w.at, w.last) BY <2>2 DEF Entered, EntersAs
  <2> QED BY <2>1, <2>3
<1>8. CASE ~(k > 0) /\ s # <<>>
  <2>1. v = [w EXCEPT !.last = s[Len(s)].name] BY <1>8 DEF Down
  <2>2. v.at = w.at /\ v.parent = w.parent /\ v.last = s[Len(s)].name
    BY <1>1, <2>1 DEF Positions
  <2>3. Len(s) \in DOMAIN s BY <1>4, <1>8, EmptySeq, LenProperties
  <2>4. v.last # part BY <1>4, <1>5, <1>8, <2>2, <2>3
  <2> QED BY <1>3, <1>8, <2>2, <2>4 DEF Standing, Entered
<1> QED BY <1>6, <1>7, <1>8

LEMMA Stands ==
    ASSUME Types, Shape, NEW path \in Seq(Names), NEW c, Walked(fcb, path, c)
    PROVE  \A k \in 0..Len(path) : Standing(c[k])
<1> DEFINE n == Len(path)
           T == {k \in 0..n : Standing(c[k])}
<1>1. n \in Nat BY LenProperties
<1>2. Standing(Top)
  <2>1. Root \in Inodes BY NamespaceAssumption DEF Root, Inodes
  <2>2. fcb[Root].entries # <<>>
    <3>1. Len(fcb[Root].entries) >= 1 BY <2>1 DEF Shape, Dots
    <3> QED BY <3>1
  <2> QED BY <2>1, <2>2 DEF Standing, Top, Positions
<1>3. 0 \in T BY <1>1, <1>2 DEF Walked
<1>4. ASSUME NEW k \in 1..n, k - 1 \in T PROVE k \in T
  <2>1. path[k] \in Names /\ k \in 0..n BY <1>1, ElementOfSeq
  <2>2. Standing(c[k - 1]) BY <1>4
  <2>3. Standing(Down(fcb, c[k - 1], path[k])) BY <2>1, <2>2, StandsBelow
  <2>4. c[k] = Down(fcb, c[k - 1], path[k]) BY DEF Walked
  <2> QED BY <2>1, <2>3, <2>4
<1>5. 0..n \subseteq T
  <2> HIDE DEF T
  <2> QED BY <1>1, <1>3, <1>4, Upwards
<1> QED BY <1>5

\* What a path that is resolved leads to.
LEMMA Resolved ==
    ASSUME Types, Shape, Tree, Running, NEW path \in Seq(Names),
           FindFcb(fcb, path) # NoFile
    PROVE  LET i == FindFcb(fcb, path)
               p == FindParentFcb(fcb, path)
           IN /\ i \in Inodes /\ fcb[i].is_used
              /\ path = <<>> => i = Root
              /\ path # <<>> => i # Root /\ p \in Inodes /\ EntersAs(p, i, Last(path))
<1> DEFINE n == Len(path)
<1>1. PICK c : Walked(fcb, path, c) BY WalkIs DEF Types
<1>2. n \in Nat BY LenProperties
<1>3. \A k \in 0..n : Standing(c[k]) BY <1>1, Stands
<1>4. /\ Walk(fcb, path) = c[n] /\ FindFcb(fcb, path) = c[n].at
      /\ FindParentFcb(fcb, path) = c[n].parent
      /\ path = <<>> \/ c[n].last = path[n]
  BY <1>1 DEF Walked, FindFcb, FindParentFcb, Last
<1>5. CASE path = <<>>
  <2>1. n = 0 BY <1>5, EmptySeq
  <2>2. FindFcb(fcb, path) = Root BY <1>1, <1>4, <2>1 DEF Walked, Top
  <2> QED BY <1>5, <2>2, NamespaceAssumption DEF Running, Root, Inodes
<1>6. CASE path # <<>>
  <2>1. n \in 1..n /\ n - 1 \in 0..n BY <1>2, <1>6, EmptySeq
  <2>2. path[n] \in Names BY <2>1, ElementOfSeq
  <2>3. c[n] = Down(fcb, c[n - 1], path[n]) BY <1>1, <2>1 DEF Walked
  <2>4. EntersAs(c[n].parent, c[n].at, path[n])
    BY <1>3, <1>4, <1>6, <2>1, <2>2, <2>3, StandsBelow
  <2>5. c[n].parent \in Inodes BY <1>3, <2>1 DEF Standing, Positions
  <2>6. PICK k \in Listed(c[n].parent) : Child(c[n].parent, k) = c[n].at
    BY <2>4 DEF EntersAs
  <2>7. c[n].at # Root /\ fcb[c[n].at].is_used BY <2>5, <2>6 DEF Tree
  <2>8. c[n].at \in Inodes BY <1>3, <2>1 DEF Standing, Positions
  <2> QED BY <1>4, <1>6, <2>4, <2>5, <2>7, <2>8 DEF Last
<1> QED BY <1>5, <1>6

-----------------------------------------------------------------------------
(* The tree after a command                                                *)

TreeInv == Types /\ Once(open) /\ (Running => Shape /\ Tree /\ Ranked)

\* An FCB by its parts.
LEMMA Parts ==
    /\ \A u, d \in BOOLEAN : \A m \in Names \cup {"/"} : \A e \in Seq(Dirents) :
          [is_used |-> u, dir |-> d, name |-> m, entries |-> e] \in Fcbs
    /\ \A f \in Fcbs :
          /\ f.is_used \in BOOLEAN /\ f.dir \in BOOLEAN /\ f.name \in Names \cup {"/"}
          /\ f.entries \in Seq(Dirents)
          /\ \A e : [f EXCEPT !.entries = e] =
                [is_used |-> f.is_used, dir |-> f.dir, name |-> f.name, entries |-> e]
          /\ \A m : [f EXCEPT !.name = m] =
                [is_used |-> f.is_used, dir |-> f.dir, name |-> m, entries |-> f.entries]
          /\ \A u : [f EXCEPT !.is_used = u] =
                [is_used |-> u, dir |-> f.dir, name |-> f.name, entries |-> f.entries]
<1>1. \A u, d \in BOOLEAN : \A m \in Names \cup {"/"} : \A e \in Seq(Dirents) :
          [is_used |-> u, dir |-> d, name |-> m, entries |-> e] \in Fcbs
  BY DEF Fcbs
<1>2. \A f \in Fcbs :
          /\ f.is_used \in BOOLEAN /\ f.dir \in BOOLEAN /\ f.name \in Names \cup {"/"}
          /\ f.entries \in Seq(Dirents)
  BY DEF Fcbs
<1>3. ASSUME NEW f \in Fcbs, NEW e PROVE [f EXCEPT !.entries = e] =
                [is_used |-> f.is_used, dir |-> f.dir, name |-> f.name, entries |-> e]
  BY DEF Fcbs
<1>4. ASSUME NEW f \in Fcbs, NEW m PROVE [f EXCEPT !.name = m] =
                [is_used |-> f.is_used, dir |-> f.dir, name |-> m, entries |-> f.entries]
  BY DEF Fcbs
<1>5. ASSUME NEW f \in Fcbs, NEW u PROVE [f EXCEPT !.is_used = u] =
                [is_used |-> u, dir |-> f.dir, name |-> f.name, entries |-> f.entries]
  BY DEF Fcbs
<1> QED BY <1>1, <1>2, <1>3, <1>4, <1>5

LEMMA RootIsInode == Root \in Inodes
BY NamespaceAssumption DEF Root, Inodes

\* What is appended to a directory.
LEMMA Creates ==
    ASSUME Types, Shape, Tree, Ranked, cwd' = cwd,
           NEW name \in Names, NEW i \in Inodes, CanCreate(i), NEW dir \in BOOLEAN,
           NEW s, s = IF dir THEN <<Entry(".", i), Entry("..", cwd)>> ELSE <<>>,
           fcb' = Created(name, i, dir, s)
    PROVE  fcb' \in [Inodes -> Fcbs] /\ Shape' /\ Tree' /\ Ranked'
<1> USE RootIsInode
<1> DEFINE old == fcb[cwd].entries
           n == Len(old) + 1
           new == Append(old, Entry(name, i))
<1>1. /\ fcb \in [Inodes -> Fcbs] /\ cwd \in Inodes /\ i # cwd /\ i # Root
      /\ fcb[cwd].is_used /\ ~fcb[i].is_used /\ fcb[cwd].dir
  BY DEF CanCreate, Running, Types, Shape
<1>2. /\ old \in Seq(Dirents) /\ Len(old) \in Nat /\ DOMAIN old = 1..Len(old)
      /\ Len(old) >= Dots(cwd) /\ n \in Nat
  <2>1. old \in Seq(Dirents) BY <1>1 DEF Fcbs
  <2>2. Len(old) >= Dots(cwd) BY <1>1 DEF Shape
  <2> QED BY <2>1, <2>2, LenProperties
<1>3. Entry(name, i) \in Dirents BY DEF Entry, Dirents
<1>4. /\ new \in Seq(Dirents) /\ Len(new) = n /\ DOMAIN new = 1..n
      /\ \A k \in DOMAIN old : new[k] = old[k]
      /\ new[n] = Entry(name, i)
  <2> HIDE DEF old
  <2> QED BY <1>2, <1>3, AppendProperties, LenProperties
<1>5. s \in Seq(Dirents) /\ DOMAIN s \subseteq {1, 2} /\ Len(s) \in {0, 2}
  <2>1. Entry(".", i) \in Dirents /\ Entry("..", cwd) \in Dirents BY <1>1 DEF Entry, Dirents
  <2> QED BY <2>1, EmptySeq
<1>6. fcb[cwd] \in Fcbs BY <1>1
<1>7. /\ DOMAIN fcb' = Inodes
      /\ fcb'[i] = [is_used |-> TRUE, dir |-> dir, name |-> name, entries |-> s]
      /\ fcb'[cwd] = [fcb[cwd] EXCEPT !.entries = new]
      /\ \A d \in Inodes \ {i, cwd} : fcb'[d] = fcb[d]
      /\ fcb' = [d \in Inodes |-> fcb'[d]]
  BY <1>1 DEF Created
<1> HIDE DEF old, n, new
<1>8. fcb'[cwd] = [is_used |-> fcb[cwd].is_used, dir |-> fcb[cwd].dir,
                   name |-> fcb[cwd].name, entries |-> new]
  BY <1>6, <1>7, Parts
<1>9. fcb' \in [Inodes -> Fcbs]
  <2>1. fcb'[i] \in Fcbs
    <3>1. TRUE \in BOOLEAN /\ name \in Names \cup {"/"} OBVIOUS
    <3>2. [is_used |-> TRUE, dir |-> dir, name |-> name, entries |-> s] \in Fcbs
      BY <1>5, <3>1 DEF Fcbs
    <3> QED BY <1>7, <3>2, Zenon
  <2>2. fcb'[cwd] \in Fcbs
    <3>1. /\ fcb[cwd].is_used \in BOOLEAN /\ fcb[cwd].dir \in BOOLEAN
          /\ fcb[cwd].name \in Names \cup {"/"}
      BY <1>6, Parts
    <3>2. [is_used |-> fcb[cwd].is_used, dir |-> fcb[cwd].dir, name |-> fcb[cwd].name,
           entries |-> new] \in Fcbs
      BY <1>4, <3>1 DEF Fcbs
    <3> QED BY <1>8, <3>2, Zenon
  <2>3. \A d \in Inodes : fcb'[d] \in Fcbs BY <1>1, <1>7, <2>1, <2>2
  <2> QED BY <1>7, <2>3
\* The same FCBs, but for one more entry in the current directory.
<1>10. ASSUME NEW d \in Inodes
       PROVE  /\ d # i => fcb'[d].is_used = fcb[d].is_used /\ fcb'[d].dir = fcb[d].dir
              /\ d \notin {i, cwd} => fcb'[d].entries = fcb[d].entries
  BY <1>1, <1>7, <1>8
<1>11. /\ fcb'[i].is_used = TRUE /\ fcb'[i].dir = dir /\ fcb'[i].entries = s
       /\ fcb'[cwd].entries = new
  BY <1>7, <1>8
<1> PICK a \in Inodes : a = cwd BY <1>1
<1> PICK m \in Nat : m = n BY <1>2
<1>12. ASSUME NEW d \in Inodes, NEW k
       PROVE  /\ k \in Listed(d)' <=> k \in Listed(d) \/ (d = a /\ k = m)
              /\ k \in Listed(d) => Child(d, k)' = Child(d, k) /\ ~(d = a /\ k = m)
                                    /\ fcb'[d].entries[k] = fcb[d].entries[k]
  <2>1. CASE d = i
    <3>1. fcb[i].entries = <<>> BY <1>1 DEF Shape
    <3>2. Listed(i) = {} BY <3>1 DEF Listed
    <3>3. Listed(i)' = {} BY <1>1, <1>5, <1>11 DEF Listed, Dots
    <3> QED BY <1>1, <2>1, <3>2, <3>3
  <2>2. CASE d = cwd
    <3>1. n > Dots(cwd) /\ n \notin DOMAIN old BY <1>2 DEF n, Dots
    <3>2. \A j : j \in 1..n <=> j \in 1..Len(old) \/ j = n BY <1>2 DEF n
    <3>3. k \in Listed(cwd) => new[k] = old[k] /\ k # n BY <1>4, <3>1 DEF Listed, old
    <3>4. k \in Listed(cwd)' <=> k \in Listed(cwd) \/ k = n
      BY <1>2, <1>4, <1>11, <3>1, <3>2 DEF Listed, old, Dots
    <3> QED BY <1>11, <2>2, <3>3, <3>4 DEF Child, old
  <2>3. CASE d \notin {i, cwd} BY <1>10, <2>3 DEF Listed, Child
  <2> QED BY <2>1, <2>2, <2>3
<1>13. Child(a, m)' = i /\ m \in Listed(a)'
  <2>1. fcb'[a].entries[m] = Entry(name, i) BY <1>4, <1>11
  <2>2. Child(a, m)' = i BY <2>1 DEF Child, Entry
  <2> QED BY <1>1, <1>12, <2>2
\* Nobody has entered the new inode before.
<1>14. \A d \in Inodes : \A k \in Listed(d) :
          Child(d, k) \in Inodes /\ Child(d, k) # i /\ Child(d, k) # Root
  <2> SUFFICES ASSUME NEW d \in Inodes, NEW k \in Listed(d)
               PROVE  Child(d, k) \in Inodes /\ Child(d, k) # i /\ Child(d, k) # Root
    OBVIOUS
  <2>1. fcb[d].entries \in Seq(Dirents) BY <1>1 DEF Fcbs
  <2>2. fcb[d].entries[k] \in Dirents BY <2>1, LenProperties, ElementOfSeq DEF Listed
  <2> QED BY <1>1, <2>2 DEF Dirents, Child, Tree
<1>15. Shape'
  <2>1. fcb'[Root].dir BY <1>1, <1>10 DEF Shape
  <2>2. \A d \in Inodes : ~fcb'[d].is_used => ~fcb'[d].dir BY <1>10, <1>11 DEF Shape
  <2>3. \A d \in Inodes : ~fcb'[d].dir => fcb'[d].entries = <<>>
    BY <1>1, <1>10, <1>11 DEF Shape
  <2>4. ASSUME NEW d \in Inodes, fcb'[d].dir
        PROVE  /\ Len(fcb'[d].entries) >= Dots(d)
               /\ fcb'[d].entries[1] = Entry(".", d)
               /\ d # Root => fcb'[d].entries[2].name = ".."
               /\ \A k \in Listed(d)' : fcb'[d].entries[k].name \in Names
    <3>1. CASE d = i
      <4>1. s = <<Entry(".", i), Entry("..", cwd)>> BY <1>11, <2>4, <3>1
      <4>2. Listed(i)' = {} BY <1>1, <1>5, <1>11 DEF Listed, Dots
      <4>3. fcb'[d].entries = <<Entry(".", d), Entry("..", cwd)>> BY <1>11, <3>1, <4>1
      <4>4. Entry("..", cwd).name = ".." BY DEF Entry
      <4> HIDE DEF Shape
      <4> QED BY <3>1, <4>2, <4>3, <4>4 DEF Dots
    <3>2. CASE d = cwd
      <4>1. /\ old[1] = Entry(".", cwd) /\ (cwd # Root => old[2].name = "..")
            /\ \A k \in Listed(cwd) : old[k].name \in Names
        BY <1>1 DEF Shape, old
      <4>2. 1 \in DOMAIN old /\ (cwd # Root => 2 \in DOMAIN old) BY <1>2 DEF Dots
      <4>3. new[1] = old[1] /\ (cwd # Root => new[2] = old[2]) BY <1>4, <4>2
      <4>4. n >= Dots(cwd) BY <1>2 DEF n, Dots
      <4>5. \A k \in Listed(cwd)' : new[k].name \in Names
        <5> SUFFICES ASSUME NEW k \in Listed(cwd)' PROVE new[k].name \in Names OBVIOUS
        <5>1. CASE k \in Listed(cwd)
          <6>1. fcb'[cwd].entries[k] = fcb[cwd].entries[k] BY <1>1, <1>12, <5>1
          <6> QED BY <1>11, <4>1, <5>1, <6>1 DEF old
        <5>2. CASE k = m BY <1>4, <5>2 DEF Entry
        <5>3. k \in Listed(a)' OBVIOUS
        <5> QED BY <1>12, <5>1, <5>2, <5>3
      <4> QED BY <1>4, <1>11, <3>2, <4>1, <4>3, <4>4, <4>5
    <3>3. CASE d \notin {i, cwd} BY <1>10, <1>12, <2>4, <3>3 DEF Shape
    <3> QED BY <3>1, <3>2, <3>3
  <2>5. fcb'[cwd'].dir BY <1>1, <1>10
  <2> QED BY <2>1, <2>2, <2>3, <2>4, <2>5 DEF Shape, Dots
<1>16. Tree'
  <2>1. ASSUME NEW d \in Inodes, NEW k \in Listed(d)'
        PROVE  /\ Child(d, k)' # Root /\ fcb'[Child(d, k)'].is_used
               /\ fcb'[Child(d, k)'].dir => fcb'[Child(d, k)'].entries[2].inode = d
    <3> PICK c : c = Child(d, k)' OBVIOUS
    <3>0. SUFFICES /\ c # Root /\ fcb'[c].is_used
                   /\ fcb'[c].dir => fcb'[c].entries[2].inode = d
      OBVIOUS
    <3>1. CASE d = a /\ k = m
      <4>1. c = i BY <1>13, <3>1
      <4>2. dir => s[2].inode = cwd BY DEF Entry
      <4> QED BY <1>1, <1>11, <3>1, <4>1, <4>2
    <3>2. CASE k \in Listed(d)
      <4>1. c = Child(d, k) /\ c \in Inodes /\ c # i /\ c # Root BY <1>12, <1>14, <3>2
      <4>2. fcb[c].is_used /\ (fcb[c].dir => fcb[c].entries[2].inode = d)
        <5>1. fcb[c].is_used /\ (fcb[c].dir => Child(c, 2) = d) BY <3>2, <4>1 DEF Tree
        <5> QED BY <5>1 DEF Child
      <4>3. fcb'[c].is_used /\ fcb'[c].dir = fcb[c].dir BY <1>10, <4>1, <4>2
      <4>4. fcb[c].dir => fcb'[c].entries[2] = fcb[c].entries[2]
        <5>1. CASE c # cwd BY <1>10, <4>1, <5>1
        <5>2. CASE c = cwd
          <6>1. 2 \in DOMAIN old BY <1>2, <4>1, <5>2 DEF Dots
          <6> QED BY <1>4, <1>11, <5>2, <6>1 DEF old
        <5> QED BY <5>1, <5>2
      <4> QED BY <4>1, <4>2, <4>3, <4>4
    <3> QED BY <1>12, <3>1, <3>2
  <2>2. ASSUME NEW d \in Inodes, NEW e \in Inodes, NEW k \in Listed(d)', NEW l \in Listed(e)',
               Child(d, k)' = Child(e, l)'
        PROVE  d = e /\ k = l
    <3>1. CASE k \in Listed(d) /\ l \in Listed(e) BY <1>12, <2>2, <3>1 DEF Tree
    <3>2. CASE k \notin Listed(d) /\ l \in Listed(e) BY <1>12, <1>13, <1>14, <2>2, <3>2
    <3>3. CASE k \in Listed(d) /\ l \notin Listed(e) BY <1>12, <1>13, <1>14, <2>2, <3>3
    <3>4. CASE k \notin Listed(d) /\ l \notin Listed(e) BY <1>12, <3>4
    <3> QED BY <3>1, <3>2, <3>3, <3>4
  <2>3. ASSUME NEW j \in Inodes \ {Root}, fcb'[j].is_used
        PROVE  \E d \in Inodes : \E k \in Listed(d)' : Child(d, k)' = j
    <3>1. CASE j = i BY <1>1, <1>13, <3>1
    <3>2. CASE j # i
      <4>1. fcb[j].is_used BY <1>10, <2>3, <3>2
      <4>2. PICK d \in Inodes : \E k \in Listed(d) : Child(d, k) = j BY <4>1 DEF Tree
      <4> QED BY <1>12, <4>2
    <3> QED BY <3>1, <3>2
  <2> QED BY <2>1, <2>2, <2>3 DEF Tree, Child
<1>17. Ranked'
  <2>1. PICK h : Ranks(h) BY DEF Ranked
  <2> DEFINE g == [h EXCEPT ![i] = h[cwd] + 1]
  <2>2. g \in [Inodes -> Nat] BY <1>1, <2>1 DEF Ranks
  <2>3. ASSUME NEW d \in Inodes, NEW k \in Listed(d)' PROVE g[d] < g[Child(d, k)']
    <3>1. CASE d = a /\ k = m BY <1>1, <1>13, <2>1, <3>1 DEF Ranks
    <3>2. CASE k \in Listed(d)
      <4>1. Child(d, k)' = Child(d, k) /\ Child(d, k) \in Inodes /\ Child(d, k) # i
        BY <1>12, <1>14, <3>2
      <4>2. d # i
        <5>1. fcb[i].entries = <<>> BY <1>1 DEF Shape
        <5> QED BY <3>2, <5>1 DEF Listed
      <4> QED BY <2>1, <3>2, <4>1, <4>2 DEF Ranks
    <3> QED BY <1>12, <3>1, <3>2
  <2> HIDE DEF g
  <2> QED BY <2>2, <2>3 DEF Ranked, Ranks
<1> QED BY <1>9, <1>15, <1>16, <1>17

\* Which entry a file or an empty directory loses, and what the others keep.
Removed(i, p, m) ==
    /\ i \in Inodes \ {Root} /\ p \in Inodes \ {i} /\ m \in Listed(p) /\ Child(p, m) = i
    /\ Listed(i) = {}
    /\ DOMAIN fcb' = Inodes /\ fcb' = [d \in Inodes |-> fcb'[d]]
    /\ fcb'[i] = Unused
    /\ fcb'[p] = [fcb[p] EXCEPT !.entries = RemoveAt(fcb[p].entries, m)]
    /\ \A d \in Inodes \ {i, p} : fcb'[d] = fcb[d]

LEMMA WhatIsRemoved ==
    ASSUME Types, Shape, Tree, NEW i \in Inodes \ {Root}, NEW p \in Inodes,
           fcb[i].is_used, ~(fcb[i].dir /\ NotEmpty(i)), \E k \in Listed(p) : Child(p, k) = i,
           NEW files, files = IF fcb[i].dir THEN [fcb EXCEPT ![i].name = "/"] ELSE fcb,
           fcb' = [files EXCEPT ![i] = Unused,
                                ![p].entries = RemoveAt(@, First({k \in DOMAIN fcb[p].entries :
                                                               fcb[p].entries[k].inode = i}))]
    PROVE  \E m : Removed(i, p, m)
<1> USE RootIsInode
<1> DEFINE listed == fcb[p].entries
           Those == {k \in DOMAIN listed : listed[k].inode = i}
           m == First(Those)
<1>1. fcb \in [Inodes -> Fcbs] BY DEF Types
<1>2. listed \in Seq(Dirents) /\ DOMAIN listed \subseteq Nat \ {0}
  BY <1>1, LenProperties DEF Fcbs
<1>3. Listed(i) = {}
  <2>1. CASE ~fcb[i].dir
    <3>1. fcb[i].entries = <<>> BY <2>1 DEF Shape
    <3> QED BY <3>1 DEF Listed
  <2>2. CASE fcb[i].dir
    <3>1. fcb[i].entries \in Seq(Dirents) BY <1>1 DEF Fcbs
    <3>2. Len(fcb[i].entries) \in Nat /\ DOMAIN fcb[i].entries = 1..Len(fcb[i].entries)
      BY <3>1, LenProperties
    <3>3. ~(Len(fcb[i].entries) > 2) BY <2>2 DEF NotEmpty
    <3> QED BY <3>2, <3>3 DEF Listed, Dots
  <2> QED BY <2>1, <2>2
<1>4. PICK k \in Listed(p) : Child(p, k) = i OBVIOUS
<1>5. k \in Those /\ p # i BY <1>3, <1>4 DEF Listed, Child
<1>6. m \in Those
  <2>1. Those \subseteq Nat \ {0} BY <1>2
  <2> HIDE DEF Those
  <2> QED BY <1>5, <2>1, FirstOf
<1> HIDE DEF m
<1>7. fcb[p].dir /\ fcb[p].is_used
  <2>1. fcb[p].dir BY <1>4, NamedIsListed DEF Listed
  <2> QED BY <2>1 DEF Shape
<1>8. m # 1
  <2>1. listed[1] = Entry(".", p) BY <1>7 DEF Shape
  <2> QED BY <1>5, <1>6, <2>1 DEF Entry
<1>9. ASSUME p # Root PROVE m # 2
  <2>1. PICK q \in Inodes : \E l \in Listed(q) : Child(q, l) = p BY <1>7, <1>9 DEF Tree
  <2>2. Child(p, 2) = q BY <1>7, <2>1 DEF Tree
  <2>3. q # i BY <1>3, <2>1
  <2> QED BY <1>6, <2>2, <2>3 DEF Child
<1>10. m \in Listed(p) /\ Child(p, m) = i
  BY <1>2, <1>6, <1>8, <1>9 DEF Listed, Child, Dots
<1>11. /\ DOMAIN fcb' = Inodes /\ fcb' = [d \in Inodes |-> fcb'[d]]
       /\ fcb'[i] = Unused
       /\ fcb'[p] = [fcb[p] EXCEPT !.entries = RemoveAt(fcb[p].entries, m)]
       /\ \A d \in Inodes \ {i, p} : fcb'[d] = fcb[d]
  <2>1. files \in [Inodes -> {files[d] : d \in Inodes}] BY <1>1
  <2>2. \A d \in Inodes \ {i} : files[d] = fcb[d] BY <1>1
  <2>3. fcb' = [files EXCEPT ![i] = Unused, ![p].entries = RemoveAt(@, m)] BY DEF m
  <2>4. p \in Inodes \ {i} /\ files[p] = fcb[p] BY <1>5, <2>2
  <2>5. DOMAIN fcb' = Inodes /\ fcb' = [d \in Inodes |-> fcb'[d]] BY <2>1, <2>3
  <2>6. fcb'[i] = Unused /\ \A d \in Inodes \ {i, p} : fcb'[d] = files[d]
    BY <2>1, <2>3, <2>4
  <2>7. fcb'[p] = [files[p] EXCEPT !.entries = RemoveAt(@, m)] BY <2>1, <2>3, <2>4
  <2> QED BY <2>2, <2>4, <2>5, <2>6, <2>7
<1> QED BY <1>3, <1>5, <1>10, <1>11 DEF Removed

\* The entry at a position after the removal, before it.
Was(p, m, d, k) == IF d = p /\ k >= m THEN k + 1 ELSE k

Moved(p, m, d, k) ==
    /\ k \in Listed(d)' => /\ Was(p, m, d, k) \in Listed(d)
                           /\ fcb'[d].entries[k] = fcb[d].entries[Was(p, m, d, k)]
    /\ k \in Listed(d) => (d = p /\ k = m) \/ \E l \in Listed(d)' : Was(p, m, d, l) = k

LEMMA Removes ==
    ASSUME Types, Shape, Tree, Ranked, cwd' = cwd, NEW i, NEW p, NEW m, Removed(i, p, m)
    PROVE  /\ fcb' \in [Inodes -> Fcbs] /\ Shape' /\ Tree' /\ Ranked'
           /\ \A d \in Inodes : \A k : Moved(p, m, d, k)
<1> USE RootIsInode
<1> DEFINE old == fcb[p].entries
           new == RemoveAt(old, m)
<1>1. /\ fcb \in [Inodes -> Fcbs] /\ i \in Inodes \ {Root} /\ p \in Inodes \ {i}
      /\ m \in Listed(p) /\ Child(p, m) = i /\ Listed(i) = {}
  BY DEF Types, Removed
<1>2. /\ old \in Seq(Dirents) /\ Len(old) \in Nat /\ DOMAIN old = 1..Len(old)
      /\ m \in 1..Len(old) /\ m > Dots(p)
  <2>1. old \in Seq(Dirents) BY <1>1 DEF Fcbs
  <2> QED BY <1>1, <2>1, LenProperties DEF Listed
<1>3. /\ new \in Seq(Dirents) /\ Len(new) = Len(old) - 1 /\ DOMAIN new = 1..Len(old) - 1
      /\ \A k \in DOMAIN new : new[k] = old[Was(p, m, p, k)]
  <2> HIDE DEF old
  <2>1. \A k \in 1..Len(old) : old[k] \in Dirents BY <1>2, ElementOfSeq
  <2> DEFINE a == SubSeq(old, 1, m - 1)
             b == SubSeq(old, m + 1, Len(old))
  <2>2. a \in Seq(Dirents) /\ Len(a) = m - 1 /\ \A k \in 1..m - 1 : a[k] = old[k]
    BY <1>2, <2>1, SubSeqProperties
  <2>3. /\ b \in Seq(Dirents) /\ Len(b) = Len(old) - m
        /\ \A k \in 1..Len(old) - m : b[k] = old[m + k]
    <3>1. PICK q \in Nat : q = m + 1 BY <1>2
    <3>2. Len(old) \in Int /\ \A k \in q..Len(old) : old[k] \in Dirents BY <1>2, <2>1, <3>1
    <3>3. /\ SubSeq(old, q, Len(old)) \in Seq(Dirents)
          /\ Len(SubSeq(old, q, Len(old))) = IF q <= Len(old) THEN Len(old) - q + 1 ELSE 0
          /\ \A k \in 1..Len(old) - q + 1 : SubSeq(old, q, Len(old))[k] = old[q + k - 1]
      BY <3>2, SubSeqProperties
    <3>4. b = SubSeq(old, q, Len(old)) BY <3>1
    <3> HIDE DEF b
    <3>5. /\ b \in Seq(Dirents)
          /\ Len(b) = IF q <= Len(old) THEN Len(old) - q + 1 ELSE 0
          /\ \A k \in 1..Len(old) - q + 1 : b[k] = old[q + k - 1]
      BY <3>3, <3>4, Zenon
    <3>6. \A L \in Nat : m \in 1..L => /\ (IF q <= L THEN L - q + 1 ELSE 0) = L - m
                                       /\ L - q + 1 = L - m
      BY <1>2, <3>1
    <3>7. Len(b) = Len(old) - m BY <1>2, <3>5, <3>6
    <3>8. ASSUME NEW k \in 1..Len(old) - m PROVE b[k] = old[m + k]
      <4>1. q + k - 1 = m + k /\ k \in 1..Len(old) - q + 1 BY <1>2, <3>1
      <4> QED BY <3>5, <4>1
    <3> QED BY <3>5, <3>7, <3>8
  <2>4. new = a \o b BY DEF RemoveAt
  <2> HIDE DEF a, b, new
  <2>5. /\ new \in Seq(Dirents) /\ Len(new) = Len(old) - 1
        /\ \A k \in 1..Len(old) - 1 : new[k] = IF k <= m - 1 THEN a[k] ELSE b[k - (m - 1)]
    <3>1. /\ a \o b \in Seq(Dirents) /\ Len(a \o b) = Len(a) + Len(b)
          /\ \A k \in 1..Len(a) + Len(b) :
                (a \o b)[k] = IF k <= Len(a) THEN a[k] ELSE b[k - Len(a)]
      BY <2>2, <2>3, ConcatProperties
    <3>2. Len(a) + Len(b) = Len(old) - 1 BY <1>2, <2>2, <2>3
    <3> QED BY <2>2, <2>4, <3>1, <3>2
  <2>6. DOMAIN new = 1..Len(old) - 1 BY <2>5, LenProperties
  <2>7. ASSUME NEW k \in 1..Len(old) - 1 PROVE new[k] = old[Was(p, m, p, k)]
    <3>1. CASE k <= m - 1 BY <1>2, <2>2, <2>5, <3>1 DEF Was
    <3>2. CASE ~(k <= m - 1)
      <4>1. k - (m - 1) \in 1..Len(old) - m /\ m + (k - (m - 1)) = k + 1 BY <1>2, <3>2
      <4>2. new[k] = old[k + 1] BY <2>3, <2>5, <3>2, <4>1
      <4> QED BY <1>2, <3>2, <4>2 DEF Was
    <3> QED BY <3>1, <3>2
  <2> QED BY <2>5, <2>6, <2>7
<1>4. fcb[p] \in Fcbs BY <1>1
<1>5. /\ DOMAIN fcb' = Inodes /\ fcb' = [d \in Inodes |-> fcb'[d]]
      /\ fcb'[i] = Unused /\ \A d \in Inodes \ {i, p} : fcb'[d] = fcb[d]
  BY DEF Removed
<1>6. fcb'[p] = [fcb[p] EXCEPT !.entries = new] BY DEF Removed
<1> HIDE DEF old, new
<1>7. fcb'[p] = [is_used |-> fcb[p].is_used, dir |-> fcb[p].dir,
                 name |-> fcb[p].name, entries |-> new]
  BY <1>4, <1>6, Parts
<1>8. fcb' \in [Inodes -> Fcbs]
  <2>1. fcb'[i] \in Fcbs BY <1>5, EmptySeq DEF Fcbs, Unused
  <2>2. fcb'[p] \in Fcbs
    <3>1. /\ fcb[p].is_used \in BOOLEAN /\ fcb[p].dir \in BOOLEAN
          /\ fcb[p].name \in Names \cup {"/"}
      BY <1>4, Parts
    <3>2. [is_used |-> fcb[p].is_used, dir |-> fcb[p].dir, name |-> fcb[p].name,
           entries |-> new] \in Fcbs
      BY <1>3, <3>1 DEF Fcbs
    <3> QED BY <1>7, <3>2, Zenon
  <2>3. \A d \in Inodes : fcb'[d] \in Fcbs BY <1>1, <1>5, <2>1, <2>2
  <2> QED BY <1>5, <2>3
<1>9. ASSUME NEW d \in Inodes
      PROVE  /\ d # i => fcb'[d].is_used = fcb[d].is_used /\ fcb'[d].dir = fcb[d].dir
             /\ d \notin {i, p} => fcb'[d].entries = fcb[d].entries
  BY <1>1, <1>5, <1>7
<1>10. /\ fcb'[i].is_used = FALSE /\ fcb'[i].dir = FALSE /\ fcb'[i].entries = <<>>
       /\ fcb'[p].entries = new
  BY <1>5, <1>7 DEF Unused
\* What is entered is what was, without one entry.
<1>11. ASSUME NEW d \in Inodes, NEW k
       PROVE  /\ k \in Listed(d)' => /\ Was(p, m, d, k) \in Listed(d)
                                     /\ fcb'[d].entries[k] = fcb[d].entries[Was(p, m, d, k)]
                                     /\ Child(d, k)' = Child(d, Was(p, m, d, k))
                                     /\ ~(d = p /\ Was(p, m, d, k) = m)
              /\ k \in Listed(d) => (d = p /\ k = m)
                                    \/ \E l \in Listed(d)' : Was(p, m, d, l) = k
  <2>1. CASE d = i
    <3>1. Listed(d)' = {} BY <1>10, <2>1 DEF Listed
    <3> QED BY <1>1, <2>1, <3>1
  <2>2. CASE d \notin {i, p} BY <1>9, <2>2 DEF Listed, Child, Was
  <2>3. CASE d = p
    <3>1. \A l : l \in Listed(p)' <=> l \in 1..Len(old) - 1 /\ l > Dots(p)
      BY <1>3, <1>10 DEF Listed, Dots
    <3>2. \A l : l \in Listed(p) <=> l \in 1..Len(old) /\ l > Dots(p)
      BY <1>2 DEF Listed, old
    <3>3. Dots(p) \in Nat BY DEF Dots
    <3>4. ASSUME k \in Listed(p)'
          PROVE  /\ Was(p, m, p, k) \in Listed(p) /\ Was(p, m, p, k) # m
                 /\ fcb'[p].entries[k] = fcb[p].entries[Was(p, m, p, k)]
      <4>1. k \in 1..Len(old) - 1 /\ k > Dots(p) BY <3>1, <3>4
      <4>2. Was(p, m, p, k) \in Listed(p) /\ Was(p, m, p, k) # m
        BY <1>2, <3>2, <3>3, <4>1 DEF Was
      <4>3. new[k] = old[Was(p, m, p, k)] BY <1>3, <4>1
      <4> QED BY <1>10, <4>2, <4>3 DEF old
    <3>5. ASSUME k \in Listed(p), k # m PROVE \E l \in Listed(p)' : Was(p, m, p, l) = k
      <4>1. k \in 1..Len(old) /\ k > Dots(p) BY <3>2, <3>5
      <4>2. CASE k < m
        <5>1. k \in Listed(p)' BY <1>2, <3>1, <4>1, <4>2
        <5> QED BY <1>2, <4>1, <4>2, <5>1 DEF Was
      <4>3. CASE k > m
        <5>1. k - 1 \in Listed(p)' BY <1>2, <3>1, <3>3, <4>1, <4>3
        <5>2. Was(p, m, p, k - 1) = k BY <1>2, <4>1, <4>3 DEF Was
        <5> QED BY <5>1, <5>2
      <4> QED BY <1>2, <3>5, <4>1, <4>2, <4>3
    <3> QED BY <2>3, <3>4, <3>5 DEF Child
  <2> QED BY <2>1, <2>2, <2>3
\* An inode that is entered after the removal is another one, and still there.
<1>12. ASSUME NEW d \in Inodes, NEW k \in Listed(d)', NEW c, c = Child(d, k)'
       PROVE  /\ c \in Inodes \ {Root, i} /\ c = Child(d, Was(p, m, d, k))
              /\ fcb[c].is_used /\ (fcb[c].dir => Child(c, 2) = d)
  <2> DEFINE l == Was(p, m, d, k)
  <2>1. l \in Listed(d) /\ c = Child(d, l) /\ ~(d = p /\ l = m) BY <1>11, <1>12
  <2> HIDE DEF l
  <2>2. fcb[d].entries \in Seq(Dirents) BY <1>1 DEF Fcbs
  <2>3. fcb[d].entries[l] \in Dirents BY <2>1, <2>2, LenProperties, ElementOfSeq DEF Listed
  <2>4. c \in Inodes BY <2>1, <2>3 DEF Dirents, Child
  <2>5. c # Root /\ fcb[c].is_used /\ (fcb[c].dir => Child(c, 2) = d) BY <2>1 DEF Tree
  <2>6. c # i BY <1>1, <2>1 DEF Tree
  <2> QED BY <2>1, <2>4, <2>5, <2>6 DEF l
<1>13. Shape'
  <2>1. fcb'[Root].dir BY <1>1, <1>9 DEF Shape
  <2>2. \A d \in Inodes : ~fcb'[d].is_used => ~fcb'[d].dir BY <1>9, <1>10 DEF Shape
  <2>3. \A d \in Inodes : ~fcb'[d].dir => fcb'[d].entries = <<>>
    <3>1. fcb[p].dir BY <1>1, NamedIsListed DEF Listed
    <3> QED BY <1>1, <1>9, <1>10, <3>1 DEF Shape
  <2>4. ASSUME NEW d \in Inodes, fcb'[d].dir
        PROVE  /\ Len(fcb'[d].entries) >= Dots(d)
               /\ fcb'[d].entries[1] = Entry(".", d)
               /\ d # Root => fcb'[d].entries[2].name = ".."
               /\ \A k \in Listed(d)' : fcb'[d].entries[k].name \in Names
    <3>1. fcb[d].dir /\ d # i BY <1>9, <1>10, <2>4
    <3>2. /\ Len(fcb[d].entries) >= Dots(d)
          /\ fcb[d].entries[1] = Entry(".", d)
          /\ d # Root => fcb[d].entries[2].name = ".."
          /\ \A k \in Listed(d) : fcb[d].entries[k].name \in Names
      BY <3>1 DEF Shape
    <3>3. \A k \in Listed(d)' : fcb'[d].entries[k].name \in Names BY <1>11, <3>2
    <3>4. CASE d # p BY <1>9, <3>1, <3>2, <3>3, <3>4
    <3>5. CASE d = p
      <4>1. Len(new) >= Dots(p) BY <1>2, <1>3 DEF Dots
      <4>2. \A k \in 1..Dots(p) : k \in DOMAIN new /\ Was(p, m, p, k) = k
        BY <1>2, <1>3 DEF Was, Dots
      <4>3. \A k \in 1..Dots(p) : new[k] = old[k] BY <1>3, <4>2
      <4>4. 1 \in 1..Dots(p) /\ (p # Root => 2 \in 1..Dots(p)) BY DEF Dots
      <4> QED BY <1>10, <3>2, <3>3, <3>5, <4>1, <4>3, <4>4 DEF old
    <3> QED BY <3>4, <3>5
  <2>5. fcb'[cwd'].is_used => fcb'[cwd'].dir BY <1>9, <1>10 DEF Shape, Types
  <2> QED BY <2>1, <2>2, <2>3, <2>4, <2>5 DEF Shape, Dots
<1>14. Tree'
  <2>1. ASSUME NEW d \in Inodes, NEW k \in Listed(d)'
        PROVE  /\ Child(d, k)' # Root /\ fcb'[Child(d, k)'].is_used
               /\ fcb'[Child(d, k)'].dir => fcb'[Child(d, k)'].entries[2].inode = d
    <3> PICK c : c = Child(d, k)' OBVIOUS
    <3>1. /\ c \in Inodes \ {Root, i}
          /\ fcb[c].is_used /\ (fcb[c].dir => Child(c, 2) = d)
      BY <1>12
    <3>2. fcb'[c].is_used /\ fcb'[c].dir = fcb[c].dir BY <1>9, <3>1
    <3>3. fcb[c].dir => fcb'[c].entries[2] = fcb[c].entries[2]
      <4>1. CASE c # p BY <1>9, <3>1, <4>1
      <4>2. CASE c = p
        <5>1. 2 \in DOMAIN new /\ Was(p, m, p, 2) = 2
          BY <1>2, <1>3, <3>1, <4>2 DEF Dots, Was
        <5> QED BY <1>3, <1>10, <4>2, <5>1 DEF old
      <4> QED BY <4>1, <4>2
    <3>4. fcb[c].dir => fcb'[c].entries[2].inode = d BY <3>1, <3>3 DEF Child
    <3> QED BY <3>1, <3>2, <3>4
  <2>2. ASSUME NEW d \in Inodes, NEW e \in Inodes, NEW k \in Listed(d)', NEW l \in Listed(e)',
               Child(d, k)' = Child(e, l)'
        PROVE  d = e /\ k = l
    <3>1. /\ Was(p, m, d, k) \in Listed(d) /\ Was(p, m, e, l) \in Listed(e)
          /\ Child(d, Was(p, m, d, k)) = Child(e, Was(p, m, e, l))
      BY <1>11, <2>2
    <3>2. d = e /\ Was(p, m, d, k) = Was(p, m, e, l) BY <3>1 DEF Tree
    <3>3. k \in Nat /\ l \in Nat
      <4>1. fcb'[d].entries \in Seq(Dirents) BY <1>8 DEF Fcbs
      <4> QED BY <3>2, <4>1, LenProperties DEF Listed
    <3>4. k = l BY <1>2, <3>2, <3>3 DEF Was
    <3> QED BY <3>2, <3>4
  <2>3. ASSUME NEW j \in Inodes \ {Root}, fcb'[j].is_used
        PROVE  \E d \in Inodes : \E k \in Listed(d)' : Child(d, k)' = j
    <3>1. j # i BY <1>10, <2>3
    <3>2. fcb[j].is_used BY <1>9, <2>3, <3>1
    <3>3. PICK d \in Inodes : \E k \in Listed(d) : Child(d, k) = j BY <3>2 DEF Tree
    <3>4. PICK k \in Listed(d) : Child(d, k) = j BY <3>3
    <3>5. PICK l \in Listed(d)' : Was(p, m, d, l) = k BY <1>1, <1>11, <3>1, <3>4
    <3> QED BY <1>11, <3>4, <3>5
  <2> QED BY <2>1, <2>2, <2>3 DEF Tree, Child
<1>15. Ranked'
  <2>1. PICK h : Ranks(h) BY DEF Ranked
  <2>2. ASSUME NEW d \in Inodes, NEW k \in Listed(d)' PROVE h[d] < h[Child(d, k)']
    BY <1>11, <2>1 DEF Ranks
  <2> QED BY <2>1, <2>2 DEF Ranked, Ranks
<1>16. \A d \in Inodes : \A k : Moved(p, m, d, k) BY <1>11 DEF Moved
<1> QED BY <1>8, <1>13, <1>14, <1>15, <1>16

\* A directory that is renamed keeps its entries.
LEMMA Renames ==
    ASSUME Types, Shape, Tree, Ranked, cwd' = cwd, NEW i \in Inodes, fcb[i].dir,
           fcb' = [fcb EXCEPT ![i].name = "/"]
    PROVE  fcb' \in [Inodes -> Fcbs] /\ Shape' /\ Tree' /\ Ranked'
<1>1. fcb \in [Inodes -> Fcbs] BY DEF Types
<1>2. fcb[i] \in Fcbs BY <1>1
<1>3. /\ DOMAIN fcb' = Inodes /\ fcb' = [d \in Inodes |-> fcb'[d]]
      /\ fcb'[i] = [fcb[i] EXCEPT !.name = "/"]
      /\ \A d \in Inodes \ {i} : fcb'[d] = fcb[d]
  BY <1>1
<1>4. fcb'[i] = [is_used |-> fcb[i].is_used, dir |-> fcb[i].dir,
                 name |-> "/", entries |-> fcb[i].entries]
  BY <1>2, <1>3, Parts
<1>5. fcb' \in [Inodes -> Fcbs]
  <2>1. /\ fcb[i].is_used \in BOOLEAN /\ fcb[i].dir \in BOOLEAN
        /\ fcb[i].entries \in Seq(Dirents) /\ "/" \in Names \cup {"/"}
    BY <1>2, Parts
  <2>2. [is_used |-> fcb[i].is_used, dir |-> fcb[i].dir,
         name |-> "/", entries |-> fcb[i].entries] \in Fcbs
    BY <2>1 DEF Fcbs
  <2>3. fcb'[i] \in Fcbs BY <1>4, <2>2, Zenon
  <2>4. \A d \in Inodes : fcb'[d] \in Fcbs BY <1>1, <1>3, <2>3
  <2> QED BY <1>3, <2>4
<1>6. \A d \in Inodes : /\ fcb'[d].is_used = fcb[d].is_used /\ fcb'[d].dir = fcb[d].dir
                        /\ fcb'[d].entries = fcb[d].entries
  BY <1>3, <1>4
<1>7. \A d \in Inodes : Listed(d)' = Listed(d) BY <1>6 DEF Listed, Dots
<1>8. \A d \in Inodes : \A k : Child(d, k)' = Child(d, k) BY <1>6 DEF Child
<1>9. \A d \in Inodes : \A k \in Listed(d) : Child(d, k) \in Inodes
  <2> SUFFICES ASSUME NEW d \in Inodes, NEW k \in Listed(d) PROVE Child(d, k) \in Inodes
    OBVIOUS
  <2>1. fcb[d].entries \in Seq(Dirents) BY <1>1 DEF Fcbs
  <2>2. fcb[d].entries[k] \in Dirents BY <2>1, LenProperties, ElementOfSeq DEF Listed
  <2> QED BY <2>2 DEF Dirents, Child
<1>10. Shape'
  <2>1. fcb'[Root].dir /\ (fcb'[cwd'].is_used => fcb'[cwd'].dir)
    BY <1>6, RootIsInode DEF Shape, Types
  <2>2. \A d \in Inodes : /\ ~fcb'[d].is_used => ~fcb'[d].dir
                          /\ ~fcb'[d].dir => fcb'[d].entries = <<>>
    BY <1>6 DEF Shape
  <2>3. \A d \in Inodes : fcb'[d].dir =>
          /\ Len(fcb'[d].entries) >= Dots(d)
          /\ fcb'[d].entries[1] = Entry(".", d)
          /\ d # Root => fcb'[d].entries[2].name = ".."
          /\ \A k \in Listed(d) : fcb'[d].entries[k].name \in Names
    BY <1>6 DEF Shape
  <2> QED BY <1>7, <2>1, <2>2, <2>3 DEF Shape, Dots
<1>11. Tree'
  <2>1. \A d \in Inodes : \A k \in Listed(d)' :
          /\ Child(d, k)' # Root /\ fcb'[Child(d, k)'].is_used
          /\ fcb'[Child(d, k)'].dir => fcb'[Child(d, k)'].entries[2].inode = d
    <3> SUFFICES ASSUME NEW d \in Inodes, NEW k \in Listed(d)
                 PROVE  /\ Child(d, k)' # Root /\ fcb'[Child(d, k)'].is_used
                        /\ fcb'[Child(d, k)'].dir => fcb'[Child(d, k)'].entries[2].inode = d
      BY <1>7
    <3> PICK e \in Inodes : e = Child(d, k) BY <1>9
    <3>1. Child(d, k)' = e BY <1>8
    <3>2. e # Root /\ fcb[e].is_used /\ (fcb[e].dir => fcb[e].entries[2].inode = d)
      BY DEF Tree, Child
    <3> QED BY <1>6, <3>1, <3>2
  <2>2. \A d, e \in Inodes : \A k \in Listed(d)', l \in Listed(e)' :
          Child(d, k)' = Child(e, l)' => d = e /\ k = l
    BY <1>7, <1>8 DEF Tree
  <2>3. \A j \in Inodes \ {Root} : fcb'[j].is_used =>
          \E d \in Inodes : \E k \in Listed(d)' : Child(d, k)' = j
    BY <1>6, <1>7, <1>8 DEF Tree
  <2> QED BY <2>1, <2>2, <2>3 DEF Tree, Child
<1>12. Ranked' BY <1>7, <1>8 DEF Ranked, Ranks
<1> QED BY <1>5, <1>10, <1>11, <1>12

-----------------------------------------------------------------------------
(* The table after a command                                               *)

Tables == [Slots -> [fcb : Inodes \cup {NoFile}, path : Seq(Names)]]

LEMMA OpenedIsOnce ==
    ASSUME NEW table \in Tables, Once(table), NEW path \in Seq(Names),
           FindFcb(fcb, path) \in Inodes, IsFileOpen(fcb, table, path) = 0
    PROVE  DoOpen(table, path) \in Tables /\ Once(DoOpen(table, path))
<1> DEFINE i == FindFcb(fcb, path)
           new == [fcb |-> i, path |-> path]
<1>1. DOMAIN table = Slots /\ Closed.fcb = NoFile /\ i # NoFile
  BY DEF Once, Closed, NoFile, Inodes
<1>2. \A j \in Slots : table[j] # Closed => table[j].fcb # i BY <1>1, OpenSlot
<1>3. CASE DoOpen(table, path) = table BY <1>3
<1>4. ASSUME NEW k \in Slots, table[k] = Closed, DoOpen(table, path) = [table EXCEPT ![k] = new]
      PROVE  DoOpen(table, path) \in Tables /\ Once(DoOpen(table, path))
  <2>1. new.fcb = i /\ new # Closed BY <1>1
  <2> HIDE DEF i
  <2>2. new \in [fcb : Inodes \cup {NoFile}, path : Seq(Names)] BY DEF i
  <2> HIDE DEF new
  <2>3. [table EXCEPT ![k] = new] \in Tables BY <2>2 DEF Tables
  <2>4. Once([table EXCEPT ![k] = new]) BY <1>1, <1>2, <1>4, <2>1 DEF Once
  <2> QED BY <1>4, <2>3, <2>4
<1> QED BY <1>1, <1>3, <1>4, Opened

LEMMA FewerIsTyped ==
    ASSUME NEW table \in Tables, NEW left, NEW name, Fewer(table, left, name)
    PROVE  left \in Tables
<1>1. Closed \in [fcb : Inodes \cup {NoFile}, path : Seq(Names)]
  BY EmptySeq DEF Closed
<1>2. \A k \in Slots : left[k] \in [fcb : Inodes \cup {NoFile}, path : Seq(Names)]
  BY <1>1 DEF Fewer, Tables
<1>3. [k \in Slots |-> left[k]] \in Tables BY <1>2 DEF Tables
<1> QED BY <1>3 DEF Fewer

\* What rm does: it renames a directory, deletes a file or a directory, or the
\* root, which the model ends with.
RmIs(path) ==
    LET i == FindFcb(fcb, path)
    IN \/ fcb[i].dir /\ NotEmpty(i) /\ fcb' = [fcb EXCEPT ![i].name = "/"]
       \/ \E p, m : Removed(i, p, m)
       \/ i = Root /\ ~NotEmpty(i) /\ fcb' \in [Inodes -> Fcbs] /\ ~Running'

LEMMA RmDoes ==
    ASSUME Types, Running, Shape, Tree, NEW arg \in Args, Rm(arg)
    PROVE  /\ RmIs(GetFullPath(arg)) /\ FindFcb(fcb, GetFullPath(arg)) \in Inodes
           /\ UNCHANGED <<open, cwd, cwdName, astray>>
<1> DEFINE path == GetFullPath(arg)
           i == FindFcb(fcb, path)
           p == FindParentFcb(fcb, path)
           named == IF fcb[i].dir THEN [fcb EXCEPT ![i].name = "/"] ELSE fcb
<1>1. /\ fcb \in [Inodes -> Fcbs] /\ cwd' = cwd
      /\ i # NoFile
      /\ fcb' = IF fcb[i].dir /\ NotEmpty(i) THEN named
                ELSE IF i = Root THEN [named EXCEPT ![i].is_used = FALSE]
                ELSE [named EXCEPT ![i] = Unused,
                                   ![p].entries =
                                       RemoveAt(@, First({k \in DOMAIN fcb[p].entries :
                                                              fcb[p].entries[k].inode = i}))]
  BY DEF Rm, Types
<1>0. UNCHANGED <<open, cwd, cwdName, astray>> BY DEF Rm
<1>2. path \in Seq(Names) BY FullPaths DEF Types
<1>3. /\ i \in Inodes /\ fcb[i].is_used
      /\ i # Root => p \in Inodes /\ \E k \in Listed(p) : Child(p, k) = i
  <2> HIDE DEF path
  <2> QED BY <1>1, <1>2, Resolved DEF EntersAs
<1> PICK j \in Inodes : j = i BY <1>3
<1> PICK q : q = p OBVIOUS
<1> PICK files : files = IF fcb[j].dir THEN [fcb EXCEPT ![j].name = "/"] ELSE fcb OBVIOUS
<1> HIDE DEF i, p
<1>4. CASE fcb[j].dir /\ NotEmpty(j)
  <2>1. fcb' = [fcb EXCEPT ![j].name = "/"] BY <1>1, <1>4
  <2> QED BY <1>0, <1>3, <1>4, <2>1 DEF RmIs, i
<1>5. CASE j # Root /\ ~(fcb[j].dir /\ NotEmpty(j))
  <2>1. fcb' = [files EXCEPT ![j] = Unused,
                             ![q].entries =
                                 RemoveAt(@, First({k \in DOMAIN fcb[q].entries :
                                                        fcb[q].entries[k].inode = j}))]
    BY <1>1, <1>5
  <2>2. j \in Inodes \ {Root} /\ q \in Inodes /\ \E k \in Listed(q) : Child(q, k) = j
    BY <1>3, <1>5
  <2>3. \E m : Removed(j, q, m) BY <1>3, <1>5, <2>1, <2>2, WhatIsRemoved
  <2> QED BY <1>0, <1>3, <2>3 DEF RmIs, i
<1>6. CASE j = Root /\ ~(fcb[j].dir /\ NotEmpty(j))
  <2>1. fcb[j].dir BY <1>6 DEF Shape
  <2>2. fcb' = [[fcb EXCEPT ![j].name = "/"] EXCEPT ![j].is_used = FALSE]
    BY <1>1, <1>6, <2>1
  <2>3. fcb[j] \in Fcbs BY <1>1
  <2>4. /\ fcb[j].dir \in BOOLEAN /\ fcb[j].entries \in Seq(Dirents)
        /\ [fcb[j] EXCEPT !.name = "/"] =
              [is_used |-> fcb[j].is_used, dir |-> fcb[j].dir, name |-> "/",
               entries |-> fcb[j].entries]
    BY <2>3, Parts
  <2>5. PICK f : f = [fcb[j] EXCEPT !.name = "/"] OBVIOUS
  <2>6. PICK g : g = [f EXCEPT !.is_used = FALSE] OBVIOUS
  <2>7. g = [is_used |-> FALSE, dir |-> fcb[j].dir, name |-> "/", entries |-> fcb[j].entries]
    BY <2>4, <2>5, <2>6
  <2>8. fcb' = [fcb EXCEPT ![j] = g] BY <1>1, <2>2, <2>5, <2>6
  <2>9. FALSE \in BOOLEAN /\ "/" \in Names \cup {"/"} OBVIOUS
  <2>10. [is_used |-> FALSE, dir |-> fcb[j].dir, name |-> "/",
          entries |-> fcb[j].entries] \in Fcbs
    BY <2>4, <2>9, Parts, Zenon
  <2>11. g \in Fcbs BY <2>7, <2>10, Zenon
  <2>12. fcb' \in [Inodes -> Fcbs] BY <1>1, <2>8, <2>11
  <2>13. ~Running' BY <1>1, <1>6, <2>7, <2>8 DEF Running
  <2> QED BY <1>0, <1>3, <1>6, <2>1, <2>12, <2>13 DEF RmIs, i
<1> QED BY <1>4, <1>5, <1>6

LEMMA RmStep ==
    ASSUME Types, Running, Shape, Tree, Ranked, NEW arg \in Args, Rm(arg)
    PROVE  fcb' \in [Inodes -> Fcbs] /\ (Running' => Shape' /\ Tree' /\ Ranked')
<1> PICK i \in Inodes : i = FindFcb(fcb, GetFullPath(arg)) BY RmDoes
<1>1. cwd' = cwd BY RmDoes
<1>2. \/ fcb[i].dir /\ fcb' = [fcb EXCEPT ![i].name = "/"]
      \/ \E p, m : Removed(i, p, m)
      \/ fcb' \in [Inodes -> Fcbs] /\ ~Running'
  BY RmDoes DEF RmIs
<1> QED BY <1>1, <1>2, Renames, Removes

\* mkdir and touch.
LEMMA CreateStep ==
    ASSUME Types, Running, Shape, Tree, Ranked, NEW name \in Names,
           Mkdir(name) \/ Touch(name)
    PROVE  fcb' \in [Inodes -> Fcbs] /\ Shape' /\ Tree' /\ Ranked'
<1>1. cwd' = cwd /\ cwd \in Inodes BY DEF Mkdir, Touch, Types
<1>2. CASE Mkdir(name)
  <2>1. PICK i \in Inodes :
           /\ CanCreate(i)
           /\ fcb' = Created(name, i, TRUE,
                             <<Entry(".", i), Entry("..", fcb[cwd].entries[1].inode)>>)
    BY <1>2 DEF Mkdir
  <2>2. fcb[cwd].entries[1].inode = cwd
    <3>1. fcb[cwd].dir BY <2>1 DEF CanCreate, Shape
    <3>2. fcb[cwd].entries[1] = Entry(".", cwd) BY <1>1, <3>1 DEF Shape
    <3> QED BY <3>2 DEF Entry
  <2>3. PICK dir \in BOOLEAN : dir = TRUE OBVIOUS
  <2>4. PICK s : s = <<Entry(".", i), Entry("..", cwd)>> OBVIOUS
  <2>5. fcb' = Created(name, i, dir, s) BY <2>1, <2>2, <2>3, <2>4
  <2>6. s = IF dir THEN <<Entry(".", i), Entry("..", cwd)>> ELSE <<>> BY <2>3, <2>4
  <2> QED BY <1>1, <2>1, <2>5, <2>6, Creates
<1>3. CASE Touch(name)
  <2>1. PICK i \in Inodes : CanCreate(i) /\ fcb' = Created(name, i, FALSE, <<>>)
    BY <1>3 DEF Touch
  <2>2. PICK dir \in BOOLEAN : dir = FALSE OBVIOUS
  <2>3. PICK s : s = <<>> OBVIOUS
  <2>4. fcb' = Created(name, i, dir, s) BY <2>1, <2>2, <2>3
  <2>5. s = IF dir THEN <<Entry(".", i), Entry("..", cwd)>> ELSE <<>> BY <2>2, <2>3
  <2> QED BY <1>1, <2>1, <2>4, <2>5, Creates
<1> QED BY <1>2, <1>3

\* cd, open and the two forms of close.
LEMMA TableStep ==
    ASSUME Types, Once(open), Running, Shape, Tree,
           CloseAll \/ \E arg \in Args : Cd(arg) \/ Open(arg) \/ Close(arg)
    PROVE  /\ open' \in Tables /\ Once(open')
           /\ cwd' \in Inodes /\ cwdName' \in Seq(Names) /\ fcb' = fcb /\ astray' = astray
           /\ fcb[cwd'].is_used => fcb[cwd'].dir
<1>0. astray' = astray BY DEF CloseAll, Cd, Open, Close
<1>1. open \in Tables /\ open = [k \in Slots |-> open[k]] /\ fcb \in [Inodes -> Fcbs]
      /\ cwd \in Inodes /\ cwdName \in Seq(Names)
  BY DEF Types, Tables
<1>2. fcb[cwd].is_used => fcb[cwd].dir BY DEF Shape
<1>3. ASSUME NEW table \in Tables, Once(table), NEW left, NEW name, Fewer(table, left, name)
      PROVE  left \in Tables /\ Once(left)
  BY <1>3, FewerIsOnce, FewerIsTyped
<1>4. ASSUME NEW table \in Tables, Once(table), NEW path, NEW name
      PROVE  DoClose(table, path, name) \in Tables /\ Once(DoClose(table, path, name))
  <2>1. table = [k \in Slots |-> table[k]] BY DEF Tables
  <2> QED BY <1>3, <1>4, <2>1, ClosedBy
<1>5. ASSUME CloseAll PROVE open' \in Tables /\ Once(open') /\ UNCHANGED <<fcb, cwd, cwdName>>
  BY <1>1, <1>3, <1>5, AllClosed DEF CloseAll
<1>6. ASSUME NEW arg \in Args, Close(arg)
      PROVE  open' \in Tables /\ Once(open') /\ UNCHANGED <<fcb, cwd, cwdName>>
  BY <1>1, <1>4, <1>6 DEF Close
<1>7. ASSUME NEW arg \in Args, FindFcb(fcb, GetFullPath(arg)) # NoFile
      PROVE  GetFullPath(arg) \in Seq(Names) /\ FindFcb(fcb, GetFullPath(arg)) \in Inodes
  BY <1>1, <1>7, FullPaths, Resolved
<1>8. ASSUME NEW arg \in Args, Open(arg)
      PROVE  open' \in Tables /\ Once(open') /\ UNCHANGED <<fcb, cwd, cwdName>>
  <2>1. /\ FindFcb(fcb, GetFullPath(arg)) # NoFile
        /\ IsFileOpen(fcb, open, GetFullPath(arg)) = 0
        /\ open' = DoOpen(open, GetFullPath(arg))
        /\ UNCHANGED <<fcb, cwd, cwdName>>
    BY <1>8 DEF Open
  <2> QED BY <1>1, <1>7, <2>1, OpenedIsOnce
<1>9. ASSUME NEW arg \in Args, Cd(arg)
      PROVE  /\ open' \in Tables /\ Once(open') /\ cwd' \in Inodes /\ cwdName' \in Seq(Names)
             /\ fcb' = fcb /\ fcb[cwd'].dir
  <2>1. PICK path : path = GetFullPath(arg) OBVIOUS
  <2>2. PICK table : table = IF IsFileOpen(fcb, open, path) > 0 THEN open
                             ELSE DoOpen(open, path)
    OBVIOUS
  <2>3. /\ FindFcb(fcb, path) # NoFile /\ cwd' = FindFcb(fcb, path) /\ cwdName' = path
        /\ open' = DoClose(table, cwdName, path) /\ fcb' = fcb
        /\ fcb[FindFcb(fcb, path)].dir
    BY <1>9, <2>1, <2>2 DEF Cd
  <2>4. path \in Seq(Names) /\ FindFcb(fcb, path) \in Inodes BY <1>7, <2>1, <2>3
  <2>5. IsFileOpen(fcb, open, path) = 0 \/ IsFileOpen(fcb, open, path) > 0
    BY <1>1, OpenSlot DEF Slots
  <2>6. table \in Tables /\ Once(table) BY <1>1, <2>2, <2>4, <2>5, OpenedIsOnce
  <2> QED BY <1>4, <2>3, <2>4, <2>6
<1> QED BY <1>0, <1>1, <1>2, <1>5, <1>6, <1>8, <1>9

LEMMA TreeStep == ASSUME TreeInv, [Next]_vars PROVE TreeInv'
<1>1. Types /\ Once(open) /\ (Running => Shape /\ Tree /\ Ranked) BY DEF TreeInv
<1>2. CASE UNCHANGED vars
  <2>1. /\ fcb' = fcb /\ open' = open /\ cwd' = cwd /\ cwdName' = cwdName
        /\ astray' = astray
    BY <1>2 DEF vars
  <2>2. Types' /\ Once(open)' BY <1>1, <2>1 DEF Types, Once
  <2>3. Running' = Running BY <2>1 DEF Running
  <2>4. Shape' = Shape BY <2>1 DEF Shape, Listed
  <2>5. Tree' = Tree BY <2>1 DEF Tree, Listed, Child
  <2>6. Ranked' = Ranked BY <2>1 DEF Ranked, Ranks, Listed, Child
  <2> QED BY <1>1, <2>2, <2>3, <2>4, <2>5, <2>6 DEF TreeInv
<1>3. CASE Next
  <2>1. Running
    BY <1>3 DEF Next, Mkdir, Touch, CanCreate, Rm, Cd, Open, Close, CloseAll, CreateAstray
  <2>2. ASSUME NEW name \in Names, Mkdir(name) \/ Touch(name) PROVE TreeInv'
    <3>1. fcb' \in [Inodes -> Fcbs] /\ Shape' /\ Tree' /\ Ranked'
      BY <1>1, <2>1, <2>2, CreateStep
    <3>2. UNCHANGED <<open, cwd, cwdName, astray>> BY <2>2 DEF Mkdir, Touch
    <3>3. Types' BY <1>1, <3>1, <3>2 DEF Types
    <3>4. Once(open)' BY <1>1, <3>2 DEF Once
    <3> QED BY <3>1, <3>3, <3>4 DEF TreeInv
  <2>3. ASSUME NEW arg \in Args, Rm(arg) PROVE TreeInv'
    <3>1. fcb' \in [Inodes -> Fcbs] /\ (Running' => Shape' /\ Tree' /\ Ranked')
      BY <1>1, <2>1, <2>3, RmStep
    <3>2. UNCHANGED <<open, cwd, cwdName, astray>> BY <2>3 DEF Rm
    <3>3. Types' BY <1>1, <3>1, <3>2 DEF Types
    <3>4. Once(open)' BY <1>1, <3>2 DEF Once
    <3> QED BY <3>1, <3>3, <3>4 DEF TreeInv
  <2>4. ASSUME CloseAll \/ \E arg \in Args : Cd(arg) \/ Open(arg) \/ Close(arg)
        PROVE  TreeInv'
    <3>1. /\ open' \in Tables /\ Once(open')
          /\ cwd' \in Inodes /\ cwdName' \in Seq(Names) /\ fcb' = fcb /\ astray' = astray
          /\ fcb[cwd'].is_used => fcb[cwd'].dir
      BY <1>1, <2>1, <2>4, TableStep
    <3>2. Types' BY <1>1, <3>1 DEF Types, Tables
    <3>3. Once(open)' BY <3>1 DEF Once
    <3>4. Shape' BY <1>1, <2>1, <3>1 DEF Shape, Listed
    <3>5. Tree' /\ Ranked' BY <1>1, <2>1, <3>1 DEF Tree, Ranked, Ranks, Listed, Child
    <3> QED BY <3>2, <3>3, <3>4, <3>5 DEF TreeInv
  <2>5. ASSUME CreateAstray PROVE TreeInv'
    <3>1. UNCHANGED <<fcb, open, cwd, cwdName>> /\ astray' = TRUE BY <2>5 DEF CreateAstray
    <3>2. Types' /\ Once(open)' BY <1>1, <3>1 DEF Types, Once
    <3>3. ~Running' BY <3>1 DEF Running
    <3> QED BY <3>2, <3>3 DEF TreeInv
  <2> QED BY <1>3, <2>2, <2>3, <2>4, <2>5 DEF Next
<1> QED BY <1>2, <1>3

LEMMA TreeInit == ASSUME Init PROVE TreeInv
<1> USE RootIsInode
<1> DEFINE top == [is_used |-> TRUE, dir |-> TRUE, name |-> "/", entries |-> <<Entry(".", Root)>>]
<1>1. fcb = [i \in Inodes |-> IF i = Root THEN top ELSE Unused] BY DEF Init
<1>2. top \in Fcbs
  <2>1. Entry(".", Root) \in Dirents BY DEF Entry, Dirents
  <2>2. <<Entry(".", Root)>> \in Seq(Dirents) BY <2>1
  <2> QED BY <2>2 DEF Fcbs
<1>3. Unused \in Fcbs BY EmptySeq DEF Unused, Fcbs
<1>4. fcb \in [Inodes -> Fcbs]
  <2> HIDE DEF top
  <2> QED BY <1>1, <1>2, <1>3
<1>5. Types
  <2>1. [fcb |-> Root, path |-> <<>>] \in [fcb : Inodes \cup {NoFile}, path : Seq(Names)]
    BY EmptySeq
  <2>2. Closed \in [fcb : Inodes \cup {NoFile}, path : Seq(Names)] BY EmptySeq DEF Closed
  <2>3. open \in [Slots -> [fcb : Inodes \cup {NoFile}, path : Seq(Names)]]
    BY <2>1, <2>2 DEF Init, Slots
  <2>4. cwd \in Inodes /\ cwdName \in Seq(Names) /\ astray \in BOOLEAN BY EmptySeq DEF Init
  <2> QED BY <1>4, <2>3, <2>4 DEF Types
<1>6. Once(open)
  <2>1. /\ \A k \in Slots : open[k] = IF k = 1 THEN [fcb |-> Root, path |-> <<>>] ELSE Closed
        /\ DOMAIN open = Slots
    BY DEF Init, Slots
  <2>2. Closed.fcb = NoFile /\ [fcb |-> Root, path |-> <<>>].fcb = Root /\ Root # NoFile
    BY DEF Closed, Root, NoFile
  <2> QED BY <2>1, <2>2 DEF Once
<1>7. \A i \in Inodes : fcb[i] = IF i = Root THEN top ELSE Unused BY <1>1
<1>8. top.dir /\ top.is_used /\ top.entries = <<Entry(".", Root)>> OBVIOUS
<1>9. ~Unused.dir /\ ~Unused.is_used /\ Unused.entries = <<>> BY DEF Unused
<1> HIDE DEF top
<1>10. \A i \in Inodes : Listed(i) = {} BY <1>7, <1>8, <1>9 DEF Listed, Dots
<1>11. Shape
  <2>1. cwd = Root BY DEF Init
  <2> QED BY <1>7, <1>8, <1>9, <1>10, <2>1 DEF Shape, Dots
<1>12. Tree BY <1>7, <1>9, <1>10 DEF Tree
<1>13. Ranked
  <2>1. Ranks([i \in Inodes |-> 0]) BY <1>10 DEF Ranks
  <2> QED BY <2>1 DEF Ranked
<1> QED BY <1>5, <1>6, <1>11, <1>12, <1>13 DEF TreeInv

\* Whatever is typed: the tables have their types, no file is open twice, and as
\* long as the root directory exists and no file was created in a removed one the
\* directories form a tree.
THEOREM NamespaceInvariant == Spec => []TreeInv
<1>1. Init => TreeInv BY TreeInit
<1>2. TreeInv /\ [Next]_vars => TreeInv' BY TreeStep
<1> QED BY <1>1, <1>2, PTL DEF Spec

\* OpenedOnce for every table: open, cd, rm and a new file under an old inode never
\* lead to two slots of one FCB (is_file_open, do_open, do_close).
THEOREM NothingIsOpenTwice == Spec => []OpenedOnce
<1>1. TreeInv => OpenedOnce BY DEF TreeInv, Once, OpenedOnce, Slots
<1> QED BY <1>1, NamespaceInvariant, PTL

\* The places of an inode are the entries behind the dots that hold it.
LEMMA PlacesAre ==
    ASSUME Types, Shape, NEW i \in Inodes
    PROVE  /\ \A d \in Inodes : \A k \in Listed(d) : Child(d, k) = i => <<d, k>> \in Places(i)
           /\ \A p \in Places(i) : \E d \in Inodes : \E k \in Listed(d) :
                                       p = <<d, k>> /\ Child(d, k) = i
<1>1. fcb \in [Inodes -> Fcbs] BY DEF Types
<1>2. ASSUME NEW d \in Inodes, NEW k \in DOMAIN fcb[d].entries
      PROVE  fcb[d].entries[k] \in [name : Names, inode : {i}]
                <=> k \in Listed(d) /\ Child(d, k) = i
  <2>1. fcb[d].entries \in Seq(Dirents) BY <1>1 DEF Fcbs
  <2>2. fcb[d].entries[k] \in Dirents BY <2>1, LenProperties, ElementOfSeq
  <2>3. fcb[d].entries[k].name \in Names <=> k \in Listed(d) BY NamedIsListed
  <2> QED BY <2>2, <2>3 DEF Dirents, Child
<1>3. ASSUME NEW d \in Inodes, NEW k \in Listed(d), Child(d, k) = i
      PROVE  <<d, k>> \in Places(i)
  <2>1. k \in DOMAIN fcb[d].entries BY DEF Listed
  <2>2. <<d, k>> \in UNION {{e} \X DOMAIN fcb[e].entries : e \in Inodes} BY <2>1
  <2>3. fcb[d].entries[k] \in [name : Names, inode : {i}] BY <1>2, <1>3, <2>1
  <2> QED BY <2>2, <2>3 DEF Places
<1>4. ASSUME NEW p \in Places(i)
      PROVE  \E d \in Inodes : \E k \in Listed(d) : p = <<d, k>> /\ Child(d, k) = i
  <2>1. PICK d \in Inodes : p \in {d} \X DOMAIN fcb[d].entries BY DEF Places
  <2>2. PICK k \in DOMAIN fcb[d].entries : p = <<d, k>> BY <2>1
  <2>3. fcb[p[1]].entries[p[2]] \in [name : Names, inode : {i}] BY DEF Places
  <2>4. fcb[d].entries[k] \in [name : Names, inode : {i}] BY <2>2, <2>3
  <2> QED BY <1>2, <2>2, <2>4
<1> QED BY <1>3, <1>4

LEMMA TypesAreOK == ASSUME TreeInv PROVE TypeOK
<1>1. Types BY DEF TreeInv
<1>2. ASSUME NEW i \in Inodes
      PROVE  /\ fcb[i].is_used \in BOOLEAN /\ fcb[i].dir \in BOOLEAN
             /\ fcb[i].name \in Names \cup {"/"}
             /\ \A k \in DOMAIN fcb[i].entries :
                   /\ fcb[i].entries[k].name \in Names \cup {".", ".."}
                   /\ fcb[i].entries[k].inode \in Inodes
  <2>1. fcb[i] \in Fcbs BY <1>1 DEF Types
  <2>2. /\ fcb[i].is_used \in BOOLEAN /\ fcb[i].dir \in BOOLEAN
        /\ fcb[i].name \in Names \cup {"/"} /\ fcb[i].entries \in Seq(Dirents)
    BY <2>1, Parts
  <2>3. \A k \in DOMAIN fcb[i].entries : fcb[i].entries[k] \in Dirents
    BY <2>2, LenProperties, ElementOfSeq
  <2> QED BY <2>2, <2>3 DEF Dirents
<1>3. DOMAIN open = 1..MaxOpen /\ \A k \in 1..MaxOpen : open[k].fcb \in Inodes \cup {NoFile}
  BY <1>1 DEF Types, Slots
<1>4. cwd \in Inodes /\ \A k \in DOMAIN cwdName : cwdName[k] \in Names
  <2>1. cwd \in Inodes /\ cwdName \in Seq(Names) BY <1>1 DEF Types
  <2> QED BY <2>1, LenProperties, ElementOfSeq
<1>5. astray \in BOOLEAN BY <1>1 DEF Types
<1> QED BY <1>2, <1>3, <1>4, <1>5 DEF TypeOK

LEMMA TreeSound == ASSUME TreeInv PROVE TreeIsSound
<1>1. TypeOK BY TypesAreOK
<1>2. ASSUME Running, NEW i \in Inodes \ {Root}
      PROVE  /\ Cardinality(Places(i)) = IF fcb[i].is_used THEN 1 ELSE 0
             /\ fcb[i].is_used /\ fcb[i].dir =>
                   /\ fcb[i].entries[1] = Entry(".", i)
                   /\ \E p \in Places(i) : fcb[i].entries[2] = Entry("..", p[1])
  <2>1. Types /\ Shape /\ Tree BY <1>2 DEF TreeInv
  <2>2. CASE ~fcb[i].is_used
    <3>1. Places(i) = {} BY <2>1, <2>2, PlacesAre DEF Tree
    <3> QED BY <2>2, <3>1, FS_EmptySet
  <2>3. CASE fcb[i].is_used
    <3>1. PICK d \in Inodes : \E k \in Listed(d) : Child(d, k) = i BY <2>1, <2>3 DEF Tree
    <3>2. PICK k \in Listed(d) : Child(d, k) = i BY <3>1
    <3>3. Places(i) = {<<d, k>>}
      <4>1. <<d, k>> \in Places(i) BY <2>1, <3>2, PlacesAre
      <4>2. ASSUME NEW p \in Places(i) PROVE p = <<d, k>>
        <5>1. PICK e \in Inodes : \E l \in Listed(e) : p = <<e, l>> /\ Child(e, l) = i
          BY <2>1, PlacesAre
        <5>2. PICK l \in Listed(e) : p = <<e, l>> /\ Child(e, l) = i BY <5>1
        <5>3. e = d /\ l = k BY <2>1, <3>2, <5>2 DEF Tree
        <5> QED BY <5>2, <5>3
      <4> QED BY <4>1, <4>2
    <3>4. Cardinality(Places(i)) = 1 BY <3>3, FS_Singleton
    <3>5. ASSUME fcb[i].dir
          PROVE  fcb[i].entries[1] = Entry(".", i) /\ fcb[i].entries[2] = Entry("..", d)
      <4>1. /\ fcb[i].entries[1] = Entry(".", i) /\ fcb[i].entries[2].name = ".."
            /\ Len(fcb[i].entries) >= 2
        BY <2>1, <3>5 DEF Shape, Dots
      <4>2. fcb[i].entries[2].inode = d BY <2>1, <3>2, <3>5 DEF Tree, Child
      <4>3. fcb[i].entries \in Seq(Dirents) BY <2>1 DEF Types, Fcbs
      <4>4. 2 \in 1..Len(fcb[i].entries) BY <4>1, <4>3, LenProperties
      <4>5. fcb[i].entries[2] \in Dirents BY <4>3, <4>4, ElementOfSeq
      <4> QED BY <4>1, <4>2, <4>5 DEF Dirents, Entry
    <3>6. <<d, k>>[1] = d OBVIOUS
    <3> QED BY <2>3, <3>3, <3>4, <3>5, <3>6
  <2> QED BY <2>2, <2>3
<1> QED BY <1>1, <1>2 DEF TreeIsSound

\* TreeIsSound for every number of inodes: whatever mkdir, touch, rm and cd did, each
\* file and directory in use is entered in exactly one place, one that is not in use
\* nowhere, and ".." names the directory that the place is in.
THEOREM DirectoriesFormATree == Spec => []TreeIsSound
BY NamespaceInvariant, TreeSound, PTL

-----------------------------------------------------------------------------
(* The path in the prompt                                                  *)

\* Upwards from another number than zero.
LEMMA Onwards ==
    ASSUME NEW n \in Nat, NEW j \in 0..n, NEW T, j \in T,
           \A k \in j + 1..n : k - 1 \in T => k \in T
    PROVE  j..n \subseteq T
<1> DEFINE R == {k \in 0..n : k >= j => k \in T}
<1>1. 0 \in R BY Zenon, SMT
<1>2. \A k \in 1..n : k - 1 \in R => k \in R
  <2> SUFFICES ASSUME NEW k \in 1..n, k - 1 \in R, k >= j, k # j PROVE k \in T OBVIOUS
  <2>1. k \in j + 1..n /\ k - 1 >= j OBVIOUS
  <2> QED BY <2>1
<1>3. 0..n \subseteq R
  <2> HIDE DEF R
  <2> QED BY <1>1, <1>2, Upwards
<1> QED BY <1>3

\* One component of a walk.
LEMMA DownIs ==
    ASSUME NEW files \in [Inodes -> Fcbs], NEW w \in Positions, NEW part \in Names
    PROVE  LET s == files[w.at].entries
               k == Lookup(files, w.at, part)
               v == Down(files, w, part)
           IN /\ k # 0 => k \in DOMAIN s /\ v = [at |-> s[k].inode, last |-> part,
                                                 parent |-> w.at]
              /\ k = 0 => v.at = w.at
              /\ k = 0 /\ s # <<>> => v.last # part
<1> DEFINE s == files[w.at].entries
           k == Lookup(files, w.at, part)
           v == Down(files, w, part)
<1>1. w.at \in Inodes BY DEF Positions
<1>2. /\ s \in Seq(Dirents)
      /\ k = 0 => \A j \in DOMAIN s : s[j].name # part
      /\ k # 0 => k \in DOMAIN s
  BY <1>1, LookedUp
<1>3. ASSUME k # 0
      PROVE  k \in DOMAIN s /\ v = [at |-> s[k].inode, last |-> part, parent |-> w.at]
  <2>1. k > 0 BY <1>2, <1>3, LenProperties
  <2> QED BY <1>2, <1>3, <2>1 DEF Down
<1>4. ASSUME k = 0, s = <<>> PROVE v.at = w.at BY <1>4 DEF Down
<1>5. ASSUME k = 0, s # <<>> PROVE v.at = w.at /\ v.last # part
  <2>1. v = [w EXCEPT !.last = s[Len(s)].name] BY <1>5 DEF Down
  <2>2. v.at = w.at /\ v.last = s[Len(s)].name BY <2>1 DEF Positions
  <2>3. Len(s) \in DOMAIN s BY <1>2, <1>5, EmptySeq, LenProperties
  <2> QED BY <1>2, <1>5, <2>2, <2>3
<1> QED BY <1>3, <1>4, <1>5

\* What a walk does in a directory, which it knows by its inode.
LEMMA DownFinds ==
    ASSUME NEW files \in [Inodes -> Fcbs], NEW w \in Positions, NEW part \in Names,
           NEW d, w.at = d
    PROVE  /\ Lookup(files, d, part) # 0 =>
                Down(files, w, part) = [at |-> files[d].entries[Lookup(files, d, part)].inode,
                                        last |-> part, parent |-> d]
           /\ Lookup(files, d, part) = 0 => Down(files, w, part).at = d
BY DownIs

\* A walk finds the same in other directories if each component it looks for is
\* found there, with the same inode, or not found, as before.
Alike(files, d, name) ==
    LET a == Lookup(fcb, d, name)
        b == Lookup(files, d, name)
    IN (a = 0 <=> b = 0) /\ (a # 0 => files[d].entries[b].inode = fcb[d].entries[a].inode)

LEMMA SameWay ==
    ASSUME Types, NEW files \in [Inodes -> Fcbs], NEW path \in Seq(Names), path # <<>>,
           NEW c, Walked(fcb, path, c), \A k \in 0..Len(path) : c[k] \in Positions,
           \A k \in 1..Len(path) : Alike(files, c[k - 1].at, path[k]),
           Lookup(fcb, c[Len(path) - 1].at, path[Len(path)]) # 0
    PROVE  FindFcb(files, path) = FindFcb(fcb, path)
<1> DEFINE n == Len(path)
<1>1. n \in Nat /\ n \in 1..n /\ n - 1 \in 0..n
  BY LenProperties, EmptySeq
<1>2. PICK e : Walked(files, path, e) /\ \A k \in 0..n : e[k] \in Positions BY WalkIs
<1>3. fcb \in [Inodes -> Fcbs] BY DEF Types
<1>4. ASSUME NEW k \in 1..n, e[k - 1].at = c[k - 1].at
      PROVE  /\ e[k].at = c[k].at
             /\ Lookup(fcb, c[k - 1].at, path[k]) # 0 => e[k].last = path[k]
                                                         /\ c[k].last = path[k]
  <2>1. path[k] \in Names /\ k - 1 \in 0..n BY <1>1, ElementOfSeq
  <2>2. e[k] = Down(files, e[k - 1], path[k]) /\ c[k] = Down(fcb, c[k - 1], path[k])
    BY <1>2 DEF Walked
  <2> PICK v \in Positions : v = e[k - 1] BY <1>2, <2>1
  <2> PICK w \in Positions : w = c[k - 1] BY <2>1
  <2> PICK part \in Names : part = path[k] BY <2>1
  <2> DEFINE a == Lookup(fcb, w.at, part)
             b == Lookup(files, w.at, part)
  <2>3. /\ a # 0 => Down(fcb, w, part) = [at |-> fcb[w.at].entries[a].inode, last |-> part,
                                          parent |-> w.at]
        /\ a = 0 => Down(fcb, w, part).at = w.at
    BY <1>3, DownFinds
  <2>4. v.at = w.at BY <1>4
  <2>5. /\ b # 0 => Down(files, v, part) = [at |-> files[w.at].entries[b].inode,
                                            last |-> part, parent |-> w.at]
        /\ b = 0 => Down(files, v, part).at = w.at
    BY <2>4, DownFinds
  <2>6. Alike(files, w.at, part) OBVIOUS
  <2> QED BY <2>2, <2>3, <2>5, <2>6 DEF Alike
<1>5. \A k \in 0..n : e[k].at = c[k].at
  <2> DEFINE T == {k \in 0..n : e[k].at = c[k].at}
  <2>1. 0 \in T BY <1>1, <1>2 DEF Walked
  <2>2. ASSUME NEW k \in 1..n, k - 1 \in T PROVE k \in T
    <3>1. k \in 0..n BY <1>1
    <3> QED BY <1>4, <2>2, <3>1
  <2>3. 0..n \subseteq T
    <3> HIDE DEF T
    <3> QED BY <1>1, <2>1, <2>2, Upwards
  <2> QED BY <2>3
<1>6. e[n].at = c[n].at /\ e[n].last = path[n] /\ c[n].last = path[n]
  BY <1>1, <1>4, <1>5
<1> QED BY <1>2, <1>6 DEF Walked, FindFcb, Last

\* A path to a directory ends with a component that is found.
LEMMA EndIsFound ==
    ASSUME Types, Shape, NEW path \in Seq(Names), path # <<>>, NEW c, Walked(fcb, path, c),
           NEW i \in Inodes, FindFcb(fcb, path) = i, fcb[i].dir
    PROVE  /\ c[Len(path)].at = i
           /\ Lookup(fcb, c[Len(path) - 1].at, path[Len(path)]) # 0
<1> DEFINE n == Len(path)
<1>1. n \in Nat /\ n \in 1..n /\ n - 1 \in 0..n /\ path[n] \in Names
  BY LenProperties, EmptySeq, ElementOfSeq
<1>2. fcb \in [Inodes -> Fcbs] /\ c[n - 1] \in Positions
  BY <1>1, Stands DEF Types, Standing
<1>3. c[n] = Down(fcb, c[n - 1], path[n]) BY <1>1 DEF Walked
<1>4. i # NoFile BY DEF Inodes, NoFile
<1>5. c[n].at = i /\ c[n].last = path[n] BY <1>4 DEF FindFcb, Walked, Last
<1>6. fcb[i].entries # <<>>
  <2>1. Len(fcb[i].entries) >= 1 BY DEF Shape, Dots
  <2> QED BY <2>1
<1>7. ASSUME Lookup(fcb, c[n - 1].at, path[n]) = 0 PROVE FALSE
  <2>1. c[n].at = c[n - 1].at BY <1>1, <1>2, <1>3, <1>7, DownIs
  <2>2. c[n].last # path[n] BY <1>1, <1>2, <1>3, <1>5, <1>6, <1>7, <2>1, DownIs
  <2> QED BY <1>5, <2>2
<1> QED BY <1>5, <1>7

\* A walk climbs with every component that is found.
LEMMA Climbs ==
    ASSUME Types, Shape, NEW h, Ranks(h), NEW path \in Seq(Names),
           NEW c, Walked(fcb, path, c), NEW k \in 1..Len(path)
    PROVE  /\ h[c[k - 1].at] <= h[c[k].at]
           /\ Lookup(fcb, c[k - 1].at, path[k]) # 0 =>
                 /\ h[c[k - 1].at] < h[c[k].at]
                 /\ Listed(c[k - 1].at) # {}
           /\ Lookup(fcb, c[k - 1].at, path[k]) = 0 => c[k].at = c[k - 1].at
<1>1. Len(path) \in Nat /\ k - 1 \in 0..Len(path) /\ path[k] \in Names
  BY LenProperties, ElementOfSeq
<1>2. fcb \in [Inodes -> Fcbs] /\ c[k - 1] \in Positions BY <1>1, Stands DEF Types, Standing
<1>3. c[k] = Down(fcb, c[k - 1], path[k]) BY DEF Walked
<1> PICK d \in Inodes : d = c[k - 1].at BY <1>2 DEF Positions
<1> DEFINE a == Lookup(fcb, d, path[k])
<1>4. h[d] \in Nat BY DEF Ranks
<1>5. CASE a # 0
  <2>1. a \in DOMAIN fcb[d].entries /\ fcb[d].entries[a].name = path[k]
    BY <1>2, <1>5, LookedUp
  <2>2. a \in Listed(d) BY <1>1, <2>1, NamedIsListed
  <2>3. c[k].at = Child(d, a) BY <1>1, <1>2, <1>3, <1>5, DownIs DEF Child
  <2>4. h[d] < h[c[k].at] BY <2>2, <2>3 DEF Ranks
  <2>5. c[k].at \in Inodes BY <1>1, Stands DEF Standing, Positions
  <2>6. h[c[k].at] \in Nat BY <2>5 DEF Ranks
  <2> QED BY <1>4, <1>5, <2>2, <2>4, <2>6
<1>6. CASE a = 0
  <2>1. c[k].at = d BY <1>1, <1>2, <1>3, <1>6, DownIs
  <2> QED BY <1>4, <1>6, <2>1
<1> QED BY <1>5, <1>6

\* The way to a directory neither leads through that directory itself nor through one
\* in which nothing is entered.
LEMMA OnTheWay ==
    ASSUME Types, Shape, Tree, Ranked, NEW path \in Seq(Names), path # <<>>,
           NEW c, Walked(fcb, path, c), NEW i \in Inodes, FindFcb(fcb, path) = i, fcb[i].dir,
           NEW k \in 1..Len(path)
    PROVE  /\ c[k - 1].at # i
           /\ \A j : Listed(j) = {} => c[k - 1].at # j
           /\ c[k - 1].at \in Inodes
           /\ Running => fcb[c[k - 1].at].is_used
<1> DEFINE n == Len(path)
<1>1. n \in Nat /\ n \in 1..n /\ k - 1 \in 0..n - 1 /\ k - 1 \in 0..n
  BY LenProperties, EmptySeq
<1>2. c[n].at = i /\ Lookup(fcb, c[n - 1].at, path[n]) # 0 BY EndIsFound
<1>3. PICK h : Ranks(h) BY DEF Ranked
<1>4. \A l \in 0..n : Standing(c[l]) /\ c[l].at \in Inodes /\ h[c[l].at] \in Nat
  BY <1>3, Stands DEF Standing, Positions, Ranks
<1>5. \A l \in 1..n : /\ h[c[l - 1].at] <= h[c[l].at]
                      /\ Lookup(fcb, c[l - 1].at, path[l]) # 0 =>
                            h[c[l - 1].at] < h[c[l].at] /\ Listed(c[l - 1].at) # {}
                      /\ Lookup(fcb, c[l - 1].at, path[l]) = 0 => c[l].at = c[l - 1].at
  BY <1>3, Climbs
<1>6. ASSUME c[k - 1].at = i PROVE FALSE
  <2> DEFINE T == {l \in 0..n - 1 : h[i] <= h[c[l].at]}
  <2>1. k - 1 \in T BY <1>1, <1>4, <1>6
  <2>2. ASSUME NEW l \in (k - 1) + 1..n - 1, l - 1 \in T PROVE l \in T
    <3>1. l \in 1..n /\ l \in 0..n /\ l - 1 \in 0..n /\ l \in 0..n - 1 BY <1>1
    <3>2. h[c[l - 1].at] <= h[c[l].at] /\ h[i] <= h[c[l - 1].at] BY <1>5, <2>2, <3>1
    <3>3. h[i] \in Nat BY <1>3 DEF Ranks
    <3> QED BY <1>4, <3>1, <3>2, <3>3
  <2>3. n - 1 \in Nat BY <1>1
  <2>4. k - 1..n - 1 \subseteq T
    <3> HIDE DEF T
    <3> QED BY <1>1, <2>1, <2>2, <2>3, Onwards
  <2>5. n - 1 \in T BY <1>1, <2>4
  <2>6. h[i] <= h[c[n - 1].at] /\ h[c[n - 1].at] < h[i] BY <1>1, <1>2, <1>5, <2>5
  <2>7. h[i] \in Nat /\ n - 1 \in 0..n BY <1>1, <1>3 DEF Ranks
  <2> QED BY <1>4, <2>6, <2>7
<1>7. ASSUME NEW j, Listed(j) = {}, c[k - 1].at = j PROVE FALSE
  <2> DEFINE T == {l \in 0..n - 1 : c[l].at = j}
  <2>1. k - 1 \in T BY <1>1, <1>7
  <2>2. ASSUME NEW l \in (k - 1) + 1..n - 1, l - 1 \in T PROVE l \in T
    <3>1. l \in 1..n /\ l \in 0..n - 1 BY <1>1
    <3>2. c[l - 1].at = j BY <2>2
    <3> QED BY <1>5, <1>7, <3>1, <3>2
  <2>3. n - 1 \in Nat BY <1>1
  <2>4. k - 1..n - 1 \subseteq T
    <3> HIDE DEF T
    <3> QED BY <1>1, <2>1, <2>2, <2>3, Onwards
  <2>5. c[n - 1].at = j BY <1>1, <2>4
  <2> QED BY <1>1, <1>2, <1>5, <1>7, <2>5
<1>8. ASSUME Running PROVE fcb[c[k - 1].at].is_used
  <2>1. Standing(c[k - 1]) BY <1>1, <1>4
  <2>2. CASE c[k - 1].at = Root BY <1>8, <2>2 DEF Running
  <2>3. CASE \E l : Entered(c[k - 1], l)
    <3>1. c[k - 1].parent \in Inodes BY <2>1 DEF Standing, Positions
    <3> QED BY <2>3, <3>1 DEF Entered, Tree
  <2> QED BY <2>1, <2>2, <2>3 DEF Standing
<1> QED BY <1>1, <1>4, <1>6, <1>7, <1>8

\* What the way of the prompt may be made of.
OnAWay(d, name) ==
    LET a == Lookup(fcb, d, name)
    IN /\ d # cwd /\ Listed(d) # {} /\ fcb[d].is_used
       /\ a # 0 => Child(d, a) = cwd \/ Listed(Child(d, a)) # {}

\* The path of the prompt leads where it led, when all that is found as before.
LEMMA PromptKept ==
    ASSUME Types, Running, Shape, Tree, Ranked, fcb[cwd].is_used,
           FindFcb(fcb, cwdName) = cwd, NEW files \in [Inodes -> Fcbs],
           \A d \in Inodes : \A name \in Names : OnAWay(d, name) => Alike(files, d, name)
    PROVE  FindFcb(files, cwdName) = cwd
<1>1. cwd \in Inodes /\ cwdName \in Seq(Names) /\ fcb[cwd].dir BY DEF Types, Shape
<1>2. CASE cwdName = <<>>
  <2>1. FindFcb(fcb, cwdName) = Walk(fcb, cwdName).at
        /\ FindFcb(files, cwdName) = Walk(files, cwdName).at
    BY <1>2 DEF FindFcb
  <2>2. PICK c : Walked(fcb, cwdName, c) BY <1>1, WalkIs DEF Types
  <2>3. PICK e : Walked(files, cwdName, e) BY <1>1, WalkIs
  <2>4. Len(cwdName) = 0 BY <1>2
  <2> QED BY <2>1, <2>2, <2>3, <2>4 DEF Walked
<1>3. CASE cwdName # <<>>
  <2>1. PICK c : Walked(fcb, cwdName, c) /\ \A k \in 0..Len(cwdName) : c[k] \in Positions
    BY <1>1, WalkIs DEF Types
  <2>2. ASSUME NEW k \in 1..Len(cwdName) PROVE Alike(files, c[k - 1].at, cwdName[k])
    <3>1. /\ cwdName[k] \in Names /\ Len(cwdName) \in Nat
          /\ k \in 0..Len(cwdName) /\ k - 1 \in 0..Len(cwdName)
      BY <1>1, ElementOfSeq, LenProperties
    <3>2. \A l \in 1..Len(cwdName) :
             /\ c[l - 1].at # cwd /\ c[l - 1].at \in Inodes /\ fcb[c[l - 1].at].is_used
             /\ Listed(c[l - 1].at) # {}
      BY <1>1, <1>3, <2>1, OnTheWay
    <3>3. c[k].at = cwd \/ Listed(c[k].at) # {}
      <4>1. CASE k = Len(cwdName) BY <1>1, <1>3, <2>1, <4>1, EndIsFound
      <4>2. CASE k # Len(cwdName)
        <5>1. k + 1 \in 1..Len(cwdName) /\ (k + 1) - 1 = k BY <3>1, <4>2
        <5> QED BY <3>2, <5>1
      <4> QED BY <4>1, <4>2
    <3> PICK d \in Inodes : d = c[k - 1].at BY <3>2
    <3> DEFINE a == Lookup(fcb, d, cwdName[k])
    <3>4. a # 0 => Child(d, a) = c[k].at
      <4>1. c[k] = Down(fcb, c[k - 1], cwdName[k]) BY <2>1 DEF Walked
      <4>2. fcb \in [Inodes -> Fcbs] /\ c[k - 1] \in Positions BY <2>1, <3>1 DEF Types
      <4>3. a # 0 => c[k] = [at |-> fcb[d].entries[a].inode, last |-> cwdName[k],
                             parent |-> d]
        BY <3>1, <4>1, <4>2, DownIs
      <4> QED BY <4>3 DEF Child
    <3>5. OnAWay(d, cwdName[k]) BY <3>2, <3>3, <3>4 DEF OnAWay
    <3> QED BY <3>1, <3>5
  <2>3. Lookup(fcb, c[Len(cwdName) - 1].at, cwdName[Len(cwdName)]) # 0
    BY <1>1, <1>3, <2>1, EndIsFound
  <2> QED BY <1>1, <1>3, <2>1, <2>2, <2>3, SameWay
<1> QED BY <1>2, <1>3

\* A removal does not change what is found, but for the file that is removed.
LEMMA RemovedAlike ==
    ASSUME Types, Shape, Tree, Ranked, cwd' = cwd, NEW i, NEW p, NEW m, Removed(i, p, m),
           fcb[cwd].is_used, i # cwd,
           NEW d \in Inodes, NEW name \in Names, OnAWay(d, name),
           NEW files, files = fcb'
    PROVE  Alike(files, d, name)
<1>1. /\ files \in [Inodes -> Fcbs] /\ fcb \in [Inodes -> Fcbs]
      /\ \A k : Moved(p, m, d, k)
  BY Removes DEF Types
<1>2. /\ m \in Listed(p) /\ Child(p, m) = i /\ Listed(i) = {} BY DEF Removed
<1> DEFINE a == Lookup(fcb, d, name)
           b == Lookup(files, d, name)
<1>3. /\ fcb[d].entries \in Seq(Dirents) /\ files[d].entries \in Seq(Dirents)
      /\ a = 0 => \A j \in DOMAIN fcb[d].entries : fcb[d].entries[j].name # name
      /\ a # 0 => /\ a \in DOMAIN fcb[d].entries /\ fcb[d].entries[a].name = name
                  /\ \A j \in DOMAIN fcb[d].entries : fcb[d].entries[j].name = name => a <= j
      /\ b = 0 => \A j \in DOMAIN files[d].entries : files[d].entries[j].name # name
      /\ b # 0 => /\ b \in DOMAIN files[d].entries /\ files[d].entries[b].name = name
                  /\ \A j \in DOMAIN files[d].entries : files[d].entries[j].name = name => b <= j
  BY <1>1, LookedUp
<1>4. /\ a # 0 => a \in Listed(d) /\ ~(d = p /\ a = m)
      /\ \A j : j \in Listed(d) => j \in DOMAIN fcb[d].entries /\ j \in Nat
  <2>1. a # 0 => a \in Listed(d) BY <1>3, NamedIsListed
  <2>2. a # 0 => Child(d, a) # i BY <1>2 DEF OnAWay
  <2> QED BY <1>2, <1>3, <2>1, <2>2, LenProperties DEF Listed
<1>5. /\ b # 0 => b \in Listed(d)'
      /\ \A j : j \in Listed(d)' => j \in DOMAIN files[d].entries /\ j \in Nat
  <2>1. Shape' BY Removes
  <2>2. ASSUME b # 0, b \notin Listed(d)' PROVE FALSE
    <3>1. b = 1 \/ (b = 2 /\ d # Root)
      <4>1. b \in DOMAIN files[d].entries /\ ~(b > Dots(d)) BY <1>3, <2>2 DEF Listed, Dots
      <4> QED BY <1>3, <4>1, LenProperties DEF Dots
    <3>2. files[d].dir
      <4>1. files[d].entries # <<>> BY <1>3, <2>2, EmptySeq
      <4> QED BY <2>1, <4>1 DEF Shape
    <3>3. files[d].entries[1] = Entry(".", d) /\ (d # Root => files[d].entries[2].name = "..")
      BY <2>1, <3>2 DEF Shape
    <3>4. files[d].entries[b].name \in {".", ".."} BY <3>1, <3>3 DEF Entry
    <3> QED BY <1>3, <2>2, <3>4, NamespaceAssumption
  <2> QED BY <1>3, <2>2, LenProperties DEF Listed
<1>6. ASSUME a # 0 PROVE b # 0 /\ files[d].entries[b] = fcb[d].entries[a]
  <2>1. PICK l \in Listed(d)' : Was(p, m, d, l) = a BY <1>1, <1>4, <1>6 DEF Moved
  <2>2. files[d].entries[l] = fcb[d].entries[a] BY <1>1, <2>1 DEF Moved
  <2>3. b # 0 /\ b <= l BY <1>3, <1>5, <1>6, <2>1, <2>2
  <2>4. /\ Was(p, m, d, b) \in Listed(d)
        /\ files[d].entries[b] = fcb[d].entries[Was(p, m, d, b)]
    BY <1>1, <1>5, <2>3 DEF Moved
  <2>5. a <= Was(p, m, d, b) BY <1>3, <1>4, <1>6, <2>3, <2>4
  <2>6. m \in Nat BY <1>2, <1>1, LenProperties DEF Listed, Removed, Fcbs
  <2>7. Was(p, m, d, b) = a
    BY <1>4, <1>5, <1>6, <2>1, <2>3, <2>4, <2>5, <2>6 DEF Was
  <2> QED BY <2>3, <2>4, <2>7
<1>7. ASSUME b # 0 PROVE a # 0
  <2>1. /\ Was(p, m, d, b) \in Listed(d)
        /\ files[d].entries[b] = fcb[d].entries[Was(p, m, d, b)]
    BY <1>1, <1>5, <1>7 DEF Moved
  <2> QED BY <1>3, <1>4, <1>7, <2>1
<1> QED BY <1>6, <1>7 DEF Alike

\* Only cd changes the prompt; what is created is entered in the current directory,
\* at the end of the way, and what is removed is not on it.
LEMMA PromptStep == ASSUME TreeInv, PromptIsTrue, [Next]_vars PROVE PromptIsTrue'
<1> SUFFICES ASSUME Running', fcb'[cwd'].is_used PROVE FindFcb(fcb', cwdName') = cwd'
  BY DEF PromptIsTrue, FindFcb, Walk, Down, Lookup
<1>1. CASE UNCHANGED <<fcb, cwd, cwdName, astray>>
  BY <1>1 DEF PromptIsTrue, Running
<1>2. CASE \E arg \in Args : Cd(arg)
  <2>1. fcb' = fcb /\ cwd' = FindFcb(fcb, cwdName') BY <1>2 DEF Cd
  <2> QED BY <2>1
<1>3. ASSUME Running, UNCHANGED <<cwd, cwdName>>, fcb[cwd].is_used,
             NEW files \in [Inodes -> Fcbs], files = fcb',
             \A d \in Inodes : \A name \in Names : OnAWay(d, name) => Alike(files, d, name)
      PROVE  FindFcb(fcb', cwdName') = cwd'
  <2>1. Types /\ Shape /\ Tree /\ Ranked BY <1>3 DEF TreeInv
  <2>2. FindFcb(fcb, cwdName) = cwd BY <1>3 DEF PromptIsTrue
  <2>3. FindFcb(files, cwdName) = cwd BY <1>3, <2>1, <2>2, PromptKept
  <2> QED BY <1>3, <2>3
<1>4. ASSUME NEW files, files = fcb', NEW d \in Inodes, NEW name,
             files[d].entries = fcb[d].entries
      PROVE  Alike(files, d, name)
  BY <1>4 DEF Alike, Lookup
<1>5. ASSUME NEW name \in Names, Mkdir(name) \/ Touch(name)
      PROVE  FindFcb(fcb', cwdName') = cwd'
  <2>0. PICK i \in Inodes : CanCreate(i) /\ \E dir, s : fcb' = Created(name, i, dir, s)
    BY <1>5 DEF Mkdir, Touch
  <2>1. PICK dir, s : CanCreate(i) /\ fcb' = Created(name, i, dir, s) BY <2>0
  <2>2. Running /\ fcb[cwd].is_used /\ ~fcb[i].is_used BY <2>1 DEF CanCreate
  <2>3. UNCHANGED <<cwd, cwdName>> BY <1>5 DEF Mkdir, Touch
  <2>4. Types /\ Shape /\ Tree /\ Ranked BY <2>2 DEF TreeInv
  <2>5. PICK files : files = fcb' OBVIOUS
  <2>6. files \in [Inodes -> Fcbs] BY <1>5, <2>2, <2>4, <2>5, CreateStep
  <2>7. ASSUME NEW d \in Inodes, NEW part \in Names, OnAWay(d, part)
        PROVE  Alike(files, d, part)
    <3>1. d # cwd /\ d # i BY <2>2, <2>7 DEF OnAWay
    <3>2. fcb'[d] = fcb[d] BY <2>1, <2>4, <3>1 DEF Created, Types
    <3> QED BY <1>4, <2>5, <3>2
  <2> QED BY <1>3, <2>2, <2>3, <2>5, <2>6, <2>7
<1>6. ASSUME NEW arg \in Args, Rm(arg) PROVE FindFcb(fcb', cwdName') = cwd'
  <2>1. Running BY <1>6 DEF Rm
  <2>2. Types /\ Shape /\ Tree /\ Ranked BY <2>1 DEF TreeInv
  <2>3. PICK i \in Inodes : i = FindFcb(fcb, GetFullPath(arg)) BY <1>6, <2>1, <2>2, RmDoes
  <2>4. UNCHANGED <<open, cwd, cwdName, astray>> BY <1>6, <2>1, <2>2, RmDoes
  <2>5. /\ fcb[i].dir /\ fcb' = [fcb EXCEPT ![i].name = "/"]
        \/ \E p, m : Removed(i, p, m)
    BY <1>6, <2>1, <2>2, <2>3, RmDoes DEF RmIs
  <2>6. PICK files : files = fcb' OBVIOUS
  <2>7. CASE fcb[i].dir /\ fcb' = [fcb EXCEPT ![i].name = "/"]
    <3>1. \A d \in Inodes : /\ fcb'[d].is_used = fcb[d].is_used
                            /\ fcb'[d].entries = fcb[d].entries
      BY <2>2, <2>7 DEF Types, Fcbs
    <3>2. fcb[cwd].is_used BY <2>2, <2>4, <3>1 DEF Types
    <3>3. files \in [Inodes -> Fcbs] BY <2>2, <2>4, <2>6, <2>7, Renames
    <3> QED BY <1>3, <1>4, <2>1, <2>4, <2>6, <3>1, <3>2, <3>3
  <2>8. ASSUME NEW p, NEW m, Removed(i, p, m) PROVE FindFcb(fcb', cwdName') = cwd'
    <3>1. files \in [Inodes -> Fcbs] BY <2>2, <2>4, <2>6, <2>8, Removes
    <3>2. i # cwd
      <4>1. fcb'[i] = Unused BY <2>8 DEF Removed
      <4> QED BY <2>4, <4>1 DEF Unused
    <3>3. fcb[cwd].is_used
      <4>1. cwd \in Inodes BY <2>2 DEF Types
      <4>2. CASE cwd = p
        <5>1. fcb[p].dir BY <2>2, <2>8, NamedIsListed DEF Removed, Listed
        <5> QED BY <2>2, <4>1, <4>2, <5>1 DEF Shape
      <4>3. CASE cwd # p BY <2>4, <2>8, <3>2, <4>1, <4>3 DEF Removed
      <4> QED BY <4>2, <4>3
    <3>4. \A d \in Inodes : \A part \in Names : OnAWay(d, part) => Alike(files, d, part)
      BY <2>2, <2>4, <2>6, <2>8, <3>2, <3>3, RemovedAlike
    <3> QED BY <1>3, <2>1, <2>4, <2>6, <3>1, <3>3, <3>4
  <2> QED BY <2>5, <2>7, <2>8
<1>7. UNCHANGED vars => UNCHANGED <<fcb, cwd, cwdName, astray>> BY DEF vars
<1>8. \A arg \in Args : Open(arg) \/ Close(arg) => UNCHANGED <<fcb, cwd, cwdName, astray>>
  BY DEF Open, Close
<1>9. CloseAll => UNCHANGED <<fcb, cwd, cwdName, astray>> BY DEF CloseAll
<1>10. ~CreateAstray BY DEF CreateAstray, Running
<1> QED BY <1>1, <1>2, <1>5, <1>6, <1>7, <1>8, <1>9, <1>10 DEF Next

LEMMA PromptInit == ASSUME Init PROVE PromptIsTrue
<1>1. fcb \in [Inodes -> Fcbs] /\ cwdName = <<>> /\ cwdName \in Seq(Names) /\ cwd = Root
  BY TreeInit DEF TreeInv, Types, Init
<1>2. PICK c : Walked(fcb, cwdName, c) BY <1>1, WalkIs
<1>3. Walk(fcb, cwdName).at = Root BY <1>1, <1>2 DEF Walked, Top
<1> QED BY <1>1, <1>3 DEF FindFcb, PromptIsTrue

\* PromptIsTrue for every tree and every path: as long as the current directory exists,
\* findFcb leads from the path in the prompt to it, although it passes over components
\* that are not found and directories may hold a name twice.
THEOREM PromptLeadsHome == Spec => []PromptIsTrue
<1>1. Init => TreeInv /\ PromptIsTrue BY TreeInit, PromptInit
<1>2. TreeInv /\ PromptIsTrue /\ [Next]_vars => TreeInv' /\ PromptIsTrue'
  BY TreeStep, PromptStep
<1> QED BY <1>1, <1>2, PTL DEF Spec

-----------------------------------------------------------------------------
(* What a step may not do                                                  *)

LEMMA CwdStep ==
    ASSUME TreeInv, PromptIsTrue, [Next]_vars, CwdIsOpen, ~CwdIsOpen'
    PROVE  \/ cwd' # cwd /\ ((\A k \in 1..MaxOpen : open[k] # Closed) \/ ~fcb[cwd].is_used)
           \/ cwd' = cwd /\ cwdName' # cwdName
           \/ cwd' = cwd /\ \E k \in 1..MaxOpen : /\ open[k].fcb = cwd
                                                  /\ open[k].path # cwdName
<1>1. PICK s \in Slots : open[s].fcb = cwd BY DEF CwdIsOpen, Slots
<1>2. /\ open \in Tables /\ open = [k \in Slots |-> open[k]] /\ DOMAIN open = Slots
      /\ cwd \in Inodes /\ Closed.fcb = NoFile /\ NoFile \notin Inodes
  BY DEF TreeInv, Types, Tables, Closed, NoFile, Inodes
<1>3. \A k \in Slots : open'[k].fcb # cwd' BY DEF CwdIsOpen, Slots
<1>4. ~UNCHANGED <<open, cwd>> BY <1>1, <1>3
<1>5. ASSUME Fewer(open, open', cwdName), cwd' = cwd
      PROVE  \E k \in 1..MaxOpen : open[k].fcb = cwd /\ open[k].path # cwdName
  BY <1>1, <1>3, <1>5 DEF Fewer, Slots
<1>6. ASSUME NEW arg \in Args, Open(arg) PROVE FALSE
  <2>1. open' = DoOpen(open, GetFullPath(arg)) /\ cwd' = cwd BY <1>6 DEF Open
  <2>2. PICK new : new = [fcb |-> FindFcb(fcb, GetFullPath(arg)), path |-> GetFullPath(arg)]
    OBVIOUS
  <2>3. open' = open \/ \E k \in Slots : open[k] = Closed /\ open' = [open EXCEPT ![k] = new]
    <3>1. \A path : \/ DoOpen(open, path) = open
                   \/ \E k \in Slots : /\ open[k] = Closed
                                       /\ DoOpen(open, path) = [open EXCEPT ![k] =
                                              [fcb |-> FindFcb(fcb, path), path |-> path]]
      BY <1>2, Opened
    <3> QED BY <2>1, <2>2, <3>1, Zenon
  <2>4. open'[s] = open[s] BY <1>1, <1>2, <2>3
  <2> QED BY <1>1, <1>3, <2>1, <2>4
<1>7. ASSUME NEW arg \in Args, Close(arg)
      PROVE  \E k \in 1..MaxOpen : open[k].fcb = cwd /\ open[k].path # cwdName
  <2>1. open' = DoClose(open, GetFullPath(arg), cwdName) /\ cwd' = cwd BY <1>7 DEF Close
  <2>2. Fewer(open, open', cwdName) BY <1>2, <2>1, ClosedBy
  <2> QED BY <1>5, <2>1, <2>2
<1>8. ASSUME CloseAll
      PROVE  \E k \in 1..MaxOpen : open[k].fcb = cwd /\ open[k].path # cwdName
  <2>1. Fewer(open, open', cwdName) /\ cwd' = cwd BY <1>2, <1>8, AllClosed DEF CloseAll
  <2> QED BY <1>5, <2>1
<1>9. ASSUME NEW arg \in Args, Cd(arg), cwd' # cwd, fcb[cwd].is_used,
             NEW e \in Slots, open[e] = Closed
      PROVE  FALSE
  <2>1. PICK path : path = GetFullPath(arg) OBVIOUS
  <2>2. PICK table : table = IF IsFileOpen(fcb, open, path) > 0 THEN open
                             ELSE DoOpen(open, path)
    OBVIOUS
  <2>3. Running /\ cwd' = FindFcb(fcb, path) /\ open' = DoClose(table, cwdName, path)
    BY <1>9, <2>1, <2>2 DEF Cd
  <2>4. FindFcb(fcb, cwdName) = cwd BY <1>9, <2>3 DEF PromptIsTrue
  <2>5. table = [k \in Slots |-> table[k]] /\ \E k \in Slots : table[k].fcb = cwd'
    <3>1. CASE IsFileOpen(fcb, open, path) > 0
      <4>1. IsFileOpen(fcb, open, path) # 0 BY <3>1
      <4>2. table = open BY <2>2, <3>1
      <4> QED BY <1>2, <2>3, <4>1, <4>2, OpenSlot
    <3>2. CASE ~(IsFileOpen(fcb, open, path) > 0)
      <4>1. table = DoOpen(open, path) BY <2>2, <3>2
      <4>2. PICK k \in Slots : table = [open EXCEPT ![k] = [fcb |-> FindFcb(fcb, path),
                                                            path |-> path]]
        <5>1. \/ DoOpen(open, path) = open /\ \A j \in Slots : open[j] # Closed
              \/ \E k \in Slots : /\ open[k] = Closed
                                  /\ DoOpen(open, path) = [open EXCEPT ![k] =
                                         [fcb |-> FindFcb(fcb, path), path |-> path]]
          BY <1>2, Opened
        <5> QED BY <1>9, <4>1, <5>1
      <4>3. table[k].fcb = cwd' BY <1>2, <2>3, <4>2
      <4> QED BY <1>2, <4>2, <4>3
    <3> QED BY <3>1, <3>2
  <2>6. PICK k \in Slots : table[k].fcb = cwd' BY <2>5
  <2>7. open'[k] = table[k] BY <1>9, <2>3, <2>4, <2>5, <2>6, ClosedBy
  <2> QED BY <1>3, <2>6, <2>7
<1>10. ASSUME NEW arg \in Args, Cd(arg), cwd' = cwd PROVE cwdName' # cwdName
  BY <1>10 DEF Cd
<1>11. \A name \in Names : Mkdir(name) \/ Touch(name) => UNCHANGED <<open, cwd>>
  BY DEF Mkdir, Touch
<1>12. \A arg \in Args : Rm(arg) => UNCHANGED <<open, cwd>> BY DEF Rm
<1>13. UNCHANGED vars \/ CreateAstray => UNCHANGED <<open, cwd>> BY DEF vars, CreateAstray
<1>14. CASE \E arg \in Args : Cd(arg) BY <1>9, <1>10, <1>14 DEF Slots
<1>15. CASE CloseAll \/ \E arg \in Args : Open(arg) \/ Close(arg)
  <2>1. cwd' = cwd BY <1>15 DEF CloseAll, Open, Close
  <2> QED BY <1>6, <1>7, <1>8, <1>15, <2>1
<1> QED BY <1>4, <1>11, <1>12, <1>13, <1>14, <1>15 DEF Next

\* CwdClosesOnlySo for every tree: the current directory leaves the table of open files
\* only by a cd into a full table, by one out of a removed directory, by one to itself
\* under another path, or by a close of the slot it has under another path.
THEOREM CwdStaysOpen == Spec => CwdClosesOnlySo
<1>1. TreeInv /\ PromptIsTrue /\ [Next]_vars =>
        [CwdIsOpen /\ ~CwdIsOpen' =>
          \/ cwd' # cwd /\ ((\A k \in 1..MaxOpen : open[k] # Closed) \/ ~fcb[cwd].is_used)
          \/ cwd' = cwd /\ cwdName' # cwdName
          \/ cwd' = cwd /\ \E k \in 1..MaxOpen : /\ open[k].fcb = cwd
                                                 /\ open[k].path # cwdName]_vars
  BY CwdStep
<1> QED BY <1>1, NamespaceInvariant, PromptLeadsHome, PTL DEF Spec, CwdClosesOnlySo

LEMMA RootStep ==
    ASSUME TreeInv, [Next]_vars, fcb[Root].is_used, ~fcb'[Root].is_used
    PROVE  /\ \E arg \in Args : Rm(arg)
           /\ \A arg \in Args : Rm(arg) => GetFullPath(arg) = <<>>
           /\ ~\E p, q \in UNION {Places(i) : i \in Inodes} :
                 p # q /\ p[1] = Root /\ q[1] = Root
<1> USE RootIsInode
<1>1. Running /\ Types /\ Shape /\ Tree /\ Ranked
  <2>1. Next BY DEF vars
  <2>2. Running
    BY <2>1 DEF Next, Mkdir, Touch, CanCreate, Rm, Cd, Open, Close, CloseAll, CreateAstray
  <2> QED BY <2>2 DEF TreeInv
<1>2. ~Shape' BY DEF Shape
<1>3. fcb' # fcb OBVIOUS
<1>4. \E arg \in Args : Rm(arg)
  <2>1. \A name \in Names : ~Mkdir(name) /\ ~Touch(name) BY <1>1, <1>2, CreateStep
  <2>2. \A arg \in Args : ~Cd(arg) /\ ~Open(arg) /\ ~Close(arg)
    BY <1>3 DEF Cd, Open, Close
  <2>3. ~CloseAll /\ ~CreateAstray /\ ~UNCHANGED vars BY <1>3 DEF CloseAll, CreateAstray, vars
  <2> QED BY <2>1, <2>2, <2>3 DEF Next
<1>5. ASSUME NEW arg \in Args, Rm(arg)
      PROVE  FindFcb(fcb, GetFullPath(arg)) = Root /\ ~NotEmpty(Root)
  <2>1. PICK i \in Inodes : i = FindFcb(fcb, GetFullPath(arg)) BY <1>1, <1>5, RmDoes
  <2>2. cwd' = cwd BY <1>1, <1>5, RmDoes
  <2>3. \/ fcb[i].dir /\ fcb' = [fcb EXCEPT ![i].name = "/"]
        \/ \E p, m : Removed(i, p, m)
        \/ i = Root /\ ~NotEmpty(i)
    BY <1>1, <1>5, <2>1, RmDoes DEF RmIs
  <2>4. i = Root /\ ~NotEmpty(i) BY <1>1, <1>2, <2>2, <2>3, Renames, Removes
  <2> QED BY <2>1, <2>4
<1>6. ASSUME NEW arg \in Args, Rm(arg) PROVE GetFullPath(arg) = <<>>
  <2>1. GetFullPath(arg) \in Seq(Names) BY <1>1, FullPaths DEF Types
  <2>2. FindFcb(fcb, GetFullPath(arg)) = Root BY <1>5, <1>6
  <2>3. FindFcb(fcb, GetFullPath(arg)) # NoFile BY <2>2 DEF Root, NoFile
  <2> QED BY <1>1, <2>1, <2>2, <2>3, Resolved
<1>7. ~NotEmpty(Root) BY <1>4, <1>5
<1>8. ASSUME NEW j \in Inodes, NEW p \in Places(j), p[1] = Root PROVE p = <<Root, 2>>
  <2>1. PICK d \in Inodes : \E k \in Listed(d) : p = <<d, k>> BY <1>1, PlacesAre
  <2>2. PICK k \in Listed(d) : p = <<d, k>> BY <2>1
  <2>3. d = Root BY <1>8, <2>2
  <2>4. fcb[Root].entries \in Seq(Dirents) BY <1>1 DEF Types, Fcbs
  <2>5. k \in 1..Len(fcb[Root].entries) /\ k > 1
    BY <2>2, <2>3, <2>4, LenProperties DEF Listed, Dots
  <2>6. Len(fcb[Root].entries) \in Nat /\ ~(Len(fcb[Root].entries) > 2)
    BY <1>7, <2>4, LenProperties DEF NotEmpty
  <2>7. k = 2 BY <2>5, <2>6
  <2> QED BY <2>2, <2>3, <2>7
<1> QED BY <1>4, <1>6, <1>8

\* RootGoesOnlySo for every tree: the root directory is deleted by an rm, one whose
\* path, relative or absolute, comes to nothing once its dots are taken, never by one
\* that findFcb lets end at the root; and never with two entries besides its dot.
THEOREM RootStays == Spec => RootGoesOnlySo
<1>1. TreeInv /\ [Next]_vars =>
        [fcb[Root].is_used /\ ~fcb'[Root].is_used =>
          /\ \E arg \in Args : Rm(arg)
          /\ \A arg \in Args : Rm(arg) => GetFullPath(arg) = <<>>
          /\ ~\E p, q \in UNION {Places(i) : i \in Inodes} :
                p # q /\ p[1] = Root /\ q[1] = Root]_vars
  BY RootStep
<1> QED BY <1>1, NamespaceInvariant, PTL DEF Spec, RootGoesOnlySo

-----------------------------------------------------------------------------
(* What findFcb finds                                                      *)

\* The walk along the beginning of a path is the beginning of the walk.
LEMMA WalkBegins ==
    ASSUME NEW files, NEW path \in Seq(Names), NEW c, Walked(files, path, c),
           files \in [Inodes -> Fcbs], NEW m \in 0..Len(path)
    PROVE  /\ SubSeq(path, 1, m) \in Seq(Names) /\ Len(SubSeq(path, 1, m)) = m
           /\ \A k \in 1..m : SubSeq(path, 1, m)[k] = path[k]
           /\ Walk(files, SubSeq(path, 1, m)) = c[m]
<1>1. PICK b : b = SubSeq(path, 1, m) OBVIOUS
<1>2. Len(path) \in Nat /\ m \in Nat /\ m <= Len(path) BY LenProperties
<1>3. b \in Seq(Names) /\ Len(b) = m /\ \A k \in 1..m : b[k] = path[k]
  <2>1. \A k \in 1..m : path[k] \in Names BY <1>2, ElementOfSeq
  <2> QED BY <1>1, <1>2, <2>1, SubSeqProperties
<1>4. PICK e : Walked(files, b, e) BY <1>3, WalkIs
<1> DEFINE T == {k \in 0..m : e[k] = c[k]}
<1>5. 0 \in T BY <1>2, <1>4 DEF Walked
<1>6. ASSUME NEW k \in 1..m, k - 1 \in T PROVE k \in T
  <2>1. k \in 0..m /\ k \in 1..Len(path) /\ k \in 1..Len(b) BY <1>2, <1>3
  <2>2. e[k] = Down(files, e[k - 1], b[k]) BY <1>4, <2>1 DEF Walked
  <2>3. c[k] = Down(files, c[k - 1], path[k]) BY <2>1 DEF Walked
  <2>4. e[k - 1] = c[k - 1] BY <1>6
  <2> QED BY <1>3, <2>1, <2>2, <2>3, <2>4
<1>7. 0..m \subseteq T
  <2> HIDE DEF T
  <2> QED BY <1>2, <1>5, <1>6, Upwards
<1>8. e[m] = c[m] BY <1>2, <1>7
<1>9. Walk(files, b) = c[m] BY <1>3, <1>4, <1>8 DEF Walked
<1> QED BY <1>1, <1>3, <1>9

\* On the walk of a path that exists each component is the one compared last.
LEMMA ExistsStepwise ==
    ASSUME Types, NEW path \in Seq(Names), Exists(path), NEW c, Walked(fcb, path, c),
           NEW k \in 1..Len(path)
    PROVE  c[k].last = path[k] /\ c[k].parent = c[k - 1].at
<1>1. Len(path) \in Nat /\ k \in DOMAIN path /\ k - 1 \in 0..Len(path) /\ path[k] \in Names
  BY LenProperties, ElementOfSeq
<1>2. fcb \in [Inodes -> Fcbs] BY DEF Types
<1>3. Walk(fcb, SubSeq(path, 1, k - 1)) = c[k - 1] BY <1>1, <1>2, WalkBegins
<1>4. Lookup(fcb, c[k - 1].at, path[k]) > 0 BY <1>1, <1>3 DEF Exists
<1>5. c[k] = Down(fcb, c[k - 1], path[k]) BY DEF Walked
<1> QED BY <1>4, <1>5 DEF Down

\* findFcb finds what exists, and the directory findParentFcb finds with it is the one the
\* path without its last component leads to; and whatever findFcb finds is in use and
\* entered, under the last component's name, in the directory findParentFcb finds
\* (block.c:165, 221).  This is what remains of FindsOnlyWhatExists: only components before
\* the last can be passed over.
FindsByName ==
    Running => \A arg \in Args :
        LET path == GetFullPath(arg)
            i == FindFcb(fcb, path)
            p == FindParentFcb(fcb, path)
        IN /\ Exists(path) =>
                /\ i # NoFile
                /\ path # <<>> => p = FindFcb(fcb, SubSeq(path, 1, Len(path) - 1))
           /\ i # NoFile =>
                /\ fcb[i].is_used
                /\ path # <<>> => EntersAs(p, i, Last(path))

LEMMA ExistingIsFound ==
    ASSUME Types, NEW path \in Seq(Names), Exists(path)
    PROVE  /\ FindFcb(fcb, path) # NoFile
           /\ path # <<>> =>
                FindParentFcb(fcb, path) = FindFcb(fcb, SubSeq(path, 1, Len(path) - 1))
<1> PICK n : n = Len(path) OBVIOUS
<1>1. n \in Nat BY LenProperties
<1>2. fcb \in [Inodes -> Fcbs] BY DEF Types
<1>3. PICK c : Walked(fcb, path, c) /\ \A k \in 0..n : c[k] \in Positions BY <1>2, WalkIs
<1>4. Walk(fcb, path) = c[n] /\ c[n].at # NoFile
  <2>1. n \in 0..n BY <1>1
  <2> QED BY <1>3, <2>1 DEF Walked, Positions, Inodes, NoFile
<1>5. CASE path = <<>> BY <1>4, <1>5 DEF FindFcb
<1>6. CASE path # <<>>
  <2>1. n \in 1..n /\ n - 1 \in 0..n BY <1>1, <1>6, EmptySeq
  <2>2. c[n].last = path[n] /\ c[n].parent = c[n - 1].at
    BY <1>3, <2>1, ExistsStepwise
  <2>3. FindFcb(fcb, path) # NoFile /\ FindParentFcb(fcb, path) = c[n - 1].at
    BY <1>4, <2>2 DEF FindFcb, FindParentFcb, Last
  <2>4. PICK b : b = SubSeq(path, 1, n - 1) OBVIOUS
  <2>5. /\ b \in Seq(Names) /\ Len(b) = n - 1 /\ \A k \in 1..n - 1 : b[k] = path[k]
        /\ Walk(fcb, b) = c[n - 1]
    BY <1>2, <1>3, <2>1, <2>4, WalkBegins
  <2>6. b = <<>> \/ c[n - 1].last = Last(b)
    <3> SUFFICES ASSUME b # <<>> PROVE c[n - 1].last = Last(b) OBVIOUS
    <3>1. n - 1 \in 1..n - 1 /\ n - 1 \in 1..n BY <1>1, <2>1, <2>5, EmptySeq
    <3>2. c[n - 1].last = path[n - 1] BY <1>3, <3>1, ExistsStepwise
    <3> QED BY <2>5, <3>1, <3>2 DEF Last
  <2>7. FindFcb(fcb, b) = c[n - 1].at BY <2>5, <2>6 DEF FindFcb
  <2> QED BY <2>3, <2>4, <2>7
<1> QED BY <1>5, <1>6

\* FindsByName for every tree and every path: a path is resolved to the file it names when
\* there is one, and to nothing that has another name.
THEOREM FilesAreFoundByName == Spec => []FindsByName
<1>1. TreeInv => FindsByName
  <2> SUFFICES ASSUME TreeInv, Running, NEW arg \in Args,
                      NEW path, path = GetFullPath(arg)
               PROVE  LET i == FindFcb(fcb, path)
                          p == FindParentFcb(fcb, path)
                      IN /\ Exists(path) =>
                              /\ i # NoFile
                              /\ path # <<>> => p = FindFcb(fcb, SubSeq(path, 1, Len(path) - 1))
                         /\ i # NoFile =>
                              /\ fcb[i].is_used
                              /\ path # <<>> => EntersAs(p, i, Last(path))
    BY DEF FindsByName
  <2>1. Types /\ Shape /\ Tree BY DEF TreeInv
  <2>2. path \in Seq(Names) BY <2>1, FullPaths DEF Types
  <2> QED BY <2>1, <2>2, ExistingIsFound, Resolved
<1> QED BY <1>1, NamespaceInvariant, PTL

===============================================================================
