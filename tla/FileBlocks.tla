------------------------------ MODULE FileBlocks ------------------------------
(***************************************************************************)
(* The files of exp4: file.c over the block pool of block.c.               *)
(*                                                                         *)
(* fs is the disk image that my_format allocates: the pool, the FCB array  *)
(* and the contents of the blocks.  A block holds B units; a unit is eight *)
(* bytes, so a block holds as many units of data as it holds block         *)
(* numbers.  An FCB maps a file to its blocks by L0 direct numbers, one    *)
(* index block and one index block of index blocks.                        *)
(*                                                                         *)
(* The pool is the one that BlockPool promises and FreeList implements, as *)
(* long as nobody gives back a block that is free already.  The program    *)
(* goes on after that, and after using the negative result of a refused    *)
(* allocation as a block number; the model records the event in            *)
(* fs.status and stops there, because the image is then overwritten in     *)
(* places no definition here describes.                                    *)
(*                                                                         *)
(* Data is told apart by where it belongs: the unit at position i of file  *)
(* f is <<"data", f, i>> whichever call writes it.                         *)
(***************************************************************************)
EXTENDS Integers, FiniteSets, Sequences

CONSTANTS
          N,        \* the blocks behind the FCB array are 1..N
          B,        \* BLOCK_SIZE in units, and block numbers per index block
          L0,       \* LEVEL0_BLOCK_CNT
          Inodes,   \* INODE_MAX_COUNT - 1: the inodes besides the root's
          Entry,    \* sizeof(inode) in units: one directory entry
          MaxLen,   \* bound: no file grows beyond this many units
          Sizes,    \* bound: the amounts of data written by one command
          Positions,\* bound: the positions `write -o' is given
          Shrinking \* bound: whether `write -t' may drop blocks of a file

MAX_FILE_SIZE == B * (L0 + B + B * B)

\* The root directory has an entry for "." and one for every other inode.
ASSUME FileBlocksAssumption ==
    /\ N \in Nat /\ N > 2 /\ B \in Nat \ {0} /\ L0 \in Nat \ {0}
    /\ Inodes \in Nat \ {0} /\ Entry \in 1..B
    /\ (Inodes + 1) * Entry <= MAX_FILE_SIZE
    /\ MaxLen \in 0..MAX_FILE_SIZE
    /\ Sizes \subseteq Nat \ {0} /\ Positions \subseteq Nat
    /\ Shrinking \in BOOLEAN

VARIABLES fs,     \* the disk image
          clean   \* auxiliary: files no write has damaged so far (see Damages)
vars == <<fs, clean>>

Root == 0                     \* the root directory's inode
Files == 1..Inodes
Blocks == 1..N
Data(f, at, n) == [i \in 1..n |-> <<"data", f, at + i - 1>>]
DirEntry(g) == [i \in 1..Entry |-> <<"dir", g, i>>]
JunkBlock == [i \in 1..B |-> <<"junk", 0, 0>>]   \* whatever a free block holds

CeilDiv(a, b) == (a + b - 1) \div b
Least(a, b) == IF a < b THEN a ELSE b

-----------------------------------------------------------------------------
(* The pool                                                                *)

Lowest(S, n) == [i \in 1..n |->
                    CHOOSE b \in S : Cardinality({c \in S : c < b}) = i - 1]

\* n calls of allocate_block(sb, 1) in a row; each must leave one block over.
CanTake(s, n) == n = 0 \/ s.free_block_count >= n + 1
TakeLeavesLast(s, n) ==          \* mutant: the last one stays in the pool
    LET got == Lowest(s.free, n)
    IN [s EXCEPT !.free = @ \ {got[i] : i \in 1..n - 1},
                 !.free_block_count = @ - n]
Take(s, n) ==
    LET got == Lowest(s.free, n)
    IN [s EXCEPT !.free = @ \ {got[i] : i \in 1..n},
                 !.free_block_count = @ - n]

\* free_block(sb, b, 1) for the blocks of a sequence.  A list node overwrites
\* the block; the counter goes up even for a block that is free already, which
\* breaks the list.
ReleaseCountsOnly(s, bs) ==      \* mutant: block_index is not linked anywhere
    [s EXCEPT !.free_block_count = @ + Len(bs)]
Release(s, bs) ==
    LET given == {bs[i] : i \in DOMAIN bs}
    IN [s EXCEPT !.free = @ \cup given,
                 !.free_block_count = @ + Len(bs),
                 !.disk = [b \in Blocks |-> IF b \in given THEN JunkBlock ELSE @[b]],
                 !.status = IF given \cap s.free # {} THEN "freed_twice" ELSE @]

-----------------------------------------------------------------------------
(* The mixed index: get_blocks and save_blocks                             *)

NumberAt(s, b, i) == s.disk[b][i][2]

\* The blocks of a file in order, read off the first BlockCount entries.
BlockCount(s, f) == CeilDiv(s.fcb[f].length, B)
GetBlocksOffByOne(s, f) ==       \* mutant: one direct block too many
    [k \in 1..BlockCount(s, f) |->
        IF k <= L0 + 1 THEN s.fcb[f].mixed[k]
        ELSE NumberAt(s, s.fcb[f].mixed[L0 + 1], k - L0)]
GetBlocks(s, f) ==
    LET mixed == s.fcb[f].mixed
    IN [k \in 1..BlockCount(s, f) |->
          IF k <= L0 THEN mixed[k]
          ELSE IF k <= L0 + B THEN NumberAt(s, mixed[L0 + 1], k - L0)
          ELSE LET j == k - L0 - B - 1
                   leaf == NumberAt(s, mixed[L0 + 2], (j \div B) + 1)
               IN NumberAt(s, leaf, (j % B) + 1)]

\* The second-level index blocks of a file with n data blocks.
Leaves(n) == IF n <= L0 + B THEN 0 ELSE CeilDiv(n - L0 - B, B)

\* The index blocks save_blocks allocates when a file goes from o to n blocks.
GetsFirst(o, n) == IF o <= L0 /\ n > L0 THEN 1 ELSE 0
GetsSecond(o, n) == IF o <= L0 + B /\ n > L0 + B THEN 1 ELSE 0
GetsLeaves(o, n) == IF Leaves(n) > Leaves(o) THEN Leaves(n) - Leaves(o) ELSE 0
IndexNeed(o, n) == GetsFirst(o, n) + GetsSecond(o, n) + GetsLeaves(o, n)

\* The numbers in the FCB, and those in the index block of index blocks: what was
\* there and the blocks of ix.
MixedIndex(old, blocks, o, n, ix) ==
    [k \in 1..L0 + 2 |->
        IF k <= L0 THEN IF k <= n THEN blocks[k] ELSE old[k]
        ELSE IF k = L0 + 1 /\ GetsFirst(o, n) = 1 THEN ix[1]
        ELSE IF k = L0 + 2 /\ GetsSecond(o, n) = 1 THEN ix[GetsFirst(o, n) + 1]
        ELSE old[k]]
LeafNumbers(s, second, o, n, ix) ==
    [i \in 1..Leaves(n) |->
        IF i <= Leaves(o) THEN NumberAt(s, second, i)
        ELSE ix[GetsFirst(o, n) + GetsSecond(o, n) + i - Leaves(o)]]

\* What a block holds once the numbers of a sequence are written to its start,
\* and once the index of blocks 1..n of a file has been written.
Numbers(s, b, bs) ==
    [i \in 1..B |-> IF i <= Len(bs) THEN <<"num", bs[i], 0>> ELSE s.disk[b][i]]
WithIndex(s, mixed, leaf, blocks, n, b) ==
    LET at == {i \in 1..Leaves(n) : leaf[i] = b}
        before == L0 + B + ((CHOOSE i \in at : TRUE) - 1) * B
    IN IF n > L0 /\ b = mixed[L0 + 1]
         THEN Numbers(s, b, SubSeq(blocks, L0 + 1, Least(n, L0 + B)))
       ELSE IF n > L0 + B /\ b = mixed[L0 + 2] THEN Numbers(s, b, leaf)
       ELSE IF at # {}
         THEN Numbers(s, b, SubSeq(blocks, before + 1, Least(n, before + B)))
       ELSE s.disk[b]

\* save_blocks: surplus old blocks are given back, then the index is written.
SaveBlocks(s0, f, blocks) ==
    LET o   == BlockCount(s0, f)
        n   == Len(blocks)
        s   == IF n <= o THEN Release(s0, SubSeq(GetBlocks(s0, f), n + 1, o)) ELSE s0
        ix  == Lowest(s.free, IndexNeed(o, n))
        mixed == MixedIndex(s.fcb[f].mixed, blocks, o, n, ix)
        leaf == LeafNumbers(s, mixed[L0 + 2], o, n, ix)
    IN CASE s.status # "ok" -> s
         [] s.status = "ok" /\ ~CanTake(s, IndexNeed(o, n)) ->
              [s EXCEPT !.status = "wild_block"]
         [] OTHER -> [Take(s, IndexNeed(o, n)) EXCEPT
                         !.fcb[f].mixed = mixed,
                         !.disk = [b \in Blocks |->
                                      WithIndex(s, mixed, leaf, blocks, n, b)]]

-----------------------------------------------------------------------------
(* Writing and reading                                                     *)

\* Which of size units written at position at goes to slot i of the k-th block,
\* or 0: the first one to slot at % B of the last block kept, and the rest to
\* fresh blocks.
UnitFor(at, size, k, i) ==
    LET keep  == CeilDiv(at, B)
        frag  == at % B
        first == IF keep = 0 THEN 0 ELSE Least(size, B - frag)
        j     == first + (k - keep - 1) * B + i
    IN IF k = keep /\ frag < i /\ i - frag <= first THEN i - frag
       ELSE IF k > keep /\ j <= size THEN j
       ELSE 0

\* Slot i of block b after toks were written at position at of these blocks.
CellWith(s, blocks, at, toks, b, i) ==
    LET hit == {k \in DOMAIN blocks : blocks[k] = b /\ UnitFor(at, Len(toks), k, i) # 0}
    IN IF hit = {} THEN s.disk[b][i]
       ELSE toks[UnitFor(at, Len(toks), CHOOSE k \in hit : TRUE, i)]
DiskWith(s, blocks, at, toks) ==
    [b \in Blocks |-> [i \in 1..B |-> CellWith(s, blocks, at, toks, b, i)]]

\* The common part of do_write and of the three modes of _do_write.  Blocks
\* up to position at are kept; fresh blocks follow, which also replace every
\* later block the file had.  The file is newLen units long afterwards.
Put(s, f, at, toks, newLen) ==
    LET keep  == CeilDiv(at, B)
        fresh == CeilDiv(newLen, B) - keep
        blocks == SubSeq(GetBlocks(s, f), 1, keep) \o Lowest(s.free, fresh)
        written == [Take(s, fresh) EXCEPT !.disk = DiskWith(s, blocks, at, toks)]
        saved == SaveBlocks(written, f, blocks)
    IN CASE s.status # "ok" -> s
         [] s.status = "ok" /\ ~CanTake(s, fresh) -> [s EXCEPT !.status = "wild_block"]
         [] OTHER -> [saved EXCEPT !.fcb[f].length = newLen]

\* do_write, and _do_write in mode APPEND: behind the last unit.  When the
\* last block is full, slot 0 of that block is where the new data goes.
Extend(s, f, toks) ==
    LET len == s.fcb[f].length IN Put(s, f, len, toks, len + Len(toks))

\* do_read of a whole file.
Read(s, f) == LET bs == GetBlocks(s, f)
              IN [i \in 1..s.fcb[f].length |->
                    s.disk[bs[((i - 1) \div B) + 1]][((i - 1) % B) + 1]]

-----------------------------------------------------------------------------
(* The commands of the shell, from the root directory                      *)

Running == fs.status = "ok"
Used(f) == fs.fcb[f].is_used
Length(f) == fs.fcb[f].length

\* my_format: the root directory has lost the block do_create_file took and
\* holds the entry "." in the next one.  The four directories my_format makes
\* in it are left out.
Init ==
    /\ fs = [free |-> 3..N, free_block_count |-> N - 2, status |-> "ok",
             fcb |-> [f \in {Root} \cup Files |->
                        [is_used |-> f = Root,
                         length |-> IF f = Root THEN Entry ELSE 0,
                         mixed |-> [k \in 1..L0 + 2 |->
                                      IF f = Root /\ k = 1 THEN 2 ELSE 0]]],
             disk |-> [b \in Blocks |-> [i \in 1..B |->
                         IF b = 2 /\ i <= Entry THEN DirEntry(Root)[i]
                         ELSE <<"junk", 0, 0>>]]]
    /\ clean = {Root}

\* Writes the program gets wrong: data put at a position where a block has just
\* ended goes over the start of that block, and data put before the end of the
\* file drops every later block.
Damages(f, at, n) ==
    \/ at > 0 /\ at % B = 0 /\ n > 0
    \/ at + n < Length(f) /\ CeilDiv(at, B) < BlockCount(fs, f)

\* touch: do_create_file.  The block allocated first is recorded nowhere.
Create ==
    /\ Running /\ CanTake(fs, 1)
    /\ \E f \in Files :
        /\ ~Used(f) /\ \A g \in Files : g < f => Used(g)
        /\ fs' = Extend([Take(fs, 1) EXCEPT !.fcb[f].is_used = TRUE,
                                            !.fcb[f].length = 0],
                        Root, DirEntry(f))
        /\ clean' = (clean \cup {f}) \
                      (IF Damages(Root, Length(Root), Entry) THEN {Root} ELSE {})

\* ERR_NOT_ENOUGH_INODE is found out after the block has been taken.
CreateFails ==
    /\ Running /\ CanTake(fs, 1)
    /\ \A f \in Files : Used(f)
    /\ fs' = Take(fs, 1)
    /\ UNCHANGED clean

\* write -a
WriteAppend(f, n) ==
    /\ Running /\ Used(f) /\ Length(f) + n <= MaxLen
    /\ fs' = Extend(fs, f, Data(f, Length(f), n))
    /\ clean' = IF Damages(f, Length(f), n) THEN clean \ {f} ELSE clean

\* write -o: n units from position at on.
Override(f, at, n) ==
    /\ Running /\ Used(f) /\ at <= Length(f) /\ at + n <= MaxLen
    /\ fs' = Put(fs, f, at, Data(f, at, n),
                 IF at + n > Length(f) THEN at + n ELSE Length(f))
    /\ clean' = IF Damages(f, at, n) THEN clean \ {f} ELSE clean

\* write -t: all blocks are given back, then the file is written from its start.
Truncate(f, n) ==
    /\ Running /\ Used(f) /\ n <= MaxLen
    /\ Shrinking \/ CeilDiv(n, B) >= BlockCount(fs, f)
    /\ fs' = Put(Release(fs, GetBlocks(fs, f)), f, 0, Data(f, 0, n), n)
    /\ clean' = clean \cup {f}

\* cp: do_copy appends a file of the host, one buffer of BLOCK_SIZE at a time.
Buffer(s, f, len, n, k) ==
    LET done == (k - 1) * B IN Extend(s, f, Data(f, len + done, Least(B, n - done)))
Copied(s, f, n) ==
    LET len == s.fcb[f].length
        copied[k \in 0..CeilDiv(n, B)] ==
            IF k = 0 THEN s ELSE Buffer(copied[k - 1], f, len, n, k)
    IN copied[CeilDiv(n, B)]
Copy(f, n) ==
    /\ Running /\ Used(f) /\ Length(f) + n <= MaxLen
    /\ fs' = Copied(fs, f, n)
    /\ clean' = IF \E k \in 0..CeilDiv(n, B) - 1 : Damages(f, Length(f) + k * B, B)
                THEN clean \ {f} ELSE clean

\* rm of a file: its blocks are given back, and clear_file and two do_writes
\* make the root directory anew without its entry.  Index blocks are not freed.
Removed(s, f) == [Release(s, GetBlocks(s, f)) EXCEPT !.fcb[f].is_used = FALSE]
Cleared(s) == [Release(s, GetBlocks(s, Root)) EXCEPT !.fcb[Root].length = 0]
Delete(f) ==
    /\ Running /\ Used(f)
    /\ LET s == Removed(fs, f)
           inodes == Read(s, Root)
           n == Len(inodes) \div Entry
           hit == {i \in 1..n : inodes[i * Entry] = <<"dir", f, Entry>>}
           kept == IF hit = {} THEN inodes
                   ELSE LET i == CHOOSE i \in hit : \A j \in hit : i <= j
                        IN SubSeq(inodes, 1, (i - 1) * Entry)
                           \o SubSeq(inodes, i * Entry + 1, n * Entry)
           dot == Extend(Cleared(s), Root, SubSeq(inodes, 1, Entry))
       IN fs' = Extend(dot, Root, SubSeq(kept, Entry + 1, (n - 1) * Entry))
    /\ clean' = clean \ {f}

Next == \/ Create \/ CreateFails
        \/ \E f \in Files :
              \/ \E n \in Sizes : WriteAppend(f, n) \/ Truncate(f, n) \/ Copy(f, n)
              \/ \E at \in Positions, n \in Sizes : Override(f, at, n)
              \/ Delete(f)

Spec == Init /\ [][Next]_vars

-----------------------------------------------------------------------------
(* Properties                                                              *)

\* The types of the disk image, and what the counter of free blocks says.
TypeOK ==
    /\ fs.free \subseteq Blocks
    /\ fs.free_block_count \in 0..N
    /\ fs.status \in {"ok", "freed_twice", "wild_block"}
    /\ \A f \in {Root} \cup Files :
          /\ fs.fcb[f].length \in 0..MAX_FILE_SIZE
          /\ \A k \in 1..L0 + 2 : fs.fcb[f].mixed[k] \in 0..N
    /\ clean \subseteq {Root} \cup Files
    /\ Running => fs.free_block_count = Cardinality(fs.free)

\* Every use of a block by a file: as its k-th data block or as an index block.
Uses(s) ==
    UNION {LET n == BlockCount(s, f)
               bs == GetBlocks(s, f)
               mixed == s.fcb[f].mixed
           IN {<<f, "data", k, bs[k]>> : k \in 1..n}
              \cup (IF n > L0 THEN {<<f, "index", 1, mixed[L0 + 1]>>} ELSE {})
              \cup (IF n > L0 + B THEN {<<f, "index", 2, mixed[L0 + 2]>>} ELSE {})
              \cup {<<f, "leaf", i, NumberAt(s, mixed[L0 + 2], i)>> :
                        i \in 1..Leaves(n)}
           : f \in {g \in {Root} \cup Files : s.fcb[g].is_used}}

Lost(s) == Blocks \ (s.free \cup {u[4] : u \in Uses(s)})

\* No block serves two purposes: it is in one place of one file, or free, or
\* neither.  So writing one file never touches what another one reads.  And the
\* free blocks are as many as their counter says, as part of the types.
OwnedOnce ==
    /\ TypeOK
    /\ Running =>
        /\ \A u, v \in Uses(fs) : u[4] = v[4] => u = v
        /\ \A u \in Uses(fs) : u[4] \in Blocks \ fs.free

\* A file reads back as what was written to it, through its index and whatever
\* happened to other files, unless a write damaged it.
CleanFilesReadBack ==
    Running => \A f \in clean \ {Root} : Read(fs, f) = Data(f, 0, Length(f))

\* The root directory lists itself first and every existing file once.
DirectoryListsFiles ==
    Running /\ Root \in clean =>
        LET dir == Read(fs, Root)
            n == Len(dir) \div Entry
            at(i) == SubSeq(dir, (i - 1) * Entry + 1, i * Entry)
        IN /\ at(1) = DirEntry(Root)
           /\ n = 1 + Cardinality({f \in Files : Used(f)})
           /\ \A f \in Files : Used(f) => \E i \in 2..n : at(i) = DirEntry(f)

\* A block is lost only by creating a file, by deleting one (or rewriting a
\* directory) that has index blocks, and by overwriting what is not the tail.
OnlyTheseLose ==
    [][\/ fs'.status # "ok"
       \/ Lost(fs') \subseteq Lost(fs)
       \/ Create \/ CreateFails
       \/ \E f \in Files : /\ Delete(f)
                           /\ \E g \in {f, Root} : BlockCount(fs, g) > L0
       \/ \E f \in Files, at \in Positions, n \in Sizes :
             Override(f, at, n) /\ CeilDiv(at, B) < BlockCount(fs, f)]_vars

\* "-a" appends: what the file held stays, and what was written follows it.
AppendReadsBack ==
    [][\A f \in Files, n \in Sizes :
          WriteAppend(f, n) /\ fs'.status = "ok" =>
             Read(fs', f) = Read(fs, f) \o Data(f, Length(f), n)]_vars

\* A block is given back at most once.
NeverFreedTwice == fs.status # "freed_twice"
=============================================================================
