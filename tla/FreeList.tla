------------------------------- MODULE FreeList -------------------------------
(***************************************************************************)
(* The free-block list of exp4 (block.c over list.h).                      *)
(*                                                                         *)
(* Every extent of free blocks is described by a node stored in its own    *)
(* first block; the nodes form a circular doubly linked list whose head    *)
(* sits in block 0, the super block.  A node is named by its block number, *)
(* so 0 is &sb->free_block_list.list.  The head's own count and            *)
(* block_index are never assigned; they are 0, what the fresh 512 MB       *)
(* mapping of my_format holds.                                             *)
(*                                                                         *)
(* The loops of allocate_block and free_block are stepped one node at a    *)
(* time by pc and the cursor p: the program is single-threaded, so no      *)
(* other call starts before pc is "idle" again.                            *)
(***************************************************************************)
EXTENDS Integers, FiniteSets

CONSTANTS N,          \* sb->block_count: the blocks of the disk are 0..N-1
          FcbBlocks,  \* blocks that my_format reserves for the FCB array
          Sizes       \* the block counts callers ask for

ASSUME FreeListAssumption ==
    /\ N \in Nat /\ FcbBlocks \in Nat
    /\ FcbBlocks + 2 < N
    /\ Sizes \subseteq Nat \ {0}

VARIABLES
    next, prev,        \* struct list_head of the node in each block
    count,             \* free_block_list.count: blocks in the extent
    block_index,       \* free_block_list.block_index: its first block
    free_block_count,  \* sb->free_block_count
    pc,                \* "idle", or the loop being executed
    p,                 \* the loop cursor
    fb,                \* free_block: the block being freed
    want,              \* allocate_block: the requested block_count
    held,              \* auxiliary: blocks the callers hold
    linked             \* auxiliary: the nodes that are on the list

listVars == <<next, prev, count, block_index>>
vars == <<next, prev, count, block_index, free_block_count,
          pc, p, fb, want, held, linked>>

ListHead == 0
Blocks == 0..N-1
FirstData == 1 + FcbBlocks      \* the super block fills block 0
DataBlocks == FirstData..N-1

\* The blocks described by the extents on the list.
FreeSet == {b \in DataBlocks : \E x \in linked : x <= b /\ b < x + count[x]}

-----------------------------------------------------------------------------
(* list.h: __list_add(new, at, at->next) and list_del, on the arrays of    *)
(* next and prev pointers, each write in the order of the C statements.    *)

AddNext(nx, new, at) == [nx EXCEPT ![new] = nx[at], ![at] = new]
AddPrev(nx, pv, new, at) == [pv EXCEPT ![nx[at]] = new, ![new] = at]
DelNext(nx, pv, q) == [nx EXCEPT ![pv[q]] = nx[q]]
DelPrevForgotten(nx, pv, q) == pv                      \* mutant: one write missing
DelPrev(nx, pv, q) == [pv EXCEPT ![nx[q]] = pv[q]]

-----------------------------------------------------------------------------
\* my_format: one extent with everything behind the FCB array.
Init ==
    /\ next = [b \in Blocks |-> IF b = ListHead THEN FirstData ELSE ListHead]
    /\ prev = [b \in Blocks |-> IF b = ListHead THEN FirstData ELSE ListHead]
    /\ count = [b \in Blocks |-> IF b = FirstData THEN N - FirstData ELSE 0]
    /\ block_index = [b \in Blocks |-> IF b = FirstData THEN b ELSE 0]
    /\ free_block_count = N - FirstData
    /\ pc = "idle" /\ p = ListHead /\ fb = ListHead /\ want = 0
    /\ held = {} /\ linked = {FirstData}

-----------------------------------------------------------------------------
(* allocate_block(sb, n)                                                   *)

\* Mutant: no block is kept in reserve.
AllocateCallNoReserve(n) ==
    /\ pc = "idle" /\ free_block_count >= n
    /\ pc' = "find" /\ p' = next[ListHead] /\ want' = n
    /\ UNCHANGED <<listVars, free_block_count, fb, held, linked>>

\* Refused when no block would remain: ERR_NOT_ENOUGH_SPACE, no change.
AllocateCall(n) ==
    /\ pc = "idle"
    /\ free_block_count >= n + 1
    /\ pc' = "find" /\ p' = next[ListHead] /\ want' = n
    /\ UNCHANGED <<listVars, free_block_count, fb, held, linked>>

AllocateSkip ==
    /\ pc = "find" /\ p # ListHead /\ count[p] < want
    /\ p' = next[p]
    /\ UNCHANGED <<listVars, free_block_count, pc, fb, want, held, linked>>

Return == pc' = "idle" /\ p' = ListHead /\ fb' = ListHead /\ want' = 0

\* The extent is used up: it leaves the list.
AllocateExact ==
    /\ pc = "find" /\ p # ListHead /\ count[p] = want
    /\ next' = DelNext(next, prev, p)
    /\ prev' = DelPrev(next, prev, p)
    /\ linked' = linked \ {p}
    /\ held' = held \cup (block_index[p] .. block_index[p] + want - 1)
    /\ free_block_count' = free_block_count - want
    /\ Return
    /\ UNCHANGED <<count, block_index>>

\* The front of the extent is handed out: the node is copied to the first
\* block that stays free, linked behind the old one, and the old one unlinked.
AllocateSplit ==
    /\ pc = "find" /\ p # ListHead /\ count[p] > want
    /\ LET new == p + want
           nx  == AddNext(next, new, p)
           pv  == AddPrev(next, prev, new, p)
       IN /\ next' = DelNext(nx, pv, p)
          /\ prev' = DelPrev(nx, pv, p)
          /\ count' = [count EXCEPT ![p] = @ - want, ![new] = count[p] - want]
          /\ block_index' = [block_index EXCEPT
                                ![p] = @ + want, ![new] = block_index[p] + want]
          /\ linked' = (linked \ {p}) \cup {new}
    /\ held' = held \cup (block_index[p] .. block_index[p] + want - 1)
    /\ free_block_count' = free_block_count - want
    /\ Return

\* No extent is long enough: the call fails, yet the counter goes down.
AllocateMiss ==
    /\ pc = "find" /\ p = ListHead
    /\ free_block_count' = free_block_count - want
    /\ Return
    /\ UNCHANGED <<listVars, held, linked>>

-----------------------------------------------------------------------------
(* free_block(sb, b, 1): every call in file.c frees one block              *)

\* Mutant: the count of the block's last extent is left in place.
FreeCallStaleCount(b) ==
    /\ pc = "idle"
    /\ block_index' = [block_index EXCEPT ![b] = b]
    /\ pc' = "scan" /\ p' = next[ListHead] /\ fb' = b
    /\ UNCHANGED <<next, prev, count, free_block_count, want, held, linked>>

FreeCall(b) ==
    /\ pc = "idle"
    /\ count' = [count EXCEPT ![b] = 1]
    /\ block_index' = [block_index EXCEPT ![b] = b]
    /\ pc' = "scan" /\ p' = next[ListHead] /\ fb' = b
    /\ UNCHANGED <<next, prev, free_block_count, want, held, linked>>

FreeSkip ==
    /\ pc = "scan" /\ p # ListHead /\ block_index[p] <= block_index[fb]
    /\ p' = next[p]
    /\ UNCHANGED <<listVars, free_block_count, pc, fb, want, held, linked>>

\* Linked in front of the first extent that starts behind it.
FreeInsert ==
    /\ pc = "scan" /\ p # ListHead /\ block_index[p] > block_index[fb]
    /\ next' = AddNext(next, fb, prev[p])
    /\ prev' = AddPrev(next, prev, fb, prev[p])
    /\ linked' = linked \cup {fb}
    /\ held' = held \ {fb}
    /\ pc' = "merge" /\ p' = next'[ListHead]
    /\ UNCHANGED <<count, block_index, free_block_count, fb, want>>

\* No extent starts behind it: the loop falls through and nothing is linked.
FreeLost ==
    /\ pc = "scan" /\ p = ListHead
    /\ held' = held \ {fb}
    /\ pc' = "merge" /\ p' = next[ListHead]
    /\ UNCHANGED <<listVars, free_block_count, fb, want, linked>>

\* Mutant: the end of an extent taken for its last block.
AdjacentOffByOne(x, y) == block_index[x] + count[x] - 1 = block_index[y]
Adjacent(x, y) == block_index[x] + count[x] = block_index[y]

\* merge_block(p, p->next), then on to the node that now follows p.
MergeNext ==
    /\ pc = "merge" /\ p # ListHead /\ Adjacent(p, next[p])
    /\ count' = [count EXCEPT ![p] = @ + count[next[p]]]
    /\ next' = DelNext(next, prev, next[p])
    /\ prev' = DelPrev(next, prev, next[p])
    /\ linked' = linked \ {next[p]}
    /\ p' = next'[p]
    /\ UNCHANGED <<block_index, free_block_count, pc, fb, want, held>>

MergeSkipStays ==                            \* mutant: the cursor stays
    /\ pc = "merge" /\ p # ListHead /\ ~Adjacent(p, next[p])
    /\ UNCHANGED vars
MergeSkip ==
    /\ pc = "merge" /\ p # ListHead /\ ~Adjacent(p, next[p])
    /\ p' = next[p]
    /\ UNCHANGED <<listVars, free_block_count, pc, fb, want, held, linked>>

FreeReturnUncounted ==                       \* mutant: nothing is counted
    /\ pc = "merge" /\ p = ListHead
    /\ Return
    /\ UNCHANGED <<free_block_count, listVars, held, linked>>
FreeReturn ==
    /\ pc = "merge" /\ p = ListHead
    /\ free_block_count' = free_block_count + 1
    /\ Return
    /\ UNCHANGED <<listVars, held, linked>>

-----------------------------------------------------------------------------
\* The loop steps of the call in progress.
Step == \/ AllocateSkip \/ AllocateExact \/ AllocateSplit \/ AllocateMiss
        \/ FreeSkip \/ FreeInsert \/ FreeLost
        \/ MergeNext \/ MergeSkip \/ FreeReturn

\* The callers: any request size, and only blocks they hold are given back.
Next == \/ \E n \in Sizes : AllocateCall(n)
        \/ \E b \in held : FreeCall(b)
        \/ Step

\* The program runs a call it has started; nobody is forced to make a call.
Spec == Init /\ [][Next]_vars /\ WF_vars(Step)
-----------------------------------------------------------------------------
(* Properties                                                              *)

Ring == linked \cup {ListHead}

\* Type correctness of block.c's state.
TypeOK ==
    /\ next \in [Blocks -> Blocks] /\ prev \in [Blocks -> Blocks]
    /\ count \in [Blocks -> 0..N] /\ block_index \in [Blocks -> Blocks]
    /\ free_block_count \in 0..N
    /\ pc \in {"idle", "find", "scan", "merge"}
    /\ p \in Ring /\ fb \in Blocks /\ want \in Sizes \cup {0}
    /\ held \subseteq DataBlocks /\ linked \subseteq DataBlocks

\* The nodes ns form one ring through the head: next and prev undo each other,
\* the nodes ascend, and next skips no node.
IsSortedRing(nx, pv, ns) ==
    \A x \in ns \cup {ListHead} :
        /\ nx[x] \in ns \cup {ListHead} /\ pv[nx[x]] = x
        /\ pv[x] \in ns \cup {ListHead} /\ nx[pv[x]] = x
        /\ nx[x] # ListHead => x < nx[x]
        /\ \A z \in ns : x < z => nx[x] # ListHead /\ nx[x] <= z

\* After every list_add and list_del of block.c, in the middle of its loops too,
\* a walk from the head meets every node once, in ascending order.
SortedRing == IsSortedRing(next, prev, linked)

\* Every extent starts at its own node and ends before the next one begins:
\* splitting, inserting and merging never describe a block twice.
DisjointExtents ==
    \A x \in linked :
        /\ block_index[x] = x /\ count[x] > 0 /\ x + count[x] <= N
        /\ next[x] # ListHead => x + count[x] <= next[x]

\* No block is free and held at the same time: block.c never hands out a
\* block that a file still uses.
NeverFreeAndHeld == held \cap FreeSet = {}

\* No block leaks: what is not held is on the list.
NoBlockLost == DataBlocks \subseteq held \cup FreeSet

\* Between calls sb->free_block_count is the number of blocks on the list.
CountExact == pc = "idle" => free_block_count = Cardinality(FreeSet)

\* A walk of allocate_block or free_block stops at a node, it never runs
\* into the head: neither list_for_each_entry of block.c falls through.
WalkFindsANode == pc \in {"find", "scan"} => p # ListHead

\* The pairs of extents that touch without having been merged, each named
\* by its second extent.
Seams == {y \in linked : \E x \in linked : x + count[x] = y}

\* The merge pass moves on after one merge, so it may leave touching
\* extents; but no sequence of calls ever leaves more than one such pair.
AtMostOneSeam == pc = "idle" => Cardinality(Seams) <= 1

\* Every call of allocate_block and free_block returns.
EveryCallReturns == pc # "idle" ~> pc = "idle"

\* With requests of one block, all that file.c ever asks for, the list
\* implements the pool: lowest block first, and one kept in reserve.
Pool == INSTANCE BlockPool WITH free <- FreeSet
ImplementsPool == Pool!PoolSpec
=============================================================================
