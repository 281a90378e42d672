------------------------------ MODULE BlockPool ------------------------------
(***************************************************************************)
(* What block.c promises its callers in file.c: a pool of disk blocks.     *)
(* A block is either free or held by exactly one caller.  Allocation hands *)
(* out the lowest-numbered free block and keeps one block in reserve; a    *)
(* block given back is free again.  FreeList implements this promise with  *)
(* a doubly linked list of extents threaded through the free blocks.       *)
(***************************************************************************)
EXTENDS Naturals

CONSTANT DataBlocks   \* the numbers of the blocks that allocate_block may hand out

VARIABLES free,   \* the blocks nobody holds
          held    \* the blocks some caller holds

poolVars == <<free, held>>

PoolInit == free = DataBlocks /\ held = {}

\* The lowest free block changes hands, unless it is the only one left.
TakeLowest(b) ==
    /\ b \in free
    /\ \A c \in free : b <= c
    /\ free # {b}
    /\ free' = free \ {b}
    /\ held' = held \cup {b}

GiveBack(b) ==
    /\ b \in held
    /\ free' = free \cup {b}
    /\ held' = held \ {b}

PoolNext == \E b \in DataBlocks : TakeLowest(b) \/ GiveBack(b)

PoolSpec == PoolInit /\ [][PoolNext]_poolVars
=============================================================================
