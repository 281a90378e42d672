-------------------------------- MODULE Backup --------------------------------
(***************************************************************************)
(* The backup of exp4: save, recover and start_sys of myfs.c, update_list  *)
(* of list.h, and exit as the only way to save.                            *)
(*                                                                         *)
(* The file system lives in memory that malloc puts at another address in  *)
(* every session.  It holds absolute addresses: its own start, the FCB     *)
(* array, and the links of the free list that is threaded through its free *)
(* blocks.  save writes it to the file as it is; recover reads it and adds *)
(* the difference of the two addresses to every pointer, walking the list  *)
(* while it moves it.                                                      *)
(*                                                                         *)
(* Addresses count blocks.  Block 0 is the super block with the list's     *)
(* head, block 1 the FCB array.  The program can be killed at any moment.  *)
(***************************************************************************)
EXTENDS Integers

CONSTANTS
          N,      \* the image has blocks 0..N
          Bases,  \* the addresses at which malloc may put it
          Data    \* what a block in use may hold, besides zero

ASSUME BackupAssumption ==
    /\ N \in Nat /\ N >= 2
    /\ Bases \subseteq Nat \ {0} /\ Data \subseteq Nat \ {0}

VARIABLES
          pc,     \* where the program is; "off" when it does not run
          base,   \* fs: where this session's image starts
          mem,    \* the image in memory
          delta,  \* recover's difference of the addresses
          pos,    \* update_list's cursor, an address
          bak     \* the backup: how much of it is written, and of what
vars == <<pc, base, mem, delta, pos, bak>>

Places == 0..N
Nodes == 2..N
Contents == [1..N -> Data \cup {0}]

-----------------------------------------------------------------------------
(* Images                                                                  *)

\* The neighbours of p in the sorted ring of the nodes S and the head, 0.
NextIn(S, p) == IF \E q \in S : q > p
                THEN CHOOSE q \in S : q > p /\ \A r \in S : r > p => q <= r
                ELSE 0
Before(S, p) == IF p = 0 THEN S ELSE {q \in S : q < p}
PrevIn(S, p) == IF Before(S, p) # {}
                THEN CHOOSE q \in Before(S, p) : \A r \in Before(S, p) : r <= q
                ELSE 0

\* The image at address b whose free extents start in S and whose other blocks
\* hold d.  That the list is a sorted ring between any two commands is what
\* FreeListProofs shows.
ImageOf(b, S, d) ==
    [start_pos |-> b,
     fcb_array |-> b + 1,
     next |-> [p \in Places |-> IF p \in S \cup {0} THEN b + NextIn(S, p) ELSE 0],
     prev |-> [p \in Places |-> IF p \in S \cup {0} THEN b + PrevIn(S, p) ELSE 0],
     data |-> [p \in 1..N |-> IF p \in S THEN 0 ELSE d[p]]]

Zeros == [p \in 1..N |-> 0]
LegalImages == [b \in Bases |-> {ImageOf(b, S, d) : S \in SUBSET Nodes, d \in Contents}]
Formatted(b) == ImageOf(b, {2}, Zeros)       \* one extent behind the FCB array

NoMemory == [start_pos |-> 0, fcb_array |-> 0, next |-> [p \in Places |-> 0],
             prev |-> [p \in Places |-> 0], data |-> Zeros]
Off == /\ pc' = "off" /\ base' = 0 /\ mem' = NoMemory /\ delta' = 0 /\ pos' = 0

-----------------------------------------------------------------------------
(* The file                                                                *)

NoFile == [size |-> -1, image |-> NoMemory]
Whole == N + 2           \* all blocks, and the FCB array a second time
Usable == bak.size > N   \* recover reads no further than the blocks

\* What fread puts into the new image: the blocks the file has.
Got(p) == p < bak.size
ReadIn == [start_pos |-> bak.image.start_pos,
           fcb_array |-> bak.image.fcb_array,
           next |-> [p \in Places |-> IF Got(p) THEN bak.image.next[p] ELSE 0],
           prev |-> [p \in Places |-> IF Got(p) THEN bak.image.prev[p] ELSE 0],
           data |-> [p \in 1..N |-> IF Got(p) THEN bak.image.data[p] ELSE 0]]

-----------------------------------------------------------------------------
(* start_sys                                                               *)

FormatAt(b) == base' = b /\ mem' = Formatted(b) /\ delta' = 0 /\ pos' = 0

\* The user asks for a new file system: format first, then remove the backup.
Recreate ==
    /\ pc = "off"
    /\ \E b \in Bases : FormatAt(b)
    /\ pc' = IF bak = NoFile THEN "running" ELSE "removing"
    /\ UNCHANGED bak

RemoveBackup ==
    /\ pc = "removing" /\ pc' = "running"
    /\ bak' = NoFile
    /\ UNCHANGED <<base, mem, delta, pos>>

\* The user wants the backup, and there is none.
NothingToRecover ==
    /\ pc = "off" /\ bak = NoFile /\ pc' = "running"
    /\ \E b \in Bases : FormatAt(b)
    /\ UNCHANGED bak

\* recover up to the loop.  A short read is reported and then ignored.
Recover ==
    /\ pc = "off" /\ bak.size > 0 /\ pc' = "relocating"
    /\ \E b \in Bases :
        LET d == b - ReadIn.start_pos
            head == ReadIn.next[0] + d
        IN /\ base' = b /\ delta' = d /\ pos' = head
           /\ mem' = [ReadIn EXCEPT !.start_pos = b, !.next[0] = head,
                                    !.prev[0] = @ + d]
    /\ UNCHANGED bak

\* Nothing was read: the links of the head, which are zero, come to point at
\* the first words of the super block.
RecoverNothing ==
    /\ pc = "off" /\ bak.size = 0 /\ pc' = "wild"
    /\ UNCHANGED <<base, mem, delta, pos, bak>>

-----------------------------------------------------------------------------
(* update_list                                                             *)

AtNode == pos - base \in 1..N /\ Got(pos - base)

RelocateTooLate ==                     \* mutant: goes on by the old address
    /\ pc = "relocating" /\ AtNode
    /\ LET p == pos - base
       IN /\ mem' = [mem EXCEPT !.next[p] = @ + delta, !.prev[p] = @ + delta]
          /\ pos' = mem.next[p]
    /\ UNCHANGED <<pc, base, delta, bak>>
\* One iteration: the node's links are moved, then the moved one is followed.
Relocate ==
    /\ pc = "relocating" /\ AtNode
    /\ LET p == pos - base
       IN /\ mem' = [mem EXCEPT !.next[p] = @ + delta, !.prev[p] = @ + delta]
          /\ pos' = mem.next[p] + delta
    /\ UNCHANGED <<pc, base, delta, bak>>

\* The list leads into a block that was not read.
GoWild ==
    /\ pc = "relocating" /\ pos # base /\ ~AtNode /\ pc' = "wild"
    /\ UNCHANGED <<base, mem, delta, pos, bak>>

FcbArrayStays ==                       \* mutant: fcb_array is not moved
    /\ pc = "relocating" /\ pos = base /\ pc' = "running"
    /\ delta' = 0 /\ pos' = 0
    /\ UNCHANGED <<base, mem, bak>>
\* The loop is back at the head; the FCB array is moved and the session begins.
Recovered ==
    /\ pc = "relocating" /\ pos = base /\ pc' = "running"
    /\ mem' = [mem EXCEPT !.fcb_array = @ + delta]
    /\ delta' = 0 /\ pos' = 0
    /\ UNCHANGED <<base, bak>>

-----------------------------------------------------------------------------
(* The session and its end                                                 *)

\* Commands: the list and the blocks change, the image stays where it is.
Work ==
    /\ pc = "running"
    /\ mem' \in LegalImages[base]
    /\ UNCHANGED <<pc, base, delta, pos, bak>>

SaveKeepsOld ==                        \* mutant: opened without truncation
    /\ pc = "running" /\ pc' = "saving"
    /\ bak' = [size |-> IF bak = NoFile THEN 0 ELSE bak.size, image |-> mem]
    /\ UNCHANGED <<base, mem, delta, pos>>
\* exit calls save, whose fopen empties the file.
SaveOpens ==
    /\ pc = "running" /\ pc' = "saving"
    /\ bak' = [size |-> 0, image |-> mem]
    /\ UNCHANGED <<base, mem, delta, pos>>

\* exit(1): the old backup stays and the session's work is gone.
SaveCannotOpen == pc = "running" /\ Off /\ UNCHANGED bak

SaveWrites ==
    /\ pc = "saving" /\ bak.size < Whole
    /\ bak' = [bak EXCEPT !.size = @ + 1]
    /\ UNCHANGED <<pc, base, mem, delta, pos>>

Exit == pc = "saving" /\ bak.size = Whole /\ Off /\ UNCHANGED bak

\* Killed, or exit(1) after an fwrite that fell short.
Stop == pc # "off" /\ Off /\ UNCHANGED bak

Init ==
    /\ pc = "off" /\ base = 0 /\ mem = NoMemory /\ delta = 0 /\ pos = 0
    /\ bak = NoFile

Loop == Relocate \/ GoWild \/ Recovered
Next == \/ Recreate \/ RemoveBackup \/ NothingToRecover
        \/ Recover \/ RecoverNothing \/ Loop
        \/ Work \/ SaveOpens \/ SaveCannotOpen \/ SaveWrites \/ Exit \/ Stop

\* The one thread that has begun to recover goes on with it.
Spec == Init /\ [][Next]_vars /\ WF_vars(Loop)

-----------------------------------------------------------------------------
(* Properties                                                              *)

TypeOK ==
    /\ pc \in {"off", "removing", "relocating", "wild", "running", "saving"}
    /\ base \in Bases \cup {0} /\ delta \in Int /\ pos \in Int
    /\ mem \in [start_pos : Int, fcb_array : Int, next : [Places -> Int],
                prev : [Places -> Int], data : Contents]
    /\ bak = NoFile \/ bak \in [size : 0..Whole,
           image : [start_pos : Int, fcb_array : Int, next : [Places -> Int],
                    prev : [Places -> Int], data : Contents]]

InSession == pc \in {"running", "removing", "saving"}

\* Every pointer a session uses points into the image of this session, and the
\* free list is one ring over some nodes: update_list has moved every link
\* once, and recover has moved what is no link (list.h 60, myfs.c 28 to 31).
PointersInside ==
    InSession => mem \in LegalImages[base]

\* What an image at address b says, whatever b is.
Meaning(i, b) ==
    [start |-> i.start_pos - b, fcbs |-> i.fcb_array - b,
     next |-> [p \in Places |-> IF i.next[p] = 0 THEN -1 ELSE i.next[p] - b],
     prev |-> [p \in Places |-> IF i.prev[p] = 0 THEN -1 ELSE i.prev[p] - b],
     data |-> i.data]
Images == UNION {{Meaning(i, b) : i \in LegalImages[b]} : b \in Bases}
AnyBase == CHOOSE b \in Bases : TRUE

\* Not an image, for the values of the store and the session that are none.
Mark(k) == [Meaning(NoMemory, 0) EXCEPT !.start = k]

Store == INSTANCE ImageStore WITH
    Images <- Images,
    Fresh <- Meaning(Formatted(AnyBase), AnyBase),
    Off <- Mark(1), None <- Mark(2), Torn <- Mark(3),
    session <- IF InSession THEN Meaning(mem, base) ELSE Mark(1),
    store <- IF bak = NoFile THEN Mark(2)
             ELSE IF Usable THEN Meaning(bak.image, bak.image.start_pos)
             ELSE Mark(3)

\* A session starts with what the last whole backup holds, whatever address it
\* gets and wherever earlier sessions or saves were killed; only a save in
\* progress and the wish for a new file system cost the backup (myfs.c).
ImplementsStore == Store!Spec

\* update_list comes to an end on a whole backup: it never follows a link it
\* has not moved, so the session begins unless the program is killed (list.h 64).
WholeBackupComesUp ==
    [](pc = "relocating" /\ Usable => <>(pc \in {"running", "off"}))

\* A torn backup is not noticed, but it takes a free block beyond its end to
\* crash the program: whoever goes wild read a file that ends before the last
\* block (myfs.c 21 only reports the short read).
WildOnlyWhenTorn == pc = "wild" => ~Usable
=============================================================================
