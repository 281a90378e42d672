------------------------------- MODULE OpenFiles -------------------------------
(***************************************************************************)
(* The commands of exp4 that go through the table of open files: open,     *)
(* close, read and write of file.c, over the files of FileBlocks.          *)
(*                                                                         *)
(* A slot of the table keeps p_WR, a position in its file.  open does not  *)
(* set it, read without a position starts from it, every read and write    *)
(* moves it, and cp, rm and touch change the file without looking at it.   *)
(* A file has at most one slot (OpenedOnce of Namespace), so the pointers  *)
(* are a function of the FCB; a slot outlives its file, and the next file  *)
(* with the same FCB finds it.                                             *)
(***************************************************************************)
EXTENDS FileBlocks

CONSTANTS
          ReadSizes,  \* bound: the amounts asked for by one read
          Garbage,    \* bound: what malloc may leave in p_WR
          MaxPointer  \* bound: p_WR drifts no further than this

ASSUME OpenFilesAssumption ==
    /\ ReadSizes \subseteq Nat \ {0} /\ MaxPointer \in Nat /\ MaxLen <= MaxPointer
    /\ Garbage \subseteq 0..MaxPointer

VARIABLES p_WR,     \* the pointer in the slot of each file, or Closed
          placed    \* auxiliary: slots whose pointer was set since they and
                    \* their file exist, and not moved away (see Write)
openVars == <<fs, clean, p_WR, placed>>

Closed == -1
IsOpen(f) == Used(f) /\ p_WR[f] # Closed

-----------------------------------------------------------------------------
(* _do_read                                                                *)

DoReadBlockTwice(s, f, len, at) ==   \* mutant: p_WR_index is not advanced
    LET blocks == GetBlocks(s, f)
        size  == Least(len, s.fcb[f].length - at)
        frag  == at % B
        index == at \div B
        part == IF frag = 0 THEN <<>>
                ELSE SubSeq(s.disk[blocks[index + 1]], frag + 1, frag + Least(size, B - frag))
        buf[i \in index..Len(blocks)] ==
            IF i = index THEN part
            ELSE buf[i - 1] \o SubSeq(s.disk[blocks[i]], 1, Least(size - Len(buf[i - 1]), B))
    IN buf[Len(blocks)]

\* Up to len units from position at on: the rest of the block at lies in, then
\* whole blocks while there is something left to read.
DoRead(s, f, len, at) ==
    LET blocks == GetBlocks(s, f)
        size  == Least(len, s.fcb[f].length - at)
        frag  == at % B
        index == at \div B
        part  == IF frag = 0 THEN <<>>
                 ELSE SubSeq(s.disk[blocks[index + 1]], frag + 1, frag + Least(size, B - frag))
        first == IF frag = 0 THEN index ELSE index + 1
        buf[i \in first..Len(blocks)] ==
            IF i = first THEN part
            ELSE buf[i - 1] \o SubSeq(s.disk[blocks[i]], 1, Least(size - Len(buf[i - 1]), B))
    IN buf[Len(blocks)]

-----------------------------------------------------------------------------
(* The commands                                                            *)

\* do_open: the slot comes from malloc and p_WR is not assigned.
Open(f) ==
    /\ Running /\ Used(f) /\ p_WR[f] = Closed
    /\ \E v \in Garbage : p_WR' = [p_WR EXCEPT ![f] = v]
    /\ UNCHANGED <<fs, clean, placed>>

\* A file that does not exist any more cannot be named, and is not closed.
Close(f) ==
    /\ Running /\ IsOpen(f)
    /\ p_WR' = [p_WR EXCEPT ![f] = Closed]
    /\ placed' = placed \ {f}
    /\ UNCHANGED <<fs, clean>>

\* read FILE n at, and read FILE n: from p_WR, or from 0 when that is the end.
ReadFrom(f, n, at) ==
    /\ Running /\ IsOpen(f) /\ at <= Length(f)
    /\ p_WR' = [p_WR EXCEPT ![f] = at + Len(DoRead(fs, f, n, at))]
    /\ placed' = placed \cup {f}
    /\ UNCHANGED <<fs, clean>>
Start(f) == IF p_WR[f] = Length(f) THEN 0 ELSE p_WR[f]
ReadOn(f, n) == ReadFrom(f, n, Start(f))

AppendPointerStays(f, n) ==          \* mutant: p_WR is moved by n from where it is
    /\ IsOpen(f) /\ WriteAppend(f, n)
    /\ p_WR' = [p_WR EXCEPT ![f] = @ + n]
    /\ placed' = placed \cup {f}
WriteA(f, n) ==
    /\ IsOpen(f) /\ WriteAppend(f, n)
    /\ p_WR' = [p_WR EXCEPT ![f] = Length(f) + n]
    /\ placed' = placed \cup {f}

WriteT(f, n) ==
    /\ IsOpen(f) /\ Truncate(f, n)
    /\ p_WR' = [p_WR EXCEPT ![f] = n]
    /\ placed' = placed \cup {f}

\* write -o moves p_WR by what is written from where it was, not from at.
WriteO(f, at, n) ==
    /\ IsOpen(f) /\ p_WR[f] + n <= MaxPointer /\ Override(f, at, n)
    /\ p_WR' = [p_WR EXCEPT ![f] = @ + n]
    /\ placed' = IF p_WR[f] <= at THEN placed ELSE placed \ {f}

\* The commands that take no notice of the table.
Rm(f) == Delete(f) /\ placed' = placed \ {f} /\ UNCHANGED p_WR
Unnoticed(A) == A /\ UNCHANGED <<p_WR, placed>>

OpenInit == Init /\ p_WR = [f \in Files |-> Closed] /\ placed = {}

OpenNext ==
    \/ Unnoticed(Create) \/ Unnoticed(CreateFails)
    \/ \E f \in Files :
          \/ Open(f) \/ Close(f) \/ Rm(f)
          \/ \E n \in ReadSizes : ReadOn(f, n) \/ \E at \in Positions : ReadFrom(f, n, at)
          \/ \E n \in Sizes : WriteA(f, n) \/ WriteT(f, n) \/ Unnoticed(Copy(f, n))
          \/ \E at \in Positions, n \in Sizes : WriteO(f, at, n)

OpenSpec == OpenInit /\ [][OpenNext]_openVars

-----------------------------------------------------------------------------
(* Properties                                                              *)

\* The types of the table.
TableTypeOK == /\ p_WR \in [Files -> {Closed} \cup 0..MaxPointer]
               /\ placed \subseteq Files

\* A read that starts anywhere inside a file and asks for any amount returns
\* what was written there, over every boundary of the blocks and of the index
\* levels (_do_read's fragment and loop).
ReadsFileData ==
    Running => \A f \in clean \ {Root}, n \in ReadSizes : \A at \in 0..Length(f) :
        DoRead(fs, f, n, at) = Data(f, at, Least(n, Length(f) - at))

\* Once a read, write -a or write -t has set the pointer it stays inside the
\* file, so a read without a position is not refused: only a slot that is new
\* or older than its file, or one that write -o has moved from behind the
\* place it wrote to, can point outside (my_read).
PlacedIsInside ==
    /\ TableTypeOK
    /\ Running => \A f \in placed : Used(f) /\ p_WR[f] \in 0..Length(f)
=============================================================================
