------------------------------- MODULE CopyFile -------------------------------
(***************************************************************************)
(* The two programs of exp2 and exp3 that copy a file: copy.c, a command   *)
(* of myshell, and copyfile.c, a kernel module that copies when it is      *)
(* loaded.  A file is a sequence of units; the functions say what the      *)
(* loops leave in the destination.                                         *)
(***************************************************************************)
EXTENDS Integers, Sequences

CONSTANT Chunk   \* sizeof temp in copy.c, sizeof buf in copyfile.c, in units

ASSUME CopyFileAssumption == Chunk \in Nat \ {0}

Stale == "stale"         \* what temp holds before anything is read into it
NoFile == <<"no_file">>

\* The k-th piece of a file that fread and kernel_read return.
Smaller(a, b) == IF a < b THEN a ELSE b
Piece(data, k) == SubSeq(data, (k - 1) * Chunk + 1, Smaller(k * Chunk, Len(data)))
Pieces(data) == (Len(data) + Chunk - 1) \div Chunk

\* copy.c's loop: a short piece overwrites the start of temp only, and temp is
\* written as a whole.
CopiedByPiece(data) ==                 \* mutant: fwrite of what fread returned
    LET loop[k \in 0..Pieces(data)] ==
            IF k = 0 THEN <<>> ELSE loop[k - 1] \o Piece(data, k)
    IN loop[Pieces(data)]
Copied(data) ==
    LET Into(temp, piece) == [i \in 1..Chunk |->
                                 IF i <= Len(piece) THEN piece[i] ELSE temp[i]]
        loop[k \in 0..Pieces(data)] ==
            IF k = 0 THEN [temp |-> [i \in 1..Chunk |-> Stale], out |-> <<>>]
            ELSE LET temp == Into(loop[k - 1].temp, Piece(data, k))
                 IN [temp |-> temp, out |-> loop[k - 1].out \o temp]
    IN loop[Pieces(data)].out

\* main of copy.c: the destination is opened, and so emptied, before anything is
\* read.  Without a source the program then crashes in fclose.
Copy(files, from, to) ==
    LET opened == [files EXCEPT ![to] = <<>>]
    IN IF files[from] = NoFile THEN opened
       ELSE [opened EXCEPT ![to] = Copied(opened[from])]

\* A signal may end copy before it has emptied the destination, and after any part
\* of what it writes has left stdio's buffer.  A crash is one: in fwrite or fclose,
\* for a destination that cannot be opened, and then nothing has been done.
CopyCutShort(files, from, to) ==
    LET opened == [files EXCEPT ![to] = <<>>]
        out == IF files[from] = NoFile THEN <<>> ELSE Copied(opened[from])
    IN {files} \cup {[opened EXCEPT ![to] = SubSeq(out, 1, n)] : n \in 0..Len(out)}

\* copy_file_init: what stands in the destination after kernel_write has taken
\* only so many units of each piece, which nobody looks at.
Overwrite(old, pos, data) ==
    [i \in 1..(IF pos + Len(data) > Len(old) THEN pos + Len(data) ELSE Len(old)) |->
        IF i > pos /\ i <= pos + Len(data) THEN data[i - pos] ELSE old[i]]
KernelCopies(data, old) ==
    LET loop[k \in 0..Pieces(data)] ==
            IF k = 0 THEN {[out |-> old, pos |-> 0]}
            ELSE UNION {{[out |-> Overwrite(w.out, w.pos, SubSeq(Piece(data, k), 1, taken)),
                          pos |-> w.pos + taken] : taken \in 0..Len(Piece(data, k))}
                        : w \in loop[k - 1]}
    IN {w.out : w \in loop[Pieces(data)]}

\* The module is not loaded without a source, or if the destination cannot be
\* opened; that is made if there is none, and is not emptied.  A signal changes
\* nothing that could not be so without it: the kernel takes no more from then on.
Insmod(files, from, to) ==
    IF files[from] = NoFile THEN {files}
    ELSE {files} \cup
         {[files EXCEPT ![to] = out] :
             out \in KernelCopies(files[from], IF files[to] = NoFile THEN <<>> ELSE files[to])}
=============================================================================
