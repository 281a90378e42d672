------------------------------ MODULE Namespace -------------------------------
(***************************************************************************)
(* The names of exp4: the directory tree, the resolution of paths, the     *)
(* current directory and the table of open files, as the shell's commands  *)
(* mkdir, touch, rm, cd, open and close use and change them.               *)
(*                                                                         *)
(* What a directory file holds is the sequence of its entries; FileBlocks  *)
(* says how the blocks below keep it.  The disk has room here, and no      *)
(* directory has more entries than a block takes without damage.           *)
(***************************************************************************)
EXTENDS Integers, FiniteSets, Sequences, SequencesExt

CONSTANTS
          Names,      \* the names given to files and directories
          LastInode,  \* INODE_MAX_COUNT - 1
          MaxOpen,    \* MAX_OPEN_FILE
          MaxArg,     \* bound: components in a path that is typed
          MaxPath     \* bound: components in a full path, for _MAX_PATH

ASSUME NamespaceAssumption ==
    /\ LastInode \in Nat /\ MaxOpen \in Nat \ {0}
    /\ MaxArg \in Nat /\ MaxPath \in Nat
    /\ Names \cap {".", "..", "/"} = {}

VARIABLES
          fcb,       \* sb->fcb_array, with the entries of directories
          open,      \* open_file_list
          cwd,       \* current_dir
          cwdName,   \* current_dir_name
          astray     \* a file was created in a directory that had been removed
vars == <<fcb, open, cwd, cwdName, astray>>

Root == 0
Inodes == 0..LastInode
NoFile == -1                          \* the NULL of findFcb
Closed == [fcb |-> NoFile, path |-> <<>>]   \* an empty slot of the table
Entry(name, i) == [name |-> name, inode |-> i]
Unused == [is_used |-> FALSE, dir |-> FALSE, name |-> "/", entries |-> <<>>]

-----------------------------------------------------------------------------
(* Paths: a full path is the sequence of its components                    *)

\* What can be typed: from the root or from the current directory.  No part at
\* all is "/" or ".".  A single dot and an empty component change nothing and are
\* left out: "/." and "//" do what "/.." does.
Args == [absolute : BOOLEAN, parts : UNION {[1..n -> Names \cup {".."}] : n \in 0..MaxArg}]
Slash == [absolute |-> TRUE, parts |-> <<>>]

Onward(path, part) == IF part # ".." THEN Append(path, part)
                      ELSE IF path = <<>> THEN path ELSE Front(path)
GetFullPath(arg) ==
    LET full[n \in 0..Len(arg.parts)] ==
            IF n > 0 THEN Onward(full[n - 1], arg.parts[n])
            ELSE IF arg.absolute THEN <<>> ELSE cwdName
    IN full[Len(arg.parts)]

\* Where a loop over an array stops: the first of some places, or 0.
First(places) == IF places = {} THEN 0 ELSE Min(places)

\* The first entry of a directory with this name, and 0 if it has none.
Lookup(files, i, name) ==
    First({k \in DOMAIN files[i].entries : files[i].entries[k].name = name})

\* The walk findFcb and findParentFcb make: a component that is not found is
\* passed over.  "last" is the name compared last, "/" while none has been, and
\* "parent" is where "at" was found.
Down(files, w, part) ==
    LET entries == files[w.at].entries
        k == Lookup(files, w.at, part)
    IN IF k > 0 THEN [at |-> entries[k].inode, last |-> part, parent |-> w.at]
       ELSE IF entries = <<>> THEN w
       ELSE [w EXCEPT !.last = entries[Len(entries)].name]
Walk(files, path) ==
    LET walk[n \in 0..Len(path)] ==
            IF n > 0 THEN Down(files, walk[n - 1], path[n])
            ELSE [at |-> Root, last |-> "/", parent |-> Root]
    IN walk[Len(path)]

\* Only the last component must be the one compared last.
FindFcb(files, path) ==
    LET w == Walk(files, path)
    IN IF path = <<>> \/ w.last = Last(path) THEN w.at ELSE NoFile

FindParentCwd(files, path) ==    \* mutant: the parent is the current directory
    IF FindFcb(files, path) = NoFile THEN NoFile ELSE cwd
FindParentFcb(files, path) ==
    IF FindFcb(files, path) = NoFile THEN NoFile ELSE Walk(files, path).parent

-----------------------------------------------------------------------------
(* The table of open files                                                 *)

IsPathOpen(files, table, path) ==     \* mutant: paths compared, not FCBs
    First({k \in DOMAIN table : table[k] # Closed /\ table[k].path = path})

\* is_file_open: the first slot of the file, or 0.
IsFileOpen(files, table, path) ==
    First({k \in DOMAIN table : table[k] # Closed /\ table[k].fcb = FindFcb(files, path)})

\* do_open: the first empty slot; when there is none only a message is printed.
DoOpen(table, path) ==
    LET k == First({j \in DOMAIN table : table[j] = Closed})
    IN IF k = 0 THEN table
       ELSE [table EXCEPT ![k] = [fcb |-> FindFcb(fcb, path), path |-> path]]

\* Mutant: the current directory is not looked at.
DoCloseAnyway(table, path, dirName) ==
    LET k == IsFileOpen(fcb, table, path)
    IN IF FindFcb(fcb, path) = NoFile \/ k = 0 THEN table
       ELSE [table EXCEPT ![k] = Closed]

\* do_close, while dirName is current_dir_name.
DoClose(table, path, dirName) ==
    LET k == IsFileOpen(fcb, table, path)
    IN IF FindFcb(fcb, path) = NoFile \/ k = 0 THEN table
       ELSE IF table[k].path = dirName THEN table
       ELSE [table EXCEPT ![k] = Closed]

-----------------------------------------------------------------------------
(* The commands                                                            *)

\* Nothing works any more once the root directory is gone or a free block, which
\* holds the list of free blocks, was written to.
Running == fcb[Root].is_used /\ ~astray

\* apply_inode and do_create_file, in the current directory as long as it exists.
CanCreate(i) ==
    /\ Running /\ fcb[cwd].is_used
    /\ ~fcb[i].is_used /\ \A j \in Inodes : j < i => fcb[j].is_used
Created(name, i, dir, entries) ==
    [fcb EXCEPT ![i] = [is_used |-> TRUE, dir |-> dir, name |-> name,
                        entries |-> entries],
                ![cwd].entries = Append(@, Entry(name, i))]

\* The duplicate check asks the FCBs of the entries for their names.
Duplicate(name) ==
    \E k \in DOMAIN fcb[cwd].entries : fcb[fcb[cwd].entries[k].inode].name = name

Mkdir(name) ==
    /\ ~Duplicate(name)
    /\ \E i \in Inodes :
        /\ CanCreate(i)
        /\ fcb' = Created(name, i, TRUE,
                          <<Entry(".", i), Entry("..", fcb[cwd].entries[1].inode)>>)
    /\ UNCHANGED <<open, cwd, cwdName, astray>>

Touch(name) ==
    /\ \E i \in Inodes : CanCreate(i) /\ fcb' = Created(name, i, FALSE, <<>>)
    /\ UNCHANGED <<open, cwd, cwdName, astray>>

\* mkdir and touch once the current directory has been removed: an inode and a block
\* are free then, and the entry is written through an FCB whose blocks are free, or
\* which the new file gets.  The model ends with that.
CreateAstray ==
    /\ Running /\ ~fcb[cwd].is_used /\ astray' = TRUE
    /\ UNCHANGED <<fcb, open, cwd, cwdName>>

NotEmptyOffByOne(i) == Len(fcb[i].entries) > 3         \* mutant
NotEmpty(i) == Len(fcb[i].entries) > 2

\* delete_file: strcpy, meant for strcmp, names every directory "/".  Only the
\* path that is spelled "/" has no parent (block.c:223); others lead to the root
\* too.  Deleting the root is where the model ends.
Rm(arg) ==
    LET path == GetFullPath(arg)
        i == FindFcb(fcb, path)
        parent == FindParentFcb(fcb, path)
        named == IF fcb[i].dir THEN [fcb EXCEPT ![i].name = "/"] ELSE fcb
        listed == fcb[parent].entries
    IN /\ Running /\ i # NoFile /\ arg # Slash
       /\ fcb' = IF fcb[i].dir /\ NotEmpty(i) THEN named
                 ELSE IF i = Root THEN [named EXCEPT ![i].is_used = FALSE]
                 ELSE [named EXCEPT ![i] = Unused,
                                    ![parent].entries =
                                        RemoveAt(@, First({k \in DOMAIN listed :
                                                              listed[k].inode = i}))]
       /\ UNCHANGED <<open, cwd, cwdName, astray>>

\* cd: opens the directory unless it is open, goes there, closes the old one.
Cd(arg) ==
    LET path == GetFullPath(arg)
        i == FindFcb(fcb, path)
        table == IF IsFileOpen(fcb, open, path) > 0 THEN open ELSE DoOpen(open, path)
    IN /\ Running /\ Len(path) <= MaxPath /\ path # cwdName
       /\ i # NoFile /\ fcb[i].dir
       /\ cwd' = i /\ cwdName' = path
       /\ open' = DoClose(table, cwdName, path)
       /\ UNCHANGED <<fcb, astray>>

Open(arg) ==
    LET path == GetFullPath(arg)
    IN /\ Running /\ Len(path) <= MaxPath
       /\ FindFcb(fcb, path) # NoFile /\ IsFileOpen(fcb, open, path) = 0
       /\ open' = DoOpen(open, path)
       /\ UNCHANGED <<fcb, cwd, cwdName, astray>>

Close(arg) ==
    /\ Running
    /\ open' = DoClose(open, GetFullPath(arg), cwdName)
    /\ UNCHANGED <<fcb, cwd, cwdName, astray>>

\* close -a: from the first slot to the first empty one.
CloseSlot(acc, k) ==
    IF acc.ended \/ acc.table[k] = Closed THEN [acc EXCEPT !.ended = TRUE]
    ELSE IF acc.table[k].path = cwdName THEN acc
    ELSE [acc EXCEPT !.table = DoClose(acc.table, acc.table[k].path, cwdName)]
CloseAll ==
    LET after[k \in 0..MaxOpen] ==
            IF k > 0 THEN CloseSlot(after[k - 1], k)
            ELSE [table |-> open, ended |-> FALSE]
    IN /\ Running /\ open' = after[MaxOpen].table
       /\ UNCHANGED <<fcb, cwd, cwdName, astray>>

-----------------------------------------------------------------------------
\* The root directory alone, open and current, as my_format leaves them once
\* the directories it makes are removed.
Init ==
    /\ fcb = [i \in Inodes |->
                IF i = Root THEN [is_used |-> TRUE, dir |-> TRUE, name |-> "/",
                                  entries |-> <<Entry(".", Root)>>]
                ELSE Unused]
    /\ open = [k \in 1..MaxOpen |-> IF k = 1 THEN [fcb |-> Root, path |-> <<>>]
                                    ELSE Closed]
    /\ cwd = Root /\ cwdName = <<>> /\ astray = FALSE

Next == \/ \E name \in Names : Mkdir(name) \/ Touch(name)
        \/ \E arg \in Args : Rm(arg) \/ Cd(arg) \/ Open(arg) \/ Close(arg)
        \/ CloseAll \/ CreateAstray

Spec == Init /\ [][Next]_vars

-----------------------------------------------------------------------------
(* Properties                                                              *)

\* The types of the state.
TypeOK ==
    /\ \A i \in Inodes :
          /\ fcb[i].is_used \in BOOLEAN /\ fcb[i].dir \in BOOLEAN
          /\ fcb[i].name \in Names \cup {"/"}
          /\ \A k \in DOMAIN fcb[i].entries :
                /\ fcb[i].entries[k].name \in Names \cup {".", ".."}
                /\ fcb[i].entries[k].inode \in Inodes
    /\ DOMAIN open = 1..MaxOpen
    /\ \A k \in 1..MaxOpen : open[k].fcb \in Inodes \cup {NoFile}
    /\ cwd \in Inodes
    /\ \A k \in DOMAIN cwdName : cwdName[k] \in Names
    /\ astray \in BOOLEAN

\* Where an inode is entered under a name, dots left aside.
Places(i) == {p \in UNION {{d} \X DOMAIN fcb[d].entries : d \in Inodes} :
                 fcb[p[1]].entries[p[2]] \in [name : Names, inode : {i}]}

\* The directories form a tree: each file and directory in use is entered in
\* exactly one place, one that is not in use nowhere, and a directory's ".."
\* is the directory that it is entered in, until the model ends.  The types go
\* with it.
TreeIsSound ==
    /\ TypeOK
    /\ Running =>
        \A i \in Inodes \ {Root} :
           /\ Cardinality(Places(i)) = IF fcb[i].is_used THEN 1 ELSE 0
           /\ fcb[i].is_used /\ fcb[i].dir =>
                 /\ fcb[i].entries[1] = Entry(".", i)
                 /\ \E p \in Places(i) : fcb[i].entries[2] = Entry("..", p[1])

\* No file is open twice, however it was opened, removed, made anew under the
\* same inode, entered with cd or left.
OpenedOnce ==
    \A j, k \in 1..MaxOpen : open[j] # Closed /\ open[j].fcb = open[k].fcb => j = k

\* The path in the prompt leads to the current directory as long as that exists.
PromptIsTrue ==
    Running /\ fcb[cwd].is_used => FindFcb(fcb, cwdName) = cwd

\* findFcb returns NULL for what is not there (block.c:163): a path it resolves
\* exists, component by component.
Exists(path) ==
    \A n \in DOMAIN path :
        Lookup(fcb, Walk(fcb, SubSeq(path, 1, n - 1)).at, path[n]) > 0
FindsOnlyWhatExists ==
    Running => \A arg \in Args :
        LET path == GetFullPath(arg)
        IN FindFcb(fcb, path) # NoFile => Exists(path)

CwdIsOpen == \E k \in 1..MaxOpen : open[k].fcb = cwd

\* The current directory stays in the table of open files (file.c:328 and 1202),
\* except that cd enters a directory although the table was full, that cd out of a
\* directory that has been removed closes the new one (another one has its path),
\* that cd to the same directory under another path closes it, and that close does
\* so when it was opened under another path than the prompt's.
CwdClosesOnlySo ==
    [][CwdIsOpen /\ ~CwdIsOpen' =>
          \/ cwd' # cwd /\ ((\A k \in 1..MaxOpen : open[k] # Closed) \/ ~fcb[cwd].is_used)
          \/ cwd' = cwd /\ cwdName' # cwdName
          \/ cwd' = cwd /\ \E k \in 1..MaxOpen : /\ open[k].fcb = cwd
                                                 /\ open[k].path # cwdName]_vars

\* Not to delete the root directory is not what rm keeps to (file.c:1038); but
\* whichever rm deletes it was given a path whose dots take back every name in it,
\* never one that findFcb lets end at the root because it passes over what is
\* missing; and the root has no two entries besides its dot.
RootGoesOnlySo ==
    [][fcb[Root].is_used /\ ~fcb'[Root].is_used =>
          /\ \E arg \in Args : Rm(arg)
          /\ \A arg \in Args : Rm(arg) => GetFullPath(arg) = <<>>
          /\ ~\E p, q \in UNION {Places(i) : i \in Inodes} :
                p # q /\ p[1] = Root /\ q[1] = Root]_vars
=============================================================================
