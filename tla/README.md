# OSPratice: TLA+ models and proofs

OSPratice is a set of operating-systems exercises in C. The largest, `exp4`, is
a file system that lives in 512 MB of memory and is driven by a small shell; the
others are short programs about processes, IPC and kernel modules. This directory
models the parts that have state worth reasoning about, checks the models with TLC
and proves the central ones with TLAPS.

`PROJECT.json` records, for every definition, the lines of C it stands for; for
every run, what it checks; for every property, a mutation of the model that breaks
it; and the findings, hazards and theorems.

## 1. Inventory

### exp4: the file system

One process, one thread, no persistence except a backup file written on `exit`.
All pointers lie in one `malloc`ed image, whose address changes from session to session.

| Component | State | Operations | Used by |
|---|---|---|---|
| free-block list (`block.c`, `list.h`) | doubly linked list of extents, threaded through the free blocks; `free_block_count` | `allocate_block`, `free_block`, `merge_block` | all file operations |
| files (`file.c`) | `fcb_array`: length, type and a mixed index of 10 direct blocks, one index block, one block of index blocks | `do_create_file`, `do_write`, `_do_write` (append, truncate, override), `save_blocks`, `get_blocks`, `do_read`, `delete_file`, `clear_file`, `do_copy`; through an open file's pointer `p_WR`, `my_read`, `_do_read`, `my_write` | commands |
| names and open files (`block.c`, `file.c`) | directory entries, `open_file_list`, `current_dir`, `current_dir_name` | `getFullPath`, `findFcb`, `findParentFcb`, `do_open`, `do_close`, `is_file_open`, commands `mkdir touch rm cd open close` | commands |
| backup (`myfs.c`) | the file `disk.bak` | `save`, `recover`, `start_sys`, `my_format` | `exit`, start |
| command loop (`myfs.c`, `types.c`) | the input line | `getLine`, `getArgs`, `execute` | the user |

What makes each correct:

- *free-block list*: the list stays one sorted ring of disjoint extents; no block is
  free and in use; none is lost; the counter is exact; every loop ends.
- *files*: no block has two uses; a file reads back as written through all three
  index levels, from any position; blocks come back when a file goes; the pointer of an
  open file stays inside it.
- *names*: directories form a tree; resolution finds what exists and nothing else;
  no file is open twice; the prompt names the current directory.
- *backup*: a session starts with what the last whole backup holds, and every pointer
  of it points into the new image.

Hard here: no concurrency, but long histories. A wrong pointer or a lost block
shows many commands later; lengths at a multiple of the block size; disks, tables
and inode arrays that are full; errors found out half-way through an operation.

### exp3: processes and IPC

| Program | Processes | Shared state | Hard |
|---|---|---|---|
| `IPC_MessageQueue` | two sender threads, a receiver thread | System V queue, semaphore `queue_sem`, standard input | start order, full queue, in-band end messages, kernel objects that survive the run |
| `IPC_PIPE` | parent, three children | a pipe and its `O_NONBLOCK` flag, three named semaphores | who runs first, sleeping as synchronisation, stale semaphores |
| `IPC_SharedMemery` | parent, child | shared segment, two semaphores | failure of one side, a child that outlives the program |
| `myshell` with `copy`, `A+B` | shell, one child at a time | files, the terminal, the offset of standard input | growth of the token array, children that stop or cannot execute, rounding of the copied length |

### exp1, exp2: kernel modules

`exp1_1` and `exp1_2` print lists of tasks; `exp2` copies a file when loaded. They
keep no state of their own; a file that was copied into is what `exp2` leaves.

## 2. Modules

| Module | Models |
|---|---|
| `BlockPool` | what `block.c` promises: a set of free blocks, lowest first, one kept in reserve |
| `FreeList` | `block.c` over `list.h`, one loop iteration per step |
| `FreeListProofs` | theorems about `FreeList` |
| `FileBlocks` | `file.c` over the pool: writing, index blocks, creation, deletion, copying |
| `FileBlocksProofs` | theorems about `FileBlocks` |
| `OpenFiles` | the table of open files over `FileBlocks`: `open`, `close`, `read`, `write` and the pointer `p_WR` |
| `OpenFilesProofs` | theorems about `OpenFiles`, and so about `FileBlocks` in it |
| `Namespace` | paths, directories, current directory, table of open files |
| `NamespaceProofs` | theorems about `Namespace` |
| `ImageStore` | what the backup promises: a store that keeps the last whole image |
| `Backup` | `save`, `recover`, `start_sys` of `myfs.c`, `update_list` of `list.h`, kills at any point |
| `BackupProofs` | theorems about `Backup` |
| `MessageQueue` | `exp3/IPC_MessageQueue` |
| `MessageQueueProofs` | theorems about `MessageQueue` |
| `PipeIPC` | `exp3/IPC_PIPE` |
| `PipeProofs` | theorems about `PipeIPC` |
| `MyShell` | `exp3/myshell`: reading, splitting, forking, waiting |
| `SharedMemory` | `exp3/IPC_SharedMemery`, several runs of it |
| `CopyFile` | the copy loops of `exp3/myshell/cmd/copy.c` and `exp2/copyfile.c`, as functions |
| `Programs` | the composition: myshell and what it starts |
| `ProgramsProofs` | theorems about `Programs`, and so about `MyShell` and `SharedMemory` in it |
| `MC*` | one per modelled component: the module that TLC is run on |

`FreeList` refines `BlockPool` (proved, and checked by TLC), and `FileBlocks` uses
the pool in the form `BlockPool` gives it: `Take` hands out the lowest free blocks
and `CanTake` keeps one back. `Namespace` abstracts directory files to sequences of
entries; `FileBlocks` shows how far the blocks below keep such a sequence
(`DirectoryListsFiles`, and the condition `Damages` under which they do not). `OpenFiles`
extends `FileBlocks`: its next-state relation wraps that module's commands with what they
do to the table. `Backup` takes from `FreeList` that the list is a sorted ring between two
commands (proved there) and refines `ImageStore` (proved, and checked by TLC).

### FreeList

A node is named by the block it is stored in; 0 is the list head in the super
block. `next`, `prev`, `count` and `block_index` are the four fields of
`free_block_list`. `AddNext`/`AddPrev` and `DelNext`/`DelPrev` are `list_add` and
`list_del`. `pc` and the cursor `p` step the loops: `find` is the loop of
`allocate_block`, `scan` and `merge` are the two loops of `free_block`. Callers may
ask for any size in `Sizes` and give back, one at a time, blocks they hold: every
`free_block` in `file.c` releases one block, every `allocate_block` there asks
for one except the first, by `my_format`, whose result is the initial state.
(`do_create_file` computes a count, but all its callers pass length 0.)
`held` and `linked` are auxiliary. The three outcomes the code does not
mean to have are actions: `AllocateMiss` (the counter is lowered although nothing
was found), `FreeLost` (nothing is linked), and `MergeSkip` past a pair that
was just merged.

### FileBlocks

A unit is eight bytes, the size of a block number, so a block holds `B` units of data
or `B` numbers (128 in the code) and a directory entry takes `Entry` units (34). The
whole image is the record `fs`; operators take an image and return the next one,
because one command makes several calls. `Put` is the common part of `do_write` and
the three modes of `_do_write`, which differ in the position only. `fs.status` leaves
`"ok"` when a block is freed twice or a negative result of `allocate_block` is used as a
block number; the model stops there, because what the program then overwrites is not
described by any of its data structures. `clean` is the set of files that no damaging
write has hit; `Damages` says exactly which writes those are; `AppendReadsBack`
exhibits one. Data is told apart by file and position.

The commands run from the root directory, which here begins with the entry "."
alone; the sub-directories `my_format` makes would only take blocks. No file outgrows the
index: the lengths in the model stay below `MAX_FILE_SIZE`, and `FileBlocksAssumption` says
of the root directory that it has room for an entry of every inode, as it has in the code
(1024 entries of 272 bytes; `MAX_FILE_SIZE` is 16 MB).

### Namespace

A path is the sequence of its components; typed paths (`Args`) are absolute or
relative and may contain ".." anywhere. `Walk` is the loop that `findFcb` and `findParentFcb`
share, with its habit of passing over components it does not find, and `Down` one round of
it; `First` is where a loop over an array stops. A slot of the open
file table is an FCB and the path it was opened with; the two are what `is_file_open`
and `do_close` compare. The root directory starts without the four directories
`my_format` makes (remove them with `rm` to get there). `mkdir` takes one name.
`Rm` includes what `strcpy` does to the FCB's name before the emptiness check, and the
deletion of the root, after which the model ends. Only the path spelled "/" (`Slash`) is kept
from it: `findParentFcb` compares the path as it was typed (block.c:223), so that "/.", "/..",
"/a/..", "." and ".." in the root get past it. A file created in a current directory that has
been removed is written into free blocks, where the list of free blocks lives: `CreateAstray`
records that in `astray`, and the model ends there too.

### OpenFiles

A slot of the table is reduced to `p_WR`, because a file has at most one slot
(`OpenedOnce` of `Namespace`). `Open` gives it any value of `Garbage`, as `malloc` does;
`ReadFrom` and `ReadOn` are `read` with and without a position, and a position outside
the file is refused without effect. `DoRead` is `_do_read`: the rest of the block the
position lies in, then blocks from `get_blocks`. `Rm`, `cp` and `touch` do not look at the
table, so a slot outlives its file and meets the next one with the same FCB. `placed` is
auxiliary: the slots whose pointer has been set since they and their file exist and has
not been moved away by `write -o`, which adds the length to the old pointer
(file.c:767) wherever it wrote.

### Backup

Addresses count blocks; an image is the super block (block 0, with the head of the free
list), the FCB array (block 1) and the blocks behind, each free node or data. `base` is
where `malloc` puts the image, one of `Bases` in every session. `ImageOf` is the image a
run of commands can leave: `Work` jumps to any such image, with any set of free nodes and
any data, instead of repeating `FileBlocks`. `SaveOpens` is the `fopen` that empties the file,
`SaveWrites` writes one block more, `Stop` kills the program anywhere, and covers the
`exit(1)` after a short write. `Recover` stands for `recover` up to the loop, including
the move of the head's two links, `Relocate` for one iteration of `update_list`,
`Recovered` for the rest. A short read leaves zeros in the blocks that are missing, as
fresh pages from `malloc` are; a list that leads there ends in `pc = "wild"`, where
the program follows a pointer out of the image. `save` writes the FCB array a second time
behind the image; nobody reads it, but it takes part in what a kill can cut off.

### MessageQueue and PipeIPC

A thread or process has a program counter, and a step is one call that others can
observe. `RunAgain` starts the program again at any moment, so the run before it may
have ended or been killed: named semaphores and the queue keep what it left, the
pipe does not. The processes of the earlier run are gone by then. `msgget` may fail in each of
the three threads (`Sender1GivesUp`, `Sender2GivesUp`, `ReceiverGivesUp`), in `sender2` also
because there is no queue yet; only `sender2` posts the semaphore before it returns. All
messages are taken to have one length. `scanf` meets no end of input. In `PipeIPC` the parent's three seconds of sleep are no step: a sleep orders
nothing.

### MyShell, SharedMemory, CopyFile, Programs

*MyShell*. A line is a record: the kind of command and its number of tokens. stdio reads a
script into its buffer as a whole (`rp`, `re`), and the file offset `off` is shared with
every child. A child whose `execvp` fails calls `exit`, and the C library's `exit` moves the
offset back by what is unread in *its copy* of the buffer (main.c:85); a shell that comes to
the end of its own buffer then reads those lines again. Lines are taken to have one
length, so that an offset counts lines. At a terminal there is no offset. `Grown(n)` is the
token array after `n` tokens. `Signal` stops and continues a child: `waitpid` is called with
`WUNTRACED`, so it returns for a stopped one, and the loop around it calls it again.
`EndBySignal` ends the child, before or after it has executed its command; the loop is left
then too (main.c:96), and the offset stays, because nobody calls `exit`.

*SharedMemory*. Each run of the program has semaphores of its own, because `main` unlinks
the names first; all runs share the segment, which nobody removes. A text is stored and
copied in two halves, since `strcpy` is no atomic operation. `shmget` and `shmat` may fail
on either side, and `KillReceiver` ends the receiver wherever it is; the sender, its child,
goes on. `late` is auxiliary: runs that began while an older sender was there.

*CopyFile*. A file is a sequence of units. `Copied` is the loop of `copy.c`, with the stale end
of its buffer; `KernelCopies` the set of what the loop of `copyfile.c` may leave, since
`kernel_write` may take less than it is given. `CopyCutShort` is what `copy` leaves that a signal
ends: nothing done, or a destination that was emptied and then given any part of what is copied.
A crash of `copy` on a destination it cannot open is such an end. `Insmod` may find that it
cannot open the destination, and return.

*Programs* composes them: a command the shell starts is one of these programs, the shell
waits for the receiver (the parent) and not for the sender, and files are what the copies
leave. `KilledEarly` and `Killed` are the signals that end a child. A copy is one step: the
shell waits for it, so that nobody looks at the files before it has ended, in one of the ways
it can. `ran` and `cut` are auxiliary: the lines whose command was executed, and those of them
that a signal ended.

## 3. What the runs check

All runs are exhaustive on the instance given. "Finding" runs are expected to fail:
each states one sentence of the repository's own comments or help texts and TLC
shows a history that contradicts it.

| Run | Instance | Shows |
|---|---|---|
| `free_list` | 8 blocks, 1 for the FCB array, requests of 1 | list structure in every loop iteration, no block lost, exact counter, loops end, refinement of `BlockPool` |
| `free_list_sizes` | 7 blocks, requests of 1 and 2 | no double use and calls that return, also when blocks are lost and allocations miss |
| `file_blocks` | 12 blocks of 3 units, 3 files, lengths up to 7 | direct blocks and the first index level, shared disk, full disk, directory rewritten under deletion |
| `open_files` | 12 blocks of 2 units, 1 file, lengths up to 9, garbage inside and outside the file | one direct block, two through the first index level, two through a leaf of the second; reads from every position of all five blocks; the pointer of an open file |
| `namespace` | 2 names, 3 inodes, table of 2, paths of up to 2 parts | tree, open table, prompt, deletion of the root under every spelling |
| `message_queue` | 2 messages of room, up to 3 lines typed, 2 runs | exclusion, answers, all ways to hang, failing `msgget` included |
| `pipe_ipc` | pipe of 3 bytes, 2 runs | sizes printed, blocking writes, who ends |
| `backup` | 4 blocks, 2 addresses closer than the image is long, kills anywhere | relocation, recovery, refinement of `ImageStore` |
| `programs` | scripts of up to 4 lines, 3 lines typed, 2 runs of the shared memory program, 3 files, children stopped, killed or not executable | order and number of executions, who reads the terminal, who waits, the files |
| `file_append` | finding | `write -a` overwrites the last full block (file.c:588, 814) |
| `file_truncate` | finding | `write -t` frees surplus blocks twice (file.c:878) |
| `namespace_find` | finding | `findFcb` resolves paths that do not exist (block.c:163) |

### The properties

The type invariant of a module is a theorem of its own (`FreeList`, `Backup`) or the first
conjunct of an invariant that needs it: `OwnedOnce`, `PlacedIsInside`, `TreeIsSound`,
`SendersExclude`, `SemaphoresComeBack`, `LeftoversAreSenders`.

`FreeList`. `SortedRing`, `DisjointExtents` and `NeverFreeAndHeld` are the reasons why
`block.c` can be used at all; they hold for every mix of sizes. `NoBlockLost`,
`CountExact` and `WalkFindsANode` hold because callers ask for single blocks *and*
one block is kept in reserve: the last block of the disk then stays free, so every
freed block has an extent behind it. With requests of two blocks all three fail, so they are checked
and proved for single blocks; `WalkFindsANode` is proved only. `AtMostOneSeam` bounds what the merge pass
leaves behind: after `merge_block` the loop moves past the extent that grew, so a pair
may stay unmerged until a later pass; two never remain.

`FileBlocks`. `OwnedOnce` is isolation between files with an exact counter, `CleanFilesReadBack` and
`DirectoryListsFiles` are the data, `OnlyTheseLose` lists every way to leak blocks.
A step into a status other than "ok" is excepted in each of them.

`OpenFiles`. `ReadsFileData` reads a clean file from *every* position in every reachable
state and compares with what was written. `PlacedIsInside` says when `p_WR` can be trusted,
and its definition of `placed` is the list of the ways to lose it: a fresh slot, a slot older than
its file, a `write -o` in front of the pointer. The comment at file.c:453 has the pointer
always at the end of the file; it is not.

`Namespace`. `TreeIsSound`, `OpenedOnce` and `PromptIsTrue` relate three structures
that no single function updates. `CwdClosesOnlySo` says that only four things
can drop the current directory from the table: `cd` with a full table, `cd` out of a
directory that has been removed when the new one goes by the path in the prompt, `cd` to
the same directory under another path (`/x/a` for `/a`), and `close` of a directory that
was opened under another path than the prompt's. `RootGoesOnlySo` is what is left of the
refusal to delete the root, which cannot be reached (file.c:1038): only an `rm` does it whose path,
absolute or relative, has its names taken back by "..", never one that `findFcb` lets end at the
root because it passes over what is missing, and only when the root has at most one entry
besides its dot, whatever hangs below that.

`MessageQueue`. `EveryoneReturns` is the termination of every run with the
exceptions it names: a full queue under the receiver (`Jammed`), a receiver that waits for the end
message of a sender whose `msgget` failed (`NobodyLeft`), senders that wait for an answer or for
room when the receiver's `msgget` failed (`Unheard`), an end message typed by a user, an earlier
run that was killed.

`PipeIPC`. The exceptions are runs that began with a semaphore above zero (`stale`)
and, for `child3`, a parent that emptied the pipe too early.

`Backup`. `ImplementsStore` is the abstract promise; `PointersInside` says that no
pointer into the old image survives, `WholeBackupComesUp` that the relocation of a whole
backup ends. That only a torn one can crash the program (`WildOnlyWhenTorn`) is proved. That a torn
backup is accepted without a word, and that the one backup is gone while a new one is
written, is what the program does, and in `ImageStore` a step of the store.

`Programs`. `GoesBackOnlySo` and `ScriptEnds` together describe what a
command that cannot be executed does to a script: one alone makes the lines behind it run
again, once; two can keep the shell busy for ever. `CommandsTakeEffectInOrder` compares the files
with the effect of the executed lines one after the other, each once and whole, unless a signal
cut it short: then its destination is as before or begins as the copy does, and the lines behind
it work on that. `LeftoversAreSenders`, `PrintsWhatWasTyped` and `BothReturn` relate two
processes, or two runs, and name the exceptions: a sender whose receiver did not get the segment
or was killed is left wherever it is, and may ask for its text on the terminal the shell reads. `CopiesKeepData` says what the two copies
may do to a file.

### Bounds, and why they are enough

- Disk sizes of 7 to 12 blocks: enough for three extents with gaps between them, a
  merge on both sides of a freed block and a full disk. With `B = 3` and `L0 = 1` `file_blocks`
  reaches the first index level; with `B = 2` and `MaxLen = 9` the file of `open_files` has up to
  five blocks, `L0 + B + 2`, so that whole and partial last blocks, two entries of a leaf and the
  index block above it occur in an undamaged file. The theorems remove the bounds.
- `MaxLen`, `Sizes`, `Positions`: lengths that are and are not multiples of the block,
  writes that stay in a block, end at its end, and span several.
- `Shrinking = FALSE` in the passing runs keeps `write -t` from dropping blocks, which
  is the finding `file_truncate`; everything else runs with it.
- `Names`, `LastInode`, `MaxOpen`, `MaxArg`, `MaxPath`: two names give duplicates, three
  inodes a directory in a directory and reuse, two slots a full table. `MaxPath` stands
  for `_MAX_PATH`: `cd` could otherwise lengthen the prompt for ever through missing
  components.
- `Capacity = 2` with up to five messages of a run fills the queue; two runs show
  what the first leaves behind.
- `Garbage = {3, 9}` and `MaxPointer = 9` in `OpenFiles`: an uninitialised pointer inside
  a file, and at or behind the end of every one. The one file has FCB 1, so every slot that outlives its file meets
  the next one.
- `Bases = {1, 3}` with five blocks: a link that was not moved still points into the image,
  so that a mistake is not found by luck. Three possible nodes give every shape of list the
  walk can tell apart (none, one, neighbours, gaps). The theorems remove the bound.
- Scripts of four lines hold two commands that cannot be executed with lines before,
  between and behind them. `BUFFER_SIZE = 4` and `IntMax = 15` let the array double once and
  then refuse. `Chunk = 2` with files of 3, 1 and no units gives whole and short pieces.
  Three typed lines are two runs of the shared memory program and a command between or
  behind them.
- `MaxCount` in `PipeIPC` stops a counter that a stale run can drive for ever.

`CHECK_DEADLOCK FALSE` is set where the system really stops: a full disk on which every
command is refused, a deleted root directory, programs that have ended or hang.

### Fairness

`FreeList`: weak fairness of the loop steps, because a single thread runs the call it has
started; no fairness of callers. `MessageQueue` and `PipeIPC`: weak fairness of each
thread or process, which is what the operating system's scheduler gives; blocked
calls are disabled actions. In `MessageQueue` it includes the user, who types a bounded
number of lines and then `exit`. `Backup`: weak fairness of the loop of `update_list`, one
thread; killing it is allowed at any time. `Programs`: weak fairness of every process and of the
user who is asked for a text, and weak fairness of continuing a stopped child; that a signal ends
a child may happen at any time and never has to. A command the
shell waits for has strong fairness, because it may be stopped and continued again and
again and still gets its turn. The user need not type a command. `FileBlocks`, `OpenFiles`
and `Namespace` have safety properties only.

## 4. What is proved

Every invariant and every action property that a passing run checks is a theorem; so are
the refinements. Each is proved for all values of the module's constants (those of
`FileBlocks` and `OpenFiles` with `~Shrinking`, see below), under the named assumption of the module: `FreeListAssumption` (the disk has at
least two data blocks, requests are positive), `BackupAssumption`, `NamespaceAssumption`
(no name is "." or ".." or "/"), and those of the other modules, which say that bounds are
numbers, scripts are sequences of lines, and the files that a `copy` or `insmod` line reads
from are among those the model has (some of which do not exist). TLC evaluates them in the runs.

`FreeListProofs`. The invariant is `SInv`: `TypeOK`, `SortedRing`, `DisjointExtents`,
`NeverFreeAndHeld`, and two parts that make it inductive: `CursorOK` says where the
cursor and the block being freed stand relative to the nodes the loop has passed (the
node in front of the cursor starts at or below the freed block: otherwise insertion in
front of `p` could break the order), and `CounterOK` bounds `free_block_count` by the
blocks that are not held (otherwise types fail). `AddKeepsRing` and `DelKeepsRing` say what
`list_add` and `list_del` do to a sorted ring; each changing action has a lemma
(`AllocateKeepsSInv`, `InsertKeepsSInv`, `MergeKeepsSInv`), the others share
`QuietKeepsSInv`. From it follow `TypeCorrect`, `RingIsSorted`, `ExtentsAreDisjoint`,
`NoDoubleUse`.

For `OneSeamAtMost`, `SeamBudget` charges 2 for a seam the merge pass has left behind and 1
for a seam still ahead of it; an insertion leaves at most 3 to pay, and no step of the
pass raises the bill, so at most one seam is left at its end.

With `Sizes = {1}`, `PoolInv` adds that the last block is free, nothing is
lost and the counter agrees with the list. It gives `NoBlockIsLost`, `CounterIsExact`,
`WalksFindANode` and `ListImplementsPool`: every step of the list is a step of the pool
or a stutter.

`FileBlocksProofs`, for disks and blocks of any size, an index of any shape and any number of
files, with `~Shrinking`: `write -t` that drops blocks gives them back twice, which is the
finding `file_truncate`, and `FreedAtMostOnce` says that nothing else does. `FileBlocksAssumption` says
that neither the bound `MaxLen` nor a full root directory exceeds `MAX_FILE_SIZE`. A use of a
block is a *slot* of a file: its k-th data block, its index block, its index block of index
blocks, or a leaf below that. `Held` says that the slots of all files lie in different blocks
that are not free. While a command is under way, a file has given back or taken data blocks that
its index does not know of yet, so `Held` takes two numbers for each file, of data blocks and
of index blocks. `Saved` is what `save_blocks` does to the slots of one file (an induction
over the levels is not needed: `IndexApart` says that what the index is written to is
different from what it lists), `PutDone` and `Became` what a whole write does, `Wrote` what a
command does. `Sound` is `Held` with the numbers the lengths give. `OwnedOnce` alone is not
inductive: `rm` reads the root directory, drops an entry and writes the rest back, and that
the rest is no longer than what was read needs `RootFull` (the directory is as long as the
number of files says). `Good` is both, or a refused allocation (`Wild`). The loop of `cp` is an
induction over its buffers (`CopyWrites`).

`FilesReadBack` follows the contents along the same operations. `Cell` is the unit at a position
of a file, found through the index; `HasData` says that every position holds the unit that
belongs there. A file an operation does not work on stays `Intact`: its FCB, its slots and what
is in its data blocks are what they were, because its blocks are not free and not those of the
written file (`Held`). For the written file `Laid` says which unit of the buffer is in which
place of which block, and that in the blocks that were kept the other units stay. `UnitFor`
gives every position of what is written exactly one place when the write starts at the start of
the file or inside a block (`UnitsGoWhere`, `Starts`), which is what `Damages` excludes; and a write
in the middle must not drop later blocks (`Remains`). So `DataInv` is inductive: a clean file
holds its data. Reading it needs no more than the equation of `get_blocks` (`ReadIs`).

`DirectoryIsListed` does the same for the one file whose contents are not its own name and
position. `Lists` says that the units of the root directory are entries which begin with its
own and among which every existing file is. That the entries are as many as the files and
one (`RootFull`) makes each file's the only one. `touch` adds an entry at the end
(`EntryIsListed`). `rm` reads the entries, leaves out the first that names the file and writes the
rest (`EntryDropped`); the entries behind it move up by one, and since the removed file's was
the only one, those of the other files remain (`EntryIsDropped`). `Lists` also keeps a fact of
the sizes, that an entry is smaller than a block once there are files: otherwise the two
writes with which `rm` makes the directory anew would go over each other.

`FewCommandsLose` goes the other way round: `Held` says that no block has two owners, here each
must keep at least one. `HasBlock` says that a block is free or in a slot of a file,
`Retains` that no such block is left behind by a step. Two facts carry it through a write:
the free blocks and those the file keeps are among the free ones and the new list
(`Relisted`), and `save_blocks` puts every block of that list, of the old index and of the
fresh index blocks into a slot (`Conserved`; `IndexGrows` says that each fresh index block has
one). A write that starts in front of the file's last block keeps fewer data blocks than the
file had, and `Retains` then counts only those: this is the exception of `write -o`. A
file whose blocks were given back must have had no index block (`ReleasedIsSound`), the
exception of `rm`, for the file and for the root directory it rewrites. `LostIs` says that the
blocks outside all slots are those `Lost` counts.

`OtherAppendsReadBack` is for `file_append` what `FreedAtMostOnce` is for `file_truncate`:
an append that does not start at a full block leaves what the file held in place, also when
earlier commands have damaged it, and puts the new content behind it.

`OpenFilesProofs`. `OpenFilesAreFiles` carries the results over. `ReadReturnsCells` is the
correctness of `_do_read`, for every length, position and amount: the part of the first block,
then block after block, is the sequence of the file's units from that position on, up to the
end of the file (`CellsOfBlock`, `OneTurn` for one round, `LoopReads` for all of them). With
`DataInv` it gives `ReadsReturnData`. And a
read moves the pointer to the end of the file at most, and with the lengths that the
commands leave (`Wrote`) `OpenInv` is inductive. `MaxLen <= MaxPointer` is a relation
between two bounds of the model.

`BackupProofs`, for every number of blocks, every set of addresses and every content, under
`BackupAssumption`. The invariant is `BackupInv`. Its part `HowFar` makes it inductive: while the
list is relocated there are an address, a set of nodes and a cursor among them such that
the nodes before the cursor are moved and those from it on are as the file had them;
without it nothing says that the next link the loop follows leads to a node.
`CursorMoves` and `RelocateMoves` show one iteration, `RecoveredIsLegal` the end. From it follow
`BackupTypeCorrect`, `PointersStayInside`, `OnlyTornBackupsRunWild`, and
`BackupImplementsStore`: each step is one of the store or a stutter. `MeaningIsRelative` is the
lemma that carries it: what an image says does not depend on its address.

`NamespaceProofs`, for any names, inodes, slots and lengths of paths. The invariant `TreeInv`
is `Types`, `Once` (no slot twice, and no slot in use without an FCB) and, while the root
exists, `Shape` (which entries a directory begins with, and that what is not a directory has
none), `Tree` (each inode in use but the root is entered once, an entry leads to an inode in
use, a directory's ".." to where it is entered) and `Ranked` (some numbering grows from each
directory to what it holds). `Tree` alone is not enough: two directories that hold each
other satisfy it, and `rm` of one could then take the entry of the other. `Resolved` is
the lemma about `findFcb` on which `rm`, `cd` and `open` rest: whatever components were
passed over, a path that resolves leads to an inode in use, entered in the directory
`findParentFcb` gives, and to the root only when it has no components. `WalkIs` and
`FullPaths` show that the recursive functions of the model have the values their equations
say. `Creates`, `Removes` and `Renames` are the three things a command does to the tree.
For `PromptLeadsHome`: the way to the current directory neither leads through it nor through
a directory in which nothing is entered (`OnTheWay`, from `Ranked`), so what is created is
not on it and what is removed was not (`RemovedAlike`), and a way on which each component is
found as before leads where it led (`SameWay`). The attempt at `CwdStaysOpen` showed a case
no run was large enough for, `cd` out of a removed directory into one by the same path (a
removed directory whose name another file holds takes seven commands); the property now
names it.
`RootStays` rests on `Resolved` as well: what resolves to the root has no components left once
its dots are taken.
`FilesAreFoundByName` is what is left of the finding `namespace_find`: a path that exists is
always found, with the directory its other components lead to as parent (`ExistingIsFound`),
and whatever is found bears the name asked for, so that only components before the last are
passed over.

`MessageQueueProofs`, for every capacity, any number of lines and of runs. The invariant has two
parts that do not need each other. `Tokens` counts the semaphore and the senders that hold it:
one at most, unless in some run `sender2` came before the queue; then no more than there were
runs, and one more where `sender2` gave up in the run that is on. `Course`, as long as no run
was killed and no end message typed, follows the end message of a sender: it is in the queue
behind everything else the sender wrote, or the receiver has it, or the answer is in the
queue, and never two of these. Without the order in the queue, `AnsweredMeansPrinted` could
not be kept when the receiver answers.

`PipeProofs`, for every size of the pipe and of the texts and any number of runs. While no run
began with a stale semaphore the processes take turns: `Turns` says who cannot have started
yet, `Tokens` gives each semaphore's value from the program counters, `Bytes` what is in the
pipe. The types count posts by runs, since a stale run may add one.

`ProgramsProofs`, for every script and typed line, any sizes of buffer, token array and pieces
and any number of runs. `ShellInv` places the shell in its buffer (`Place`) and bounds what one
failed command can do to the shared offset (`Lone`). `TokensAlwaysFit` needs the growth
of the array as an induction over the tokens (`Growth`). `ShmInv` says for each run of the
shared memory program who has posted and who waits (`Exchange`), that the segment holds the
sender's text or "over" whole when its receiver reads it, unless an older sender is about
(`Whole`), and that the shell waits for the one receiver there is (`OneReceiver`).
`CommandsAreInOrder` carries `Order`: the files are among what the executed lines make of
the first ones (`History` names each stage, and takes for each line whether it was cut short), and the
line that is being executed has not taken effect, or is the last of them. `OnlySendersAreLeft`
follows from `ShmInv`: the one receiver whose program the shell still waits for is the last, and
every other has returned or was killed. For `CopiesAlwaysKeepData` the two copy loops are
inductions over the pieces of a file (`Upwards`): `Done` says what `copy` has written after so
many pieces (`RoundCopies`), `Spared` what every possible run of `copyfile.c` has left alone
however little the kernel took (`WrittenIsSpared`); a copy cut short leaves a beginning of a whole one
(`CutShortKeepsStock`). `Stock` is the invariant: the files
stay sequences no longer than the longest first file rounded up to whole pieces.

### Only model-checked

- Liveness (`EveryCallReturns`, `WholeBackupComesUp`, `EveryoneReturns`, `ParentEnds`,
  `Child3Ends`, `ScriptEnds`, `BothReturn`): fairness and `ENABLED` are out of the prover's reach.
- The three findings, which are counterexamples.

## 5. Known defects seen while modelling

With a run: the three findings above. Without one, all part of the models:

- `write -o` replaces every later block by a fresh one (file.c:771); a position on a
  block boundary goes over the start of the block before it (file.c:765).
- `cp` of a file of more than 1024 bytes, and a directory of 64 entries, meet the same
  boundary in `do_write` (file.c:831).
- Every `touch` and `mkdir` loses a block (file.c:19), every deleted file its index blocks.
- A refused `rm` renames the directory's FCB to "/" (file.c:1038), so that `mkdir` later
  accepts the name again.
- `close -a` stops at the first empty slot (file.c:1244).
- `rm .`, `rm /.` or `rm /a/..` in a root directory with at most one entry deletes the root:
  `strcpy` stands where `strcmp` is meant, so the refusal "Not allowed to delete root dir"
  (file.c:1040) is never reached, and block.c:223 stops only `rm /`.
- `mkdir` and `touch` in a current directory that has been removed write into free blocks
  (file.c:374, 1283), over the list of free blocks or what is next stored there.
- When the receiver's `msgget` fails the senders wait for ever (IPC_MessageQueue/main.c:111); when
  `sender1`'s does, the receiver does (main.c:36).
- `read FILE n` reads from `p_WR`, which is uninitialised after `open`; its help text says "from
  the beginning of the file" (file.c:507).
- `write -o` adds to the old pointer instead of setting it behind what it wrote (file.c:767).
- `save` empties the only backup before it writes, and `recover` goes on after a short read.
- A script with two commands that cannot be executed can keep myshell in a loop (main.c:85).
- The sender's "over" may overwrite the text of the next run (IPC_SharedMemery/main.c:49).
- `copy` writes ten bytes for every piece (copy.c:23) and empties the destination before it
  looks for the source; `copyfile.c` ignores what `kernel_write` returns.
- `cd` enters a directory when the table is full and does not open it (file.c:330).

Not in the models: `tree` is the fifteenth of `CMD_TYPES` = 14 commands (types.c:16-32),
`cat` of a directory uses a null pointer (file.c:971), `cat` of an empty file reads in front of
one (file.c:958), the refusal of an allocation is not looked at (file.c:730), `close -a` reads
behind a full table (file.c:1244), at the end of the input `getLine` returns empty lines for ever
(myfs.c:188), `copyfile.c` restores an address limit that was never read (copyfile.c:46).

## 6. What is not modelled, and the plan

Order of work, most important first. Done: 1-10.

1. `BlockPool`, `FreeList` and their theorems.
2. `FileBlocks` over the pool.
3. `Namespace`.
4. `MessageQueue`, `PipeIPC`.
5. `Backup` and `ImageStore` with their theorems.
6. `OpenFiles`; `MyShell`, `SharedMemory`, `CopyFile` and their composition `Programs`.
7. Theorems about `PipeIPC`, `MessageQueue`, `Programs` and `Namespace`.
8. `OwnedOnce` of `FileBlocks`, `PlacedIsInside` of `OpenFiles`, `CopiesKeepData` of `Programs`.
9. `CleanFilesReadBack`, with it `ReadsFileData`.
10. `DirectoryListsFiles`, `OnlyTheseLose`.
11. `Namespace` over `FileBlocks`, so that a write into the blocks of a removed current
   directory and `mkdir` with several names have a meaning.

### Left out

- Printing: `ls`, `pwd`, `tree`, `clear`, `cat`, `do_printf`, `show`, `show_fs_info`, the FCB's times.
- The command loop of the file system: it splits a line and looks a command up.
- `A+B.c` adds two numbers; `test_fork.c` forks.
- The process-listing modules of `exp1`. They change nothing. What can go wrong is that tasks
  fork and exit while the lists are walked without a lock, that a walk which starts
  from a task's own `sibling` node meets the list head in its parent and prints it as a
  task (list_process_by_pid.c:126), and that `get_pid_task` returns no task or a reference nobody
  gives back. What the kernel does to those lists meanwhile is not in this
  repository, and a model of it would be a model of the kernel.
- What the file system does after it has used a refused allocation as a block number or has
  put a block on the free list twice: the model stops in that state.
- Signals to a sender that outlives its receiver, and to myshell itself, which then only ends; and a
  child that is stopped before it has executed its command: it is as one that has not yet got to it.
- What a command does in the removed current directory after its first write there: the model
  ends with that write.
- The run of `myshell` inside another shell: the end of myshell itself also moves the offset
  of its script, which only its own parent can see.
