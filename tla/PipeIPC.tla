------------------------------- MODULE PipeIPC --------------------------------
(***************************************************************************)
(* exp3/IPC_PIPE: a parent and three children share one pipe.  child1      *)
(* fills it without blocking to learn its size, child2 writes a short      *)
(* text, child3 writes more than the pipe holds and must block; the parent *)
(* empties the pipe after each of them.  Three named semaphores order the  *)
(* processes; they outlive the program, while every run has a pipe of its  *)
(* own.  The parent gives child3 time by sleeping, which orders nothing:   *)
(* here it is a step like any other.                                       *)
(***************************************************************************)
EXTENDS Integers

CONSTANTS
          Cap,     \* bytes the pipe holds
          Hello,   \* bytes of child2's text, written by one call
          Extra,   \* PAGE_SIZE: child3 writes Cap + Extra bytes, one by one
          MaxRuns  \* bound: runs of the program

ASSUME PipeAssumption ==
    /\ Cap \in Nat /\ Hello \in 1..Cap /\ Extra \in Nat \ {0}
    /\ MaxRuns \in Nat \ {0}

VARIABLES
          pipe,      \* bytes in the pipe
          nonblock,  \* O_NONBLOCK of its writing end, shared by all processes
          sem,       \* the values of the semaphores
          pc,        \* where each process is
          n,         \* the sizes the parent has counted, one per clearPipe
          left,      \* calls child3 still has to make
          runs,      \* auxiliary: runs so far
          stale     \* auxiliary: an earlier run left a semaphore above zero
vars == <<pipe, nonblock, sem, pc, n, left, runs, stale>>

Children == {"child1", "child2", "child3"}
Processes == Children \cup {"parent"}
At(p, where) == pc[p] = where
Go(p, where) == pc' = [pc EXCEPT ![p] = where]
Wait(s) == sem[s] > 0 /\ sem' = [sem EXCEPT ![s] = @ - 1]
Post(s) == sem' = [sem EXCEPT ![s] = @ + 1]
Same == UNCHANGED <<runs, stale>>

-----------------------------------------------------------------------------
(* child1                                                                  *)

SetNonblock ==
    /\ At("child1", "start") /\ Go("child1", "fill") /\ nonblock' = TRUE
    /\ UNCHANGED <<pipe, sem, n, left>> /\ Same

\* testPipeBufferSize: one byte at a time, until write returns -1.
Fill ==
    /\ At("child1", "fill")
    /\ IF pipe < Cap THEN pipe' = pipe + 1 /\ UNCHANGED pc
                     ELSE Go("child1", "full") /\ UNCHANGED pipe
    /\ UNCHANGED <<nonblock, sem, n, left>> /\ Same

ResetForgotten ==                                \* mutant: the flag stays
    /\ At("child1", "full") /\ Go("child1", "done")
    /\ UNCHANGED <<pipe, nonblock, sem, n, left>> /\ Same
ResetNonblock ==
    /\ At("child1", "full") /\ Go("child1", "done") /\ nonblock' = FALSE
    /\ UNCHANGED <<pipe, sem, n, left>> /\ Same

(* child2                                                                  *)

Child2Starts ==
    /\ At("child2", "start") /\ Go("child2", "write") /\ Wait("write1_mutex")
    /\ UNCHANGED <<pipe, nonblock, n, left>> /\ Same

\* A short write is atomic; without room it blocks, or fails under O_NONBLOCK.
WriteHello ==
    /\ At("child2", "write") /\ Go("child2", "post")
    /\ IF pipe + Hello <= Cap THEN pipe' = pipe + Hello
                              ELSE nonblock /\ UNCHANGED pipe
    /\ UNCHANGED <<nonblock, sem, n, left>> /\ Same

Child2SaysNothing ==                             \* mutant: no sem_post
    /\ At("child2", "post") /\ Go("child2", "done")
    /\ UNCHANGED <<pipe, nonblock, sem, n, left>> /\ Same
Child2Ends ==
    /\ At("child2", "post") /\ Go("child2", "done") /\ Post("read_mutex")
    /\ UNCHANGED <<pipe, nonblock, n, left>> /\ Same

(* child3                                                                  *)

Child3Starts ==
    /\ At("child3", "start") /\ Go("child3", "write") /\ Wait("write2_mutex")
    /\ UNCHANGED <<pipe, nonblock, n, left>> /\ Same

\* Mutant: the loop runs once more.
WriteByteOnceMore ==
    /\ At("child3", "write") /\ (pipe < Cap \/ nonblock)
    /\ pipe' = IF pipe < Cap THEN pipe + 1 ELSE pipe
    /\ left' = left - 1
    /\ IF left = 0 THEN Go("child3", "done") ELSE UNCHANGED pc
    /\ UNCHANGED <<nonblock, sem, n>> /\ Same

\* The result of write is not looked at: a failed call counts like any other.
WriteByte ==
    /\ At("child3", "write")
    /\ IF pipe < Cap THEN pipe' = pipe + 1 ELSE nonblock /\ UNCHANGED pipe
    /\ left' = left - 1
    /\ IF left = 1 THEN Go("child3", "done") ELSE UNCHANGED pc
    /\ UNCHANGED <<nonblock, sem, n>> /\ Same

-----------------------------------------------------------------------------
(* The parent                                                              *)

NoWait ==                                        \* mutant: wait(NULL) left out
    /\ At("parent", "start") /\ Go("parent", "clear1")
    /\ UNCHANGED <<pipe, nonblock, sem, n, left>> /\ Same

\* wait(NULL): whichever child ends first.
WaitForChild ==
    /\ At("parent", "start") /\ \E c \in Children : At(c, "done")
    /\ Go("parent", "clear1")
    /\ UNCHANGED <<pipe, nonblock, sem, n, left>> /\ Same

\* Bound: the parent's counts stop here.  Only a stale run gets there, in which
\* the parent and child1 empty and fill the pipe against each other for ever.
MaxCount == Cap + Hello + Extra

\* clearPipe, for the i-th time: one byte at a time, until the pipe is empty.
Clear(i) ==
    /\ At("parent", <<"clear1", "clear2", "clear3">>[i])
    /\ IF pipe > 0
       THEN /\ pipe' = pipe - 1 /\ UNCHANGED pc
            /\ n' = [n EXCEPT ![i] = IF @ < MaxCount THEN @ + 1 ELSE @]
       ELSE Go("parent", <<"post1", "post2", "done">>[i]) /\ UNCHANGED <<pipe, n>>
    /\ UNCHANGED <<nonblock, sem, left>> /\ Same

LetChild2Write ==
    /\ At("parent", "post1") /\ Go("parent", "wait") /\ Post("write1_mutex")
    /\ UNCHANGED <<pipe, nonblock, n, left>> /\ Same

AwaitNothing ==                                  \* mutant: sem_wait left out
    /\ At("parent", "wait") /\ Go("parent", "clear2")
    /\ UNCHANGED <<pipe, nonblock, sem, n, left>> /\ Same
AwaitChild2 ==
    /\ At("parent", "wait") /\ Go("parent", "clear2") /\ Wait("read_mutex")
    /\ UNCHANGED <<pipe, nonblock, n, left>> /\ Same

LetChild3Write ==
    /\ At("parent", "post2") /\ Go("parent", "clear3") /\ Post("write2_mutex")
    /\ UNCHANGED <<pipe, nonblock, n, left>> /\ Same

-----------------------------------------------------------------------------
Fresh == [pipe |-> 0, nonblock |-> FALSE, pc |-> [p \in Processes |-> "start"],
          n |-> <<0, 0, 0>>, left |-> Cap + Extra]

Init ==
    /\ pipe = Fresh.pipe /\ nonblock = Fresh.nonblock /\ pc = Fresh.pc
    /\ n = Fresh.n /\ left = Fresh.left
    /\ sem = [s \in {"write1_mutex", "write2_mutex", "read_mutex"} |-> 0]
    /\ runs = 1 /\ stale = FALSE

\* The program is run again, all four processes having ended or been killed.
\* sem_open finds the semaphores as they were left.
RunAgain ==
    /\ runs < MaxRuns /\ runs' = runs + 1
    /\ stale' = (stale \/ \E s \in DOMAIN sem : sem[s] > 0)
    /\ pipe' = Fresh.pipe /\ nonblock' = Fresh.nonblock /\ pc' = Fresh.pc
    /\ n' = Fresh.n /\ left' = Fresh.left
    /\ UNCHANGED sem

Child1 == SetNonblock \/ Fill \/ ResetNonblock
Child2 == Child2Starts \/ WriteHello \/ Child2Ends
Child3 == Child3Starts \/ WriteByte
Parent == \/ WaitForChild \/ LetChild2Write \/ AwaitChild2 \/ LetChild3Write
          \/ \E i \in 1..3 : Clear(i)

Next == Child1 \/ Child2 \/ Child3 \/ Parent \/ RunAgain

\* Four processes under a scheduler that runs each that can run.
Fairness == /\ WF_vars(Child1) /\ WF_vars(Child2)
            /\ WF_vars(Child3) /\ WF_vars(Parent)
Spec == Init /\ [][Next]_vars /\ Fairness

-----------------------------------------------------------------------------
(* Properties                                                              *)

\* The types, and the pipe within its capacity.
TypeOK ==
    /\ pipe \in 0..Cap /\ nonblock \in BOOLEAN
    /\ \A s \in DOMAIN sem : sem[s] \in 0..MaxRuns
    /\ DOMAIN pc = Processes
    /\ left \in 0..Cap + Extra
    /\ runs \in 1..MaxRuns /\ stale \in BOOLEAN

\* The sizes the parent prints are the ones it means to show: the capacity of
\* the pipe, then the length of child2's text.  They may not be after a run that
\* was killed between a post and its wait: a child then starts too early.
CountsAreRight ==
    ~stale =>
        /\ ~At("parent", "start") /\ ~At("parent", "clear1") => n[1] = Cap
        /\ At("parent", "post2") \/ At("parent", "clear3") => n[2] = Hello

\* Only child1 writes without blocking: nobody else's write fails for want of
\* room, so no byte is dropped.
OnlyChild1Nonblocking ==
    ~stale /\ nonblock => At("child2", "start") /\ At("child3", "start")

\* After a run that ends by itself the semaphores are as at the start; and the
\* types hold, the pipe's capacity among them.
SemaphoresComeBack ==
    /\ TypeOK
    /\ ~stale /\ (\A p \in Processes : At(p, "done")) => \A s \in DOMAIN sem : sem[s] = 0

\* The parent always comes to its end.
ParentEnds == <>(At("parent", "done") \/ stale)

\* child3 gets all its bytes into the pipe, unless the parent empties it for
\* the last time before enough of them have been written: then it blocks for
\* good, because it holds the reading end of the pipe itself.
Child3Ends ==
    <>(At("child3", "done") \/ stale \/ (At("parent", "done") /\ n[3] < Extra))
=============================================================================
