----------------------------- MODULE MessageQueue -----------------------------
(***************************************************************************)
(* exp3/IPC_MessageQueue: two sender threads and a receiver thread share   *)
(* one System V message queue; a named semaphore guards the senders'       *)
(* calls.  Both objects belong to the kernel: neither is ever removed, so  *)
(* the next run of the program starts with what this one left.             *)
(*                                                                         *)
(* Each thread has a program counter; a step is one call that another      *)
(* thread can observe.  Messages of one length are assumed: the queue has  *)
(* room for Capacity of them, and msgsnd blocks when it is full.           *)
(***************************************************************************)
EXTENDS Integers, FiniteSets, Sequences, SequencesExt

CONSTANTS
          Capacity,   \* messages the queue has room for
          MayExist,   \* whether the queue may, or must not, exist beforehand
          Typed,      \* what the user may type besides "exit"
          MaxTyped,   \* bound: lines typed in one run, besides "exit"
          MaxRuns     \* bound: runs of the program

ASSUME MessageQueueAssumption ==
    /\ Capacity \in Nat \ {0} /\ MaxTyped \in Nat /\ MaxRuns \in Nat \ {0}
    /\ MayExist \subseteq BOOLEAN /\ Typed \subseteq {"text", "end1", "end2"}

VARIABLES
          exists,    \* the queue exists
          queue,     \* its messages, oldest first
          sem,       \* the value of queue_sem
          pc,        \* where each thread is
          mtext,     \* the text each sender is about to send
          leaving,   \* senders that have read "exit"
          cnt,       \* the receiver's count of end messages
          typed,     \* auxiliary: lines typed in this run
          runs,      \* auxiliary: runs so far
          past       \* auxiliary: what went wrong before now
vars == <<exists, queue, sem, pc, mtext, leaving, cnt, typed, runs, past>>

Senders == {"sender1", "sender2"}
End == [s \in Senders |-> IF s = "sender1" THEN "end1" ELSE "end2"]
Reply == [s \in Senders |-> IF s = "sender1" THEN 2 ELSE 3]    \* its mtype
At(t, where) == pc[t] = where
Go(t, where) == pc' = [pc EXCEPT ![t] = where]
Same == UNCHANGED <<runs, past>>

-----------------------------------------------------------------------------
(* The kernel's queue                                                      *)

Message(type, from, text) == [mtype |-> type, from |-> from, mtext |-> text]
Room == Len(queue) < Capacity
OfType(type) == {i \in DOMAIN queue : queue[i].mtype = type}
Oldest(type) == CHOOSE i \in OfType(type) : \A j \in OfType(type) : i <= j

-----------------------------------------------------------------------------
(* The senders                                                             *)

\* msgget: sender1 creates the queue, sender2 gives up without one.  The call can
\* also fail otherwise.  sender2 then posts a semaphore it never waited for.
Sender1Starts ==
    /\ At("sender1", "start") /\ Go("sender1", "read") /\ exists' = TRUE
    /\ UNCHANGED <<queue, sem, mtext, leaving, cnt, typed>> /\ Same

Sender1GivesUp ==
    /\ At("sender1", "start") /\ Go("sender1", "gave_up")
    /\ UNCHANGED <<exists, queue, sem, mtext, leaving, cnt, typed>> /\ Same

Sender2Starts ==
    /\ At("sender2", "start") /\ exists /\ Go("sender2", "read")
    /\ UNCHANGED <<exists, queue, sem, mtext, leaving, cnt, typed>> /\ Same

Sender2GivesUp ==
    /\ At("sender2", "start") /\ Go("sender2", "gave_up")
    /\ sem' = sem + 1
    /\ past' = past \cup {"gave_up"}
    /\ UNCHANGED <<exists, queue, mtext, leaving, cnt, typed, runs>>

\* scanf: both senders read the same standard input.
ReadText(s, text) ==
    /\ At(s, "read") /\ Go(s, "wait")
    /\ typed < MaxTyped /\ typed' = typed + 1
    /\ mtext' = [mtext EXCEPT ![s] = text]
    /\ past' = IF text = "text" THEN past ELSE past \cup {"typed_end"}
    /\ UNCHANGED <<exists, queue, sem, leaving, cnt, runs>>

ReadExit(s) ==
    /\ At(s, "read") /\ Go(s, "wait")
    /\ leaving' = leaving \cup {s}
    /\ mtext' = [mtext EXCEPT ![s] = End[s]]
    /\ UNCHANGED <<exists, queue, sem, cnt, typed>> /\ Same

SemWaitNotTaken(s) ==                            \* mutant: sem_wait left out
    /\ At(s, "wait") /\ Go(s, "send") /\ sem > 0
    /\ UNCHANGED <<exists, queue, sem, mtext, leaving, cnt, typed>> /\ Same
SemWait(s) ==
    /\ At(s, "wait") /\ Go(s, "send")
    /\ sem > 0 /\ sem' = sem - 1
    /\ UNCHANGED <<exists, queue, mtext, leaving, cnt, typed>> /\ Same

\* sender2 keeps the semaphore while it waits for the answer to its last one.
Send(s) ==
    /\ At(s, "send") /\ Room
    /\ queue' = Append(queue, Message(1, s, mtext[s]))
    /\ Go(s, IF s = "sender2" /\ s \in leaving THEN "answer" ELSE "post")
    /\ UNCHANGED <<exists, sem, mtext, leaving, cnt, typed>> /\ Same

SemPostMissing(s) ==                             \* mutant: none on the way out
    /\ At(s, "post")
    /\ sem' = IF s \in leaving THEN sem ELSE sem + 1
    /\ Go(s, IF s \notin leaving THEN "read"
             ELSE IF s = "sender1" THEN "answer" ELSE "done")
    /\ UNCHANGED <<exists, queue, mtext, leaving, cnt, typed>> /\ Same
SemPost(s) ==
    /\ At(s, "post")
    /\ sem' = sem + 1
    /\ Go(s, IF s \notin leaving THEN "read"
             ELSE IF s = "sender1" THEN "answer" ELSE "done")
    /\ UNCHANGED <<exists, queue, mtext, leaving, cnt, typed>> /\ Same

AnsweredByAnything(s) ==                         \* mutant: msgrcv of type 0
    /\ At(s, "answer") /\ queue # <<>>
    /\ queue' = Tail(queue)
    /\ Go(s, IF s = "sender1" THEN "done" ELSE "post")
    /\ UNCHANGED <<exists, sem, mtext, leaving, cnt, typed>> /\ Same
Answered(s) ==
    /\ At(s, "answer") /\ OfType(Reply[s]) # {}
    /\ queue' = RemoveAt(queue, Oldest(Reply[s]))
    /\ Go(s, IF s = "sender1" THEN "done" ELSE "post")
    /\ UNCHANGED <<exists, sem, mtext, leaving, cnt, typed>> /\ Same

-----------------------------------------------------------------------------
(* The receiver                                                            *)

ReceiverStarts ==
    /\ At("receiver", "start") /\ Go("receiver", "receive") /\ exists' = TRUE
    /\ UNCHANGED <<queue, sem, mtext, leaving, cnt, typed>> /\ Same

ReceiverGivesUp ==
    /\ At("receiver", "start") /\ Go("receiver", "gave_up")
    /\ UNCHANGED <<exists, queue, sem, mtext, leaving, cnt, typed>> /\ Same

\* msgrcv of type 1: an end message is told by its text alone.
Receive ==
    /\ At("receiver", "receive") /\ OfType(1) # {}
    /\ LET text == queue[Oldest(1)].mtext
       IN Go("receiver", IF text = "text" THEN "receive" ELSE text)
    /\ queue' = RemoveAt(queue, Oldest(1))
    /\ UNCHANGED <<exists, sem, mtext, leaving, cnt, typed>> /\ Same

\* The answer goes into the same queue, without the semaphore.
Answer(s) ==
    /\ At("receiver", End[s]) /\ Room
    /\ queue' = Append(queue, Message(Reply[s], "receiver", "over"))
    /\ cnt' = cnt + 1
    /\ Go("receiver", IF cnt + 1 = 2 THEN "done" ELSE "receive")
    /\ UNCHANGED <<exists, sem, mtext, leaving, typed>> /\ Same

-----------------------------------------------------------------------------
(* The program                                                             *)

Threads == Senders \cup {"receiver"}
Started == [t \in Threads |-> "start"]
AllReturned == \A t \in Threads : pc[t] \in {"done", "gave_up"}

Init ==
    /\ exists \in MayExist /\ queue = <<>> /\ sem = 1
    /\ pc = Started /\ mtext = [s \in Senders |-> "text"] /\ leaving = {}
    /\ cnt = 0 /\ typed = 0 /\ runs = 1 /\ past = {}

\* The program is started again, after it ended or was killed.  sem_open finds
\* the semaphore as it was: its initial value 1 is for the first run only.
RunAgain ==
    /\ runs < MaxRuns /\ runs' = runs + 1
    /\ past' = IF AllReturned THEN past ELSE past \cup {"killed"}
    /\ pc' = Started /\ mtext' = [s \in Senders |-> "text"] /\ leaving' = {}
    /\ cnt' = 0 /\ typed' = 0
    /\ UNCHANGED <<exists, queue, sem>>

SenderStep(s) ==
    \/ \E text \in Typed : ReadText(s, text)
    \/ ReadExit(s) \/ SemWait(s) \/ Send(s) \/ SemPost(s) \/ Answered(s)
Sender1 == Sender1Starts \/ Sender1GivesUp \/ SenderStep("sender1")
Sender2 == Sender2Starts \/ Sender2GivesUp \/ SenderStep("sender2")
Receiver == ReceiverStarts \/ ReceiverGivesUp \/ Receive \/ \E s \in Senders : Answer(s)

Next == Sender1 \/ Sender2 \/ Receiver \/ RunAgain

\* Every thread that can run gets to run, and the user types exit in the end.
Fairness == WF_vars(Sender1) /\ WF_vars(Sender2) /\ WF_vars(Receiver)
Spec == Init /\ [][Next]_vars /\ Fairness

-----------------------------------------------------------------------------
(* Properties                                                              *)

\* What the programs and the user write.
Texts == {"text", "end1", "end2", "over"}

\* The value types, and the queue never over its capacity.
TypeOK ==
    /\ exists \in BOOLEAN
    /\ queue \in Seq([mtype : 1..3, from : Threads, mtext : Texts])
    /\ Len(queue) <= Capacity
    /\ sem \in 0..1 + MaxRuns
    /\ pc \in [Threads -> {"start", "read", "wait", "send", "post", "answer",
                           "receive", "end1", "end2", "done", "gave_up"}]
    /\ leaving \subseteq Senders /\ cnt \in 0..2

Holding(s) == \/ pc[s] \in {"send", "post"}
              \/ s = "sender2" /\ pc[s] = "answer"

\* queue_sem keeps the senders' calls apart, in every run, unless in some run
\* sender2 came before the queue did: its stray post outlives that run.  The
\* types, and with them the queue's capacity, go with it.
SendersExclude ==
    /\ TypeOK
    /\ "gave_up" \in past \/ Cardinality({s \in Senders : Holding(s)}) <= 1

\* A sender that returns has had all it sent printed, unless an end message
\* was typed or an earlier run was killed, which leave answers to nobody.
AnsweredMeansPrinted ==
    \A s \in Senders :
        At(s, "done") /\ past \cap {"typed_end", "killed"} = {} =>
            \A i \in OfType(1) : queue[i].from # s

\* The ways in which the program can come to a halt without having ended.
Jammed == ~Room /\ pc["receiver"] \in {"end1", "end2"}
NobodyLeft == /\ \E s \in Senders : At(s, "gave_up")
              /\ At("receiver", "receive") /\ OfType(1) = {}
Unheard == /\ At("receiver", "gave_up")
           /\ \E s \in Senders : At(s, "answer") \/ (At(s, "send") /\ ~Room)

\* Every run ends with all threads returned, unless the receiver cannot answer
\* because the queue is full, or it waits for a sender that gave up, or it gave up
\* itself and a sender waits for its answer or for room in the queue, or someone
\* typed an end message, or an earlier run was killed.
EveryoneReturns ==
    \/ []<>AllReturned
    \/ <>[](Jammed \/ NobodyLeft \/ Unheard)
    \/ <>(past \cap {"typed_end", "killed"} # {})
=============================================================================
