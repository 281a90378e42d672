----------------------------- MODULE SharedMemory -----------------------------
(***************************************************************************)
(* The shared memory program of exp3, run several times.                   *)
(*                                                                         *)
(* main makes two new semaphores and forks.  The child, the sender, reads  *)
(* a text, stores it in the segment, posts, waits for the answer and       *)
(* stores "over".  The parent, the receiver, waits, copies the text,       *)
(* prints it and posts.  Each run has semaphores of its own, because main  *)
(* unlinks the names first; but there is one segment, which nobody         *)
(* removes, and whoever started the program waits for the parent only: the *)
(* next run may find a sender that has not finished.                       *)
(*                                                                         *)
(* strcpy is not atomic: a text is stored and copied in two halves.        *)
(***************************************************************************)
EXTENDS Integers

CONSTANTS
          Texts,    \* what may be typed
          MaxRuns   \* bound: so many runs

ASSUME SharedMemoryAssumption == MaxRuns \in Nat

VARIABLES
          spc,      \* where the sender of each run is; "none" before the run
          rpc,      \* where its receiver is
          posted,   \* recv_sem and send_sem of each run
          shm,      \* the segment: two halves of a text
          buff,     \* what the receiver has copied so far
          typed,    \* what the sender has read
          late      \* auxiliary: runs started while an older sender was there
shmVars == <<spc, rpc, posted, shm, buff, typed, late>>

Runs == 1..MaxRuns
\* Returned, without a segment if "failed"; or ended by a signal.
Gone == {"gone", "failed", "killed"}

-----------------------------------------------------------------------------
(* main up to the fork                                                     *)

Start(r) ==
    /\ r \in Runs /\ spc[r] = "none" /\ \A q \in Runs : q < r => spc[q] # "none"
    /\ spc' = [spc EXCEPT ![r] = "get"] /\ rpc' = [rpc EXCEPT ![r] = "get"]
    /\ late' = IF \E q \in Runs : spc[q] \notin Gone \cup {"none"}
               THEN late \cup {r} ELSE late
    /\ UNCHANGED <<posted, shm, buff, typed>>

-----------------------------------------------------------------------------
(* The sender                                                              *)

Sender(r, from, to) == spc[r] = from /\ spc' = [spc EXCEPT ![r] = to]

\* shmget and shmat, either of which may fail.
SenderGets(r) ==
    /\ Sender(r, "get", "scan") \/ Sender(r, "get", "failed")
    /\ UNCHANGED <<rpc, posted, shm, buff, typed, late>>

Scan(r) ==
    /\ Sender(r, "scan", "store1")
    /\ \E t \in Texts : typed' = [typed EXCEPT ![r] = t]
    /\ UNCHANGED <<rpc, posted, shm, buff, late>>

Store(r) ==
    /\ \/ Sender(r, "store1", "store2") /\ shm' = [shm EXCEPT ![1] = typed[r]]
       \/ Sender(r, "store2", "post") /\ shm' = [shm EXCEPT ![2] = typed[r]]
    /\ UNCHANGED <<rpc, posted, buff, typed, late>>

PostEarly(r) ==                      \* mutant: posted before it is all there
    /\ Sender(r, "store2", "post") \/ Sender(r, "post", "wait")
    /\ posted' = IF spc[r] = "store2" THEN [posted EXCEPT ![r].recv = @ + 1] ELSE posted
    /\ shm' = IF spc[r] = "post" THEN [shm EXCEPT ![2] = typed[r]] ELSE shm
    /\ UNCHANGED <<rpc, buff, typed, late>>
Post(r) ==
    /\ Sender(r, "post", "wait")
    /\ posted' = [posted EXCEPT ![r].recv = @ + 1]
    /\ UNCHANGED <<rpc, shm, buff, typed, late>>

SenderWaits(r) ==
    /\ Sender(r, "wait", "over1") /\ posted[r].send > 0
    /\ posted' = [posted EXCEPT ![r].send = @ - 1]
    /\ UNCHANGED <<rpc, shm, buff, typed, late>>

Over(r) ==
    /\ \/ Sender(r, "over1", "over2") /\ shm' = [shm EXCEPT ![1] = "over"]
       \/ Sender(r, "over2", "gone") /\ shm' = [shm EXCEPT ![2] = "over"]
    /\ UNCHANGED <<rpc, posted, buff, typed, late>>

-----------------------------------------------------------------------------
(* The receiver                                                            *)

Receiver(r, from, to) == rpc[r] = from /\ rpc' = [rpc EXCEPT ![r] = to]

ReceiverGets(r) ==
    /\ Receiver(r, "get", "wait") \/ Receiver(r, "get", "failed")
    /\ UNCHANGED <<spc, posted, shm, buff, typed, late>>

ReceiverWaits(r) ==
    /\ Receiver(r, "wait", "copy1") /\ posted[r].recv > 0
    /\ posted' = [posted EXCEPT ![r].recv = @ - 1]
    /\ UNCHANGED <<spc, shm, buff, typed, late>>

CopyText(r) ==
    /\ \/ Receiver(r, "copy1", "copy2") /\ buff' = [buff EXCEPT ![r][1] = shm[1]]
       \/ Receiver(r, "copy2", "post") /\ buff' = [buff EXCEPT ![r][2] = shm[2]]
    /\ UNCHANGED <<spc, posted, shm, typed, late>>

AnswerMissing(r) ==                  \* mutant: send_sem is not posted
    Receiver(r, "post", "gone") /\ UNCHANGED <<spc, posted, shm, buff, typed, late>>
\* The text is printed and the sender told.
Answer(r) ==
    /\ Receiver(r, "post", "gone")
    /\ posted' = [posted EXCEPT ![r].send = @ + 1]
    /\ UNCHANGED <<spc, shm, buff, typed, late>>

\* A signal to the process that was started ends the receiver, and only that.
KillReceiver(r) ==
    /\ rpc[r] \notin Gone \cup {"none"} /\ rpc' = [rpc EXCEPT ![r] = "killed"]
    /\ UNCHANGED <<spc, posted, shm, buff, typed, late>>

-----------------------------------------------------------------------------
ShmInit ==
    /\ spc = [r \in Runs |-> "none"] /\ rpc = spc
    /\ posted = [r \in Runs |-> [recv |-> 0, send |-> 0]]
    /\ shm = <<"blank", "blank">> /\ buff = [r \in Runs |-> <<"blank", "blank">>]
    /\ typed = [r \in Runs |-> "blank"] /\ late = {}

-----------------------------------------------------------------------------
(* Properties                                                              *)

ShmTypeOK ==
    /\ \A r \in Runs :
          /\ spc[r] \in {"none", "get", "scan", "store1", "store2", "post", "wait",
                         "over1", "over2"} \cup Gone
          /\ rpc[r] \in {"none", "get", "wait", "copy1", "copy2", "post"} \cup Gone
          /\ posted[r].recv \in 0..1 /\ posted[r].send \in 0..1
          /\ typed[r] \in Texts \cup {"blank"}
    /\ late \subseteq Runs

\* A receiver prints what its own sender has read, whole; unless a sender of an
\* older run was still about when it started, whose "over" may come between.
PrintsWhatWasTyped ==
    \A r \in Runs \ late : rpc[r] \in {"post", "gone"} => buff[r] = <<typed[r], typed[r]>>
=============================================================================
