-------------------------- MODULE MessageQueueProofs --------------------------
(***************************************************************************)
(* For every capacity of the queue, any number of lines typed and any      *)
(* number of runs: the semaphore keeps the senders apart, and a sender     *)
(* that has returned has had all it sent printed.                          *)
(*                                                                         *)
(* Two arguments are independent of each other.  Exclusion counts tokens:  *)
(* the semaphore and the sender that holds it make at most one, or one     *)
(* more for every time sender2 gave up (Tokens).  The answers follow the   *)
(* end message of a sender through the program: it is in the queue, behind *)
(* all that the sender wrote, or the receiver has it, or the answer is in  *)
(* the queue (Course), and never two of these at a time.                   *)
(***************************************************************************)
EXTENDS MessageQueue, TLAPS, SequenceTheorems, FiniteSetTheorems

-----------------------------------------------------------------------------
(* The invariant                                                           *)

SenderPlaces == {"start", "read", "wait", "send", "post", "answer", "done", "gave_up"}
ReceiverPlaces == {"start", "receive", "end1", "end2", "done", "gave_up"}
Written == {"text", "end1", "end2"}
Messages == [mtype : 1..3, from : Threads, mtext : Texts]

Control ==
    /\ pc \in [Threads -> SenderPlaces \cup ReceiverPlaces]
    /\ pc["sender1"] \in SenderPlaces /\ pc["sender2"] \in SenderPlaces
    /\ pc["receiver"] \in ReceiverPlaces
    /\ mtext \in [Senders -> Written]
    /\ leaving \subseteq Senders
Data ==
    /\ exists \in BOOLEAN
    /\ queue \in Seq(Messages) /\ Len(queue) <= Capacity
    /\ \A i \in OfType(1) : queue[i].mtext \in Written
    /\ sem \in Nat /\ runs \in 1..MaxRuns
    /\ cnt \in 0..2 /\ (pc["receiver"] # "done" => cnt < 2)

\* The semaphore and who holds it.
Held(s) == IF Holding(s) THEN 1 ELSE 0
InUse == sem + Held("sender1") + Held("sender2")
StrayPost == "gave_up" \in past
Tokens ==
    /\ InUse <= runs + 1
    /\ pc["sender2"] # "gave_up" => InUse <= runs
    /\ ~StrayPost => InUse <= 1

\* Whether a sender has sent its end message and not yet had the answer, or has.
Awaiting(s) == s \in leaving /\ (At(s, "answer") \/ (s = "sender1" /\ At(s, "post")))
HasAnswer(s) == s \in leaving /\ (At(s, "done") \/ (s = "sender2" /\ At(s, "post")))

\* The messages of a sender that nobody has received.
Unread(s) == {i \in OfType(1) : queue[i].from = s}

\* Where a sender is, and what it sends next.
Places(s) ==
    /\ s \in leaving => pc[s] \in {"wait", "send", "post", "answer", "done"}
    /\ s \notin leaving =>
          pc[s] \in {"start", "read", "wait", "send", "post", "gave_up"}
    /\ pc[s] \in {"wait", "send"} => mtext[s] = IF s \in leaving THEN End[s] ELSE "text"

\* Nothing is left of a sender that has its answer, or of an earlier run.
Printed(s) == pc[s] \in {"start", "gave_up"} \/ HasAnswer(s) => Unread(s) = {}

\* The receiver about to answer, and the answer underway: never both, and both
\* after all that the sender wrote.
Asked(s) == At("receiver", End[s]) =>
                Awaiting(s) /\ Unread(s) = {} /\ OfType(Reply[s]) = {}
Replied(s) == \A i \in OfType(Reply[s]) :
                 Awaiting(s) /\ Unread(s) = {} /\ \A j \in OfType(Reply[s]) : i = j

\* A message underway: an end message is the last of its sender.
Underway(i) ==
    /\ queue[i].from \in Senders
    /\ queue[i].mtext \in {"text", End[queue[i].from]}
    /\ queue[i].mtext = End[queue[i].from] =>
          /\ Awaiting(queue[i].from) /\ OfType(Reply[queue[i].from]) = {}
          /\ \A j \in Unread(queue[i].from) : j <= i

\* Unless someone typed an end message or a run was killed:
Clean == past \cap {"typed_end", "killed"} = {}
Course ==
    /\ \A s \in Senders : Places(s) /\ Printed(s) /\ Asked(s) /\ Replied(s)
    /\ \A i \in OfType(1) : Underway(i)

QueueInv == Control /\ Data /\ Tokens /\ (Clean => Course)

-----------------------------------------------------------------------------
(* The queue                                                               *)

\* What is left when one message is taken out.
LEMMA WithoutOne ==
    ASSUME NEW T, NEW q \in Seq(T), NEW i \in 1..Len(q)
    PROVE  /\ RemoveAt(q, i) \in Seq(T)
           /\ Len(RemoveAt(q, i)) = Len(q) - 1
           /\ \A k \in 1..Len(q) - 1 : RemoveAt(q, i)[k] = IF k < i THEN q[k] ELSE q[k + 1]
<1> DEFINE front == SubSeq(q, 1, i - 1)
           back == SubSeq(q, i + 1, Len(q))
<1>1. Len(q) \in Nat /\ \A k \in 1..Len(q) : q[k] \in T BY LenProperties, ElementOfSeq
<1>2. /\ front \in Seq(T) /\ Len(front) = i - 1
      /\ \A k \in 1..i - 1 : front[k] = q[k]
  BY <1>1, SubSeqProperties
<1>3. /\ back \in Seq(T) /\ Len(back) = Len(q) - i
      /\ \A k \in 1..Len(q) - i : back[k] = q[i + k]
  BY <1>1, SubSeqProperties
<1> HIDE DEF front, back
<1>4. /\ front \o back \in Seq(T) /\ Len(front \o back) = Len(q) - 1
      /\ \A k \in 1..Len(q) - 1 :
            (front \o back)[k] = IF k <= i - 1 THEN front[k] ELSE back[k - (i - 1)]
  <2>1. /\ front \o back \in Seq(T) /\ Len(front \o back) = Len(front) + Len(back)
        /\ \A k \in 1..Len(front) + Len(back) :
              (front \o back)[k] =
                 IF k <= Len(front) THEN front[k] ELSE back[k - Len(front)]
    BY <1>2, <1>3, ConcatProperties
  <2>2. Len(front) + Len(back) = Len(q) - 1 BY <1>1, <1>2, <1>3
  <2> QED BY <2>1, <2>2, <1>2
<1>5. \A k \in 1..Len(q) - 1 : (front \o back)[k] = IF k < i THEN q[k] ELSE q[k + 1]
  <2> SUFFICES ASSUME NEW k \in 1..Len(q) - 1
               PROVE  (front \o back)[k] = IF k < i THEN q[k] ELSE q[k + 1]
    OBVIOUS
  <2>1. CASE k < i BY <2>1, <1>1, <1>2, <1>4
  <2>2. CASE ~(k < i)
    <3>1. k - (i - 1) \in 1..Len(q) - i BY <2>2, <1>1
    <3>2. back[k - (i - 1)] = q[i + (k - (i - 1))] BY <3>1, <1>3
    <3>3. i + (k - (i - 1)) = k + 1 BY <1>1
    <3> QED BY <2>2, <3>2, <3>3, <1>1, <1>4
  <2> QED BY <2>1, <2>2
<1>6. RemoveAt(q, i) = front \o back BY DEF RemoveAt, front, back
<1> QED BY <1>4, <1>5, <1>6

\* A set of naturals that is not empty has a smallest element.
LEMMA SmallestOf ==
    ASSUME NEW T \in SUBSET Nat, T # {}
    PROVE  \E x \in T : \A y \in T : x <= y
<1>1. PICK x \in T : \A y \in T : ~(<<y, x>> \in OpToRel(<, Nat))
  BY NatLessThanWellFounded, WFMin, Zenon
<1>2. \A y \in T : ~(y < x) BY <1>1 DEF OpToRel
<1> QED BY <1>2

\* msgrcv finds the oldest message of a type, if there is one.
LEMMA OldestIsFirst ==
    ASSUME Data, NEW t, OfType(t) # {}
    PROVE  /\ Oldest(t) \in OfType(t) /\ Oldest(t) \in 1..Len(queue)
           /\ \A j \in OfType(t) : Oldest(t) <= j
<1>1. DOMAIN queue = 1..Len(queue) /\ Len(queue) \in Nat BY LenProperties DEF Data
<1>2. OfType(t) \in SUBSET Nat /\ OfType(t) \subseteq 1..Len(queue) BY <1>1 DEF OfType
<1>3. \E i \in OfType(t) : \A j \in OfType(t) : i <= j BY <1>2, SmallestOf
<1>4. Oldest(t) \in OfType(t) /\ \A j \in OfType(t) : Oldest(t) <= j BY <1>3 DEF Oldest
<1> QED BY <1>2, <1>4

\* What msgsnd does to the queue.
LEMMA Sent ==
    ASSUME Data, NEW m \in Messages, queue' = Append(queue, m)
    PROVE  /\ queue' \in Seq(Messages) /\ Len(queue') = Len(queue) + 1
           /\ Len(queue) \in Nat /\ queue'[Len(queue) + 1] = m
           /\ \A i \in 1..Len(queue) : queue'[i] = queue[i]
<1>1. queue \in Seq(Messages) BY DEF Data
<1> QED BY <1>1, AppendProperties, LenProperties

\* What msgrcv does.
LEMMA Taken ==
    ASSUME Data, NEW t, OfType(t) # {}, queue' = RemoveAt(queue, Oldest(t))
    PROVE  /\ queue' \in Seq(Messages) /\ Len(queue') = Len(queue) - 1
           /\ Len(queue) \in Nat
           /\ \A k \in 1..Len(queue) - 1 :
                 queue'[k] = IF k < Oldest(t) THEN queue[k] ELSE queue[k + 1]
<1>1. queue \in Seq(Messages) BY DEF Data
<1> QED BY <1>1, OldestIsFirst, WithoutOne, LenProperties

-----------------------------------------------------------------------------
(* Types and tokens                                                        *)

\* Every thread stays in its own code.
LEMMA KeepsControl ==
    ASSUME Control, Data, [Next]_vars
    PROVE  Control'
<1> USE MessageQueueAssumption DEF Control, At, Go, Same, Threads, Senders, SenderPlaces,
        ReceiverPlaces, Written
<1>1. CASE Sender1Starts \/ Sender1GivesUp BY <1>1 DEF Sender1Starts, Sender1GivesUp
<1>2. CASE Sender2Starts BY <1>2 DEF Sender2Starts
<1>3. CASE Sender2GivesUp BY <1>3 DEF Sender2GivesUp
<1>4. ASSUME NEW s \in Senders, NEW text \in Typed, ReadText(s, text) PROVE Control'
  BY <1>4 DEF ReadText
<1>5. ASSUME NEW s \in Senders, ReadExit(s) PROVE Control' BY <1>5 DEF ReadExit, End
<1>6. ASSUME NEW s \in Senders, SemWait(s) PROVE Control' BY <1>6 DEF SemWait
<1>7. ASSUME NEW s \in Senders, Send(s) PROVE Control' BY <1>7 DEF Send
<1>8. ASSUME NEW s \in Senders, SemPost(s) PROVE Control' BY <1>8 DEF SemPost
<1>9. ASSUME NEW s \in Senders, Answered(s) PROVE Control' BY <1>9 DEF Answered
<1>10. CASE ReceiverStarts \/ ReceiverGivesUp
  BY <1>10 DEF ReceiverStarts, ReceiverGivesUp
<1>11. CASE Receive
  <2>1. queue[Oldest(1)].mtext \in Written BY <1>11, OldestIsFirst DEF Receive, Data
  <2> QED BY <1>11, <2>1 DEF Receive
<1>12. ASSUME NEW s \in Senders, Answer(s) PROVE Control' BY <1>12 DEF Answer, End
<1>13. CASE RunAgain BY <1>13 DEF RunAgain, Started
<1>14. CASE UNCHANGED vars BY <1>14 DEF vars
<1> QED BY <1>1, <1>2, <1>3, <1>4, <1>5, <1>6, <1>7, <1>8, <1>9, <1>10, <1>11, <1>12,
           <1>13, <1>14 DEF Next, Sender1, Sender2, Receiver, SenderStep

\* The queue within its capacity, and the receiver's count below two till it ends.
LEMMA KeepsData ==
    ASSUME Control, Data, [Next]_vars
    PROVE  Data'
<1> USE MessageQueueAssumption DEF At, Go, Same
<1>1. ASSUME queue' = queue PROVE OfType(1)' = OfType(1) BY <1>1 DEF OfType
<1>2. pc \in [Threads -> SenderPlaces \cup ReceiverPlaces] BY DEF Control
<1> USE DEF Data, Threads, Senders
<1>3. CASE Sender1Starts \/ Sender1GivesUp
  BY <1>1, <1>2, <1>3 DEF Sender1Starts, Sender1GivesUp
<1>4. CASE Sender2Starts BY <1>1, <1>2, <1>4 DEF Sender2Starts
<1>5. CASE Sender2GivesUp
  <2>1. /\ pc' = [pc EXCEPT !["sender2"] = "gave_up"] /\ exists' = exists
        /\ queue' = queue /\ cnt' = cnt /\ runs' = runs
    BY <1>5, Zenon DEF Sender2GivesUp
  <2>2. sem' \in Nat
    <3> HIDE MessageQueueAssumption DEF Data
    <3>1. sem' = sem + 1 BY <1>5, Zenon DEF Sender2GivesUp
    <3>2. sem \in Nat BY Zenon DEF Data
    <3>3. sem + 1 \in Nat BY <3>2
    <3> QED BY <3>1, <3>3, Zenon
  <2>3. pc'["receiver"] = pc["receiver"] BY <1>2, <2>1
  <2>4. \A i \in OfType(1)' : queue'[i].mtext \in Written BY <1>1, <2>1
  <2> QED BY <2>1, <2>2, <2>3, <2>4
<1>6. ASSUME NEW s \in Senders, NEW text \in Typed, ReadText(s, text) PROVE Data'
  BY <1>1, <1>2, <1>6 DEF ReadText
<1>7. ASSUME NEW s \in Senders, ReadExit(s) PROVE Data' BY <1>1, <1>2, <1>7 DEF ReadExit
<1>8. ASSUME NEW s \in Senders, SemWait(s) PROVE Data' BY <1>1, <1>2, <1>8 DEF SemWait
<1>9. ASSUME NEW s \in Senders, SemPost(s) PROVE Data' BY <1>1, <1>2, <1>9 DEF SemPost
<1>10. ASSUME NEW s \in Senders, Send(s) PROVE Data'
  <2>1. Message(1, s, mtext[s]) \in Messages /\ mtext[s] \in Written
    BY DEF Message, Messages, Control, Written, Texts
  <2>2. /\ queue' \in Seq(Messages) /\ Len(queue') <= Capacity
        /\ \A i \in OfType(1)' : queue'[i].mtext \in Written
    <3>1. DOMAIN queue = 1..Len(queue) /\ DOMAIN queue' = 1..Len(queue) + 1
      BY <1>10, <2>1, Sent, LenProperties DEF Send
    <3>2. \A i \in OfType(1)' : \/ i \in OfType(1) /\ queue'[i] = queue[i]
                                \/ i = Len(queue) + 1
      BY <1>10, <2>1, <3>1, Sent DEF Send, OfType
    <3>3. queue'[Len(queue) + 1].mtext \in Written BY <1>10, <2>1, Sent DEF Send, Message
    <3>4. queue' \in Seq(Messages) /\ Len(queue') <= Capacity
      BY <1>10, <2>1, Sent DEF Send, Room
    <3> QED BY <3>2, <3>3, <3>4
  <2> QED BY <1>10, <1>2, <2>2 DEF Send
<1>11. ASSUME NEW t, OfType(t) # {}, queue' = RemoveAt(queue, Oldest(t))
       PROVE  /\ queue' \in Seq(Messages) /\ Len(queue') <= Capacity
              /\ \A i \in OfType(1)' : queue'[i].mtext \in Written
  <2>1. DOMAIN queue = 1..Len(queue) /\ DOMAIN queue' = 1..Len(queue) - 1
    BY <1>11, Taken, LenProperties
  <2>2. \A i \in OfType(1)' : \E k \in OfType(1) : queue'[i] = queue[k]
    <3>1. /\ Oldest(t) \in 1..Len(queue) /\ Len(queue) \in Nat
          /\ \A k \in 1..Len(queue) - 1 :
                queue'[k] = IF k < Oldest(t) THEN queue[k] ELSE queue[k + 1]
      BY <1>11, OldestIsFirst, Taken
    <3>2. \A k \in 1..Len(queue) - 1 : \E j \in 1..Len(queue) : queue'[k] = queue[j]
      BY <3>1
    <3> QED BY <2>1, <3>2 DEF OfType
  <2> QED BY <1>11, <2>2, Taken
<1>12. ASSUME NEW s \in Senders, Answered(s) PROVE Data'
  BY <1>2, <1>11, <1>12 DEF Answered
<1>13. CASE ReceiverStarts \/ ReceiverGivesUp
  BY <1>1, <1>2, <1>13 DEF ReceiverStarts, ReceiverGivesUp
<1>14. CASE Receive BY <1>2, <1>11, <1>14 DEF Receive
<1>15. ASSUME NEW s \in Senders, Answer(s) PROVE Data'
  <2>1. Message(Reply[s], "receiver", "over") \in Messages /\ Reply[s] # 1
    BY DEF Message, Messages, Reply, Texts
  <2>2. /\ queue' \in Seq(Messages) /\ Len(queue') <= Capacity
        /\ \A i \in OfType(1)' : queue'[i].mtext \in Written
    <3>1. DOMAIN queue = 1..Len(queue) /\ DOMAIN queue' = 1..Len(queue) + 1
      BY <1>15, <2>1, Sent, LenProperties DEF Answer
    <3>2. \A i \in OfType(1)' : i \in OfType(1) /\ queue'[i] = queue[i]
      BY <1>15, <2>1, <3>1, Sent DEF Answer, OfType, Message
    <3>3. queue' \in Seq(Messages) /\ Len(queue') <= Capacity
      BY <1>15, <2>1, Sent DEF Answer, Room
    <3> QED BY <3>2, <3>3
  <2>3. pc["receiver"] # "done" /\ pc'["receiver"] = IF cnt + 1 = 2 THEN "done" ELSE "receive"
    BY <1>2, <1>15 DEF Answer, End
  <2>4. cnt' \in 0..2 /\ (pc'["receiver"] # "done" => cnt' < 2) BY <1>15, <2>3 DEF Answer
  <2> QED BY <1>15, <2>2, <2>4 DEF Answer
<1>16. CASE RunAgain BY <1>1, <1>2, <1>16 DEF RunAgain, Started
<1>17. CASE UNCHANGED vars BY <1>1, <1>17 DEF vars
<1> QED BY <1>3, <1>4, <1>5, <1>6, <1>7, <1>8, <1>9, <1>10, <1>12, <1>13, <1>14, <1>15,
           <1>16, <1>17 DEF Next, Sender1, Sender2, Receiver, SenderStep

\* A token leaves the semaphore for the sender that waited, and comes back with
\* its post: only the stray post of a sender2 that gave up adds one.
LEMMA KeepsTokens ==
    ASSUME Control, Data, Tokens, [Next]_vars
    PROVE  Tokens'
<1>1. /\ sem \in Nat /\ runs \in Nat /\ Held("sender1") \in 0..1 /\ Held("sender2") \in 0..1
      /\ pc \in [Threads -> SenderPlaces \cup ReceiverPlaces]
  BY MessageQueueAssumption DEF Data, Held, Control
<1>2. InUse \in Nat BY <1>1 DEF InUse
<1>3. ASSUME InUse' = InUse, runs' = runs, past' = past,
             pc["sender2"] = "gave_up" => pc'["sender2"] = "gave_up"
      PROVE  Tokens'
  <2>1. StrayPost' = StrayPost BY <1>3 DEF StrayPost
  <2> QED BY <1>1, <1>2, <1>3, <2>1 DEF Tokens
<1> USE DEF At, Go, Same, Threads, Senders
<1>4. ASSUME NEW t \in Threads, NEW new,
             Go(t, new), ~Holding(t), new \notin {"send", "post", "answer"}
      PROVE  Held("sender1")' = Held("sender1") /\ Held("sender2")' = Held("sender2")
  BY <1>1, <1>4 DEF Holding, Held
<1>5. CASE Sender1Starts \/ Sender1GivesUp
  BY <1>1, <1>3, <1>4, <1>5 DEF Sender1Starts, Sender1GivesUp, Holding, InUse
<1>6. CASE Sender2Starts BY <1>1, <1>3, <1>4, <1>6 DEF Sender2Starts, Holding, InUse
<1>7. CASE Sender2GivesUp
  <2>1. /\ At("sender2", "start") /\ Go("sender2", "gave_up")
        /\ runs' = runs /\ StrayPost'
    BY <1>7, Zenon DEF Sender2GivesUp, StrayPost
  <2>2. sem' = sem + 1 BY <1>7, Zenon DEF Sender2GivesUp
  <2>3. Held("sender1")' = Held("sender1") /\ Held("sender2")' = Held("sender2")
    BY <1>4, <2>1 DEF Holding
  <2>4. InUse' = InUse + 1 BY <1>1, <2>2, <2>3 DEF InUse
  <2>5. InUse <= runs /\ pc'["sender2"] = "gave_up" BY <1>1, <2>1 DEF Tokens
  <2>6. InUse' <= runs' + 1 BY <1>1, <1>2, <2>1, <2>4, <2>5
  <2> QED BY <2>1, <2>5, <2>6 DEF Tokens
<1>8. ASSUME NEW s \in Senders, NEW text \in Typed, ReadText(s, text) PROVE Tokens'
  <2>1. InUse' = InUse BY <1>1, <1>4, <1>8 DEF ReadText, Holding, InUse
  <2>2. ~StrayPost' => ~StrayPost BY <1>8 DEF ReadText, StrayPost
  <2>3. pc["sender2"] = "gave_up" => pc'["sender2"] = "gave_up" BY <1>1, <1>8 DEF ReadText
  <2>4. runs' = runs BY <1>8 DEF ReadText
  <2> QED BY <1>1, <1>2, <2>1, <2>2, <2>3, <2>4 DEF Tokens
<1>9. ASSUME NEW s \in Senders, ReadExit(s) PROVE Tokens'
  BY <1>1, <1>3, <1>4, <1>9 DEF ReadExit, Holding, InUse
<1>10. ASSUME NEW s \in Senders, SemWait(s) PROVE Tokens'
  <2>1. Held(s) = 0 /\ Held(s)' = 1 /\ \A r \in Senders \ {s} : Held(r)' = Held(r)
    BY <1>1, <1>10 DEF SemWait, Holding, Held
  <2>2. sem' = sem - 1 BY <1>10 DEF SemWait
  <2>3. InUse' = InUse BY <1>1, <2>1, <2>2 DEF InUse
  <2> QED BY <1>1, <1>3, <1>10, <2>3 DEF SemWait
<1>11. ASSUME NEW s \in Senders, Send(s) PROVE Tokens'
  <2>1. Held("sender1")' = Held("sender1") /\ Held("sender2")' = Held("sender2")
    BY <1>1, <1>11 DEF Send, Holding, Held
  <2> QED BY <1>1, <1>3, <1>11, <2>1 DEF Send, InUse
<1>12. ASSUME NEW s \in Senders, SemPost(s) PROVE Tokens'
  <2>1. Held(s) = 1 /\ Held(s)' = 0 /\ \A r \in Senders \ {s} : Held(r)' = Held(r)
    BY <1>1, <1>12 DEF SemPost, Holding, Held
  <2>2. sem' = sem + 1 BY <1>12 DEF SemPost
  <2>3. InUse' = InUse BY <1>1, <2>1, <2>2 DEF InUse
  <2> QED BY <1>1, <1>3, <1>12, <2>3 DEF SemPost
<1>13. ASSUME NEW s \in Senders, Answered(s) PROVE Tokens'
  <2>1. Held("sender1")' = Held("sender1") /\ Held("sender2")' = Held("sender2")
    BY <1>1, <1>13 DEF Answered, Holding, Held
  <2> QED BY <1>1, <1>3, <1>13, <2>1 DEF Answered, InUse
<1>14. ASSUME Receiver PROVE Tokens'
  <2>1. \A s \in Senders : pc'[s] = pc[s]
    BY <1>1, <1>14 DEF Receiver, ReceiverStarts, ReceiverGivesUp, Receive, Answer
  <2>2. sem' = sem /\ runs' = runs /\ past' = past
    BY <1>14 DEF Receiver, ReceiverStarts, ReceiverGivesUp, Receive, Answer
  <2> QED BY <1>3, <2>1, <2>2 DEF Holding, Held, InUse
<1>15. CASE RunAgain
  <2>1. Held("sender1")' = 0 /\ Held("sender2")' = 0
    BY <1>15 DEF RunAgain, Started, Holding, Held
  <2>2. sem' = sem BY <1>15 DEF RunAgain
  <2>3. InUse' <= InUse BY <1>1, <2>1, <2>2 DEF InUse
  <2>4. InUse' \in Nat BY <1>1, <2>1, <2>2 DEF InUse
  <2>5. runs' = runs + 1 BY <1>15 DEF RunAgain
  <2>6. ~StrayPost' => ~StrayPost BY <1>15 DEF RunAgain, StrayPost
  <2>7. InUse' <= runs' BY <1>1, <1>2, <2>3, <2>4, <2>5 DEF Tokens
  <2>8. InUse' <= runs' + 1 BY <1>1, <2>4, <2>5, <2>7
  <2>9. ~StrayPost' => InUse' <= 1 BY <1>2, <2>3, <2>4, <2>6 DEF Tokens
  <2> QED BY <2>7, <2>8, <2>9 DEF Tokens
<1>16. CASE UNCHANGED vars BY <1>3, <1>16 DEF vars, Holding, Held, InUse
<1> QED BY <1>5, <1>6, <1>7, <1>8, <1>9, <1>10, <1>11, <1>12, <1>13, <1>14, <1>15, <1>16
        DEF Next, Sender1, Sender2, SenderStep

-----------------------------------------------------------------------------
(* The course of an end message                                            *)

\* A step that leaves the queue alone leaves its parts alone.
LEMMA SameQueue ==
    ASSUME queue' = queue
    PROVE  /\ \A t : OfType(t)' = OfType(t)
           /\ \A s : Unread(s)' = Unread(s)
BY DEF OfType, Unread

\* Where a message was before message d was taken out.
Before(k, d) == IF k < d THEN k ELSE k + 1

\* What is left of each type, in its old order.
LEMMA TakenFrom ==
    ASSUME Data, NEW t, OfType(t) # {}, queue' = RemoveAt(queue, Oldest(t))
    PROVE  /\ \A r : \A k \in OfType(r)' :
                 /\ k \in Nat /\ Before(k, Oldest(t)) \in OfType(r) \ {Oldest(t)}
                 /\ queue'[k] = queue[Before(k, Oldest(t))]
           /\ \A j, k \in Nat : Before(j, Oldest(t)) <= Before(k, Oldest(t)) => j <= k
<1>1. /\ Oldest(t) \in 1..Len(queue) /\ Len(queue) \in Nat /\ queue' \in Seq(Messages)
      /\ Len(queue') = Len(queue) - 1
      /\ \A k \in 1..Len(queue) - 1 :
            queue'[k] = IF k < Oldest(t) THEN queue[k] ELSE queue[k + 1]
  BY OldestIsFirst, Taken
<1>2. DOMAIN queue = 1..Len(queue) /\ DOMAIN queue' = 1..Len(queue) - 1
  BY <1>1, LenProperties DEF Data
<1>3. \A k \in 1..Len(queue) - 1 :
         /\ queue'[k] = queue[Before(k, Oldest(t))]
         /\ Before(k, Oldest(t)) \in 1..Len(queue) /\ Before(k, Oldest(t)) # Oldest(t)
  BY <1>1 DEF Before
<1>4. \A r : \A k \in OfType(r)' :
         /\ k \in Nat /\ Before(k, Oldest(t)) \in OfType(r) \ {Oldest(t)}
         /\ queue'[k] = queue[Before(k, Oldest(t))]
  BY <1>2, <1>3 DEF OfType
<1>5. \A j, k \in Nat : Before(j, Oldest(t)) <= Before(k, Oldest(t)) => j <= k
  BY <1>1 DEF Before
<1> QED BY <1>4, <1>5

\* What is new of each type after one more was sent.
LEMMA SentTo ==
    ASSUME Data, NEW m \in Messages, queue' = Append(queue, m)
    PROVE  /\ \A r : \A k \in OfType(r)' :
                 \/ k \in OfType(r) /\ queue'[k] = queue[k]
                 \/ r = m.mtype /\ k = Len(queue) + 1 /\ queue'[k] = m
           /\ \A r : \A k \in OfType(r) : k \in 1..Len(queue)
           /\ Len(queue) \in Nat
<1>1. DOMAIN queue = 1..Len(queue) /\ DOMAIN queue' = 1..Len(queue) + 1
  BY Sent, LenProperties DEF Data
<1>2. \A r : \A k \in OfType(r)' :
         \/ k \in OfType(r) /\ queue'[k] = queue[k]
         \/ r = m.mtype /\ k = Len(queue) + 1 /\ queue'[k] = m
  BY <1>1, Sent DEF OfType
<1>3. \A r : \A k \in OfType(r) : k \in 1..Len(queue) BY <1>1 DEF OfType
<1> QED BY <1>2, <1>3, Sent

\* The steps that leave the queue alone.
LEMMA QuietSteps ==
    ASSUME Control, Course, Clean', queue' = queue,
           \/ Sender1Starts \/ Sender1GivesUp \/ Sender2Starts \/ Sender2GivesUp
           \/ ReceiverStarts \/ ReceiverGivesUp
           \/ \E s \in Senders : \/ \E text \in Typed : ReadText(s, text)
                                 \/ ReadExit(s) \/ SemWait(s) \/ SemPost(s)
           \/ UNCHANGED vars
    PROVE  Course'
<1> USE DEF Control, At, Go, Same, Threads, Senders
<1> DEFINE Kept == Course'
<1> SUFFICES Kept OBVIOUS
<1>0. (\A t : OfType(t)' = OfType(t)) /\ (\A s : Unread(s)' = Unread(s)) BY SameQueue
<1>1. ASSUME pc'["receiver"] = pc["receiver"] \/ pc'["receiver"] \in {"receive", "gave_up"},
             \A s \in Senders :
                /\ Places(s)' /\ (Awaiting(s) => Awaiting(s)')
                /\ (pc[s] \in {"start", "gave_up"} \/ HasAnswer(s))' =>
                      (pc[s] \in {"start", "gave_up"} \/ HasAnswer(s))
      PROVE  Kept
  <2>1. \A s \in Senders : Printed(s)' BY <1>0, <1>1 DEF Course, Printed
  <2>2. \A s \in Senders : Asked(s)' BY <1>0, <1>1 DEF Course, Asked, End
  <2>3. \A s \in Senders : Replied(s)' BY <1>0, <1>1 DEF Course, Replied
  <2>4. \A i \in OfType(1)' : Underway(i)' BY <1>0, <1>1 DEF Course, Underway
  <2> QED BY <1>1, <2>1, <2>2, <2>3, <2>4 DEF Course
<1> HIDE DEF Kept
<1> USE DEF Places, Awaiting, HasAnswer
<1>2. CASE Sender1Starts \/ Sender1GivesUp
  BY <1>1, <1>2 DEF Course, Sender1Starts, Sender1GivesUp
<1>3. CASE Sender2Starts BY <1>1, <1>3 DEF Course, Sender2Starts
<1>4. CASE Sender2GivesUp BY <1>1, <1>4 DEF Course, Sender2GivesUp
<1>5. CASE ReceiverStarts \/ ReceiverGivesUp
  BY <1>1, <1>5 DEF Course, ReceiverStarts, ReceiverGivesUp
<1>6. ASSUME NEW s \in Senders, NEW text \in Typed, ReadText(s, text) PROVE Kept
  <2>1. text = "text" BY <1>6 DEF ReadText, Clean
  <2> QED BY <1>1, <1>6, <2>1 DEF Course, ReadText
<1>7. ASSUME NEW s \in Senders, ReadExit(s) PROVE Kept BY <1>1, <1>7 DEF Course, ReadExit
<1>8. ASSUME NEW s \in Senders, SemWait(s) PROVE Kept BY <1>1, <1>8 DEF Course, SemWait
<1>9. ASSUME NEW s \in Senders, SemPost(s) PROVE Kept BY <1>1, <1>9 DEF Course, SemPost
<1>10. CASE UNCHANGED vars BY <1>1, <1>10 DEF Course, vars
<1> QED BY <1>2, <1>3, <1>4, <1>5, <1>6, <1>7, <1>8, <1>9, <1>10

\* What a sender writes comes last; after its end message it writes nothing.
LEMMA SendKeepsCourse ==
    ASSUME Control, Data, Course, NEW s \in Senders, Send(s)
    PROVE  Course'
<1> DEFINE m == Message(1, s, mtext[s])
<1> USE DEF At, Go, Same, Threads, Senders
<1>1. /\ pc \in [Threads -> SenderPlaces \cup ReceiverPlaces] /\ mtext \in [Senders -> Written]
      /\ pc[s] = "send" /\ queue' = Append(queue, m) /\ mtext' = mtext /\ leaving' = leaving
      /\ pc' = [pc EXCEPT ![s] = IF s = "sender2" /\ s \in leaving THEN "answer" ELSE "post"]
  BY DEF Send, Control
<1>2. m \in Messages /\ m.mtype = 1 /\ m.from = s /\ m.mtext = mtext[s]
  BY <1>1 DEF Message, Messages, Written, Texts
<1> HIDE DEF m
<1>3. /\ \A k \in OfType(1)' : \/ k \in OfType(1) /\ queue'[k] = queue[k]
                               \/ k = Len(queue) + 1 /\ queue'[k] = m
      /\ \A r : r # 1 => \A k \in OfType(r)' : k \in OfType(r)
      /\ \A k \in OfType(1) : k \in 1..Len(queue)
      /\ Len(queue) \in Nat
  <2>1. /\ \A r : \A k \in OfType(r)' :
              \/ k \in OfType(r) /\ queue'[k] = queue[k]
              \/ r = m.mtype /\ k = Len(queue) + 1 /\ queue'[k] = m
        /\ \A r : \A k \in OfType(r) : k \in 1..Len(queue)
        /\ Len(queue) \in Nat
    BY <1>1, <1>2, SentTo
  <2> QED BY <1>2, <2>1
<1>4. \A r \in Senders \ {s} : \A k \in Unread(r)' : k \in Unread(r)
  BY <1>2, <1>3 DEF Unread
<1>5. \A k \in Unread(s)' : k <= Len(queue) + 1 BY <1>3 DEF Unread
<1>6. \A r \in Senders : Reply[r] # 1 BY DEF Reply
<1>7. ~Awaiting(s) /\ ~HasAnswer(s) BY <1>1 DEF Awaiting, HasAnswer
<1>8. /\ mtext[s] = IF s \in leaving THEN End[s] ELSE "text"
      /\ s \in leaving => Awaiting(s)'
      /\ ~HasAnswer(s)' /\ pc'[s] \notin {"start", "gave_up"}
      /\ pc'["receiver"] = pc["receiver"]
      /\ \A r \in Senders \ {s} : /\ pc'[r] = pc[r] /\ Awaiting(r)' = Awaiting(r)
                                  /\ HasAnswer(r)' = HasAnswer(r)
  BY <1>1 DEF Course, Places, Awaiting, HasAnswer
<1>9. OfType(Reply[s]) = {} /\ ~At("receiver", End[s]) BY <1>7 DEF Course, Asked, Replied
<1>10. \A r \in Senders : Places(r)' BY <1>1 DEF Course, Places
<1>11. \A r \in Senders : Printed(r)' BY <1>4, <1>8 DEF Course, Printed
<1>12. \A r \in Senders : OfType(Reply[r]) = {} => OfType(Reply[r])' = {} BY <1>3, <1>6
<1>13. \A r \in Senders : Asked(r)'
  <2>1. Asked(s)' BY <1>8, <1>9 DEF Asked
  <2>2. ASSUME NEW r \in Senders \ {s} PROVE Asked(r)'
    BY <1>4, <1>8, <1>12, <2>2 DEF Asked, Course
  <2> QED BY <2>1, <2>2
<1>14. \A r \in Senders : Replied(r)'
  <2>1. Replied(s)' BY <1>9, <1>12 DEF Replied
  <2>2. ASSUME NEW r \in Senders \ {s} PROVE Replied(r)'
    BY <1>3, <1>4, <1>6, <1>8, <2>2 DEF Replied, Course
  <2> QED BY <2>1, <2>2
<1>15. ASSUME NEW i \in OfType(1)' PROVE Underway(i)'
  <2>1. CASE i = Len(queue) + 1 /\ queue'[i] = m
    <3>1. s \in leaving \/ mtext[s] # End[s] BY <1>8 DEF End
    <3> QED BY <1>2, <1>5, <1>8, <1>9, <1>12, <2>1, <3>1 DEF Underway
  <2>2. CASE i \in OfType(1) /\ queue'[i] = queue[i]
    <3>1. Underway(i) BY <2>2 DEF Course
    <3>2. CASE queue[i].from = s BY <1>7, <2>2, <3>1, <3>2 DEF Underway
    <3>3. CASE queue[i].from # s BY <1>4, <1>8, <1>12, <2>2, <3>1, <3>3 DEF Underway
    <3> QED BY <3>2, <3>3
  <2> QED BY <1>3, <2>1, <2>2
<1> QED BY <1>10, <1>11, <1>13, <1>14, <1>15 DEF Course

\* A sender takes its answer: nothing of it is left in the queue.
LEMMA AnsweredKeepsCourse ==
    ASSUME Control, Data, Course, NEW s \in Senders, Answered(s)
    PROVE  Course'
<1> DEFINE d == Oldest(Reply[s])
<1> USE DEF At, Go, Same, Threads, Senders
<1>1. /\ pc \in [Threads -> SenderPlaces \cup ReceiverPlaces]
      /\ pc[s] = "answer" /\ OfType(Reply[s]) # {} /\ queue' = RemoveAt(queue, d)
      /\ mtext' = mtext /\ leaving' = leaving
      /\ pc' = [pc EXCEPT ![s] = IF s = "sender1" THEN "done" ELSE "post"]
  BY DEF Answered, Control
<1>2. /\ d \in OfType(Reply[s])
      /\ \A r : \A k \in OfType(r)' :
            /\ k \in Nat /\ Before(k, d) \in OfType(r) \ {d} /\ queue'[k] = queue[Before(k, d)]
      /\ \A j, k \in Nat : Before(j, d) <= Before(k, d) => j <= k
  BY <1>1, OldestIsFirst, TakenFrom
<1> HIDE DEF d
<1>3. \A r \in Senders : \A k \in Unread(r)' : Before(k, d) \in Unread(r) /\ k \in Nat
  BY <1>2 DEF Unread
<1>4. Unread(s) = {} /\ \A i \in OfType(Reply[s]) : i = d BY <1>2 DEF Course, Replied
<1>5. OfType(Reply[s])' = {} /\ Unread(s)' = {} BY <1>2, <1>3, <1>4
<1>6. \A r \in Senders : Places(r)' BY <1>1 DEF Course, Places
<1>7. /\ pc'["receiver"] = pc["receiver"] /\ ~At("receiver", End[s])
      /\ \A r \in Senders \ {s} : /\ pc'[r] = pc[r] /\ Awaiting(r)' = Awaiting(r)
                                  /\ HasAnswer(r)' = HasAnswer(r)
  BY <1>1 DEF Course, Asked, Awaiting, HasAnswer
<1>8. \A r \in Senders : Printed(r)' BY <1>3, <1>5, <1>7 DEF Course, Printed
<1>9. \A r \in Senders : OfType(Reply[r]) = {} => OfType(Reply[r])' = {} BY <1>2
<1>10. ASSUME NEW r \in Senders PROVE Asked(r)' BY <1>3, <1>7, <1>9 DEF Asked, Course
<1>11. ASSUME NEW r \in Senders PROVE Replied(r)'
  <2>1. CASE r = s BY <1>5, <2>1 DEF Replied
  <2>2. CASE r # s
    <3>1. ASSUME NEW i \in OfType(Reply[r])' PROVE Awaiting(r)' /\ Unread(r)' = {}
      BY <1>2, <1>3, <1>7, <2>2 DEF Course, Replied
    <3>2. ASSUME NEW i \in OfType(Reply[r])', NEW j \in OfType(Reply[r])' PROVE i = j
      <4>1. i \in Nat /\ j \in Nat /\ Before(i, d) = Before(j, d) /\ Before(i, d) \in Nat
        BY <1>2 DEF Course, Replied, Before
      <4> QED BY <1>2, <4>1
    <3> QED BY <3>1, <3>2 DEF Replied
  <2> QED BY <2>1, <2>2
<1>12. ASSUME NEW i \in OfType(1)' PROVE Underway(i)'
  <2>1. /\ Underway(Before(i, d)) /\ queue'[i] = queue[Before(i, d)]
        /\ Before(i, d) \in OfType(1) /\ i \in Nat
    BY <1>2 DEF Course
  <2>2. PICK r \in Senders \ {s} : r = queue[Before(i, d)].from
    BY <1>4, <2>1 DEF Unread, Underway
  <2>3. \A j \in Unread(r)' : Before(j, d) <= Before(i, d) => j <= i BY <1>2, <1>3, <2>1
  <2>4. queue'[i].mtext = End[r] => \A j \in Unread(r)' : j <= i
    BY <1>3, <2>1, <2>2, <2>3 DEF Underway
  <2>5. queue'[i].mtext = End[r] => Awaiting(r)' /\ OfType(Reply[r])' = {}
    BY <1>7, <1>9, <2>1, <2>2 DEF Underway
  <2> QED BY <2>1, <2>2, <2>4, <2>5 DEF Underway
<1> QED BY <1>6, <1>8, <1>10, <1>11, <1>12 DEF Course

\* The receiver takes a message: an end message is the last of its sender.
LEMMA ReceiveKeepsCourse ==
    ASSUME Control, Data, Course, Receive
    PROVE  Course'
<1> DEFINE d == Oldest(1)
<1> USE DEF At, Go, Same, Threads, Senders
<1>1. /\ pc \in [Threads -> SenderPlaces \cup ReceiverPlaces]
      /\ pc["receiver"] = "receive" /\ OfType(1) # {} /\ queue' = RemoveAt(queue, d)
      /\ mtext' = mtext /\ leaving' = leaving
      /\ pc' = [pc EXCEPT !["receiver"] =
                   IF queue[d].mtext = "text" THEN "receive" ELSE queue[d].mtext]
  BY DEF Receive, Control
<1>2. /\ d \in OfType(1) /\ \A j \in OfType(1) : d <= j
      /\ \A r : \A k \in OfType(r)' :
            /\ k \in Nat /\ Before(k, d) \in OfType(r) \ {d} /\ queue'[k] = queue[Before(k, d)]
      /\ \A j, k \in Nat : Before(j, d) <= Before(k, d) => j <= k
  BY <1>1, OldestIsFirst, TakenFrom
<1>3. OfType(1) \subseteq Nat
  <2>1. DOMAIN queue = 1..Len(queue) /\ Len(queue) \in Nat BY LenProperties DEF Data
  <2> QED BY <2>1 DEF OfType
<1>4. PICK f \in Senders : f = queue[d].from BY <1>2 DEF Course, Underway
<1>5. /\ Underway(d) /\ queue[d].mtext \in {"text", End[f]}
      /\ queue[d].mtext = End[f] =>
            Awaiting(f) /\ OfType(Reply[f]) = {} /\ \A j \in Unread(f) : j <= d
  BY <1>2, <1>4 DEF Course, Underway
<1> HIDE DEF d
<1>6. \A r \in Senders : \A k \in Unread(r)' :
         Before(k, d) \in Unread(r) /\ Before(k, d) # d /\ k \in Nat
  BY <1>2 DEF Unread
<1>7. queue[d].mtext = End[f] => Unread(f)' = {}
  <2>1. Unread(f) \subseteq OfType(1) BY DEF Unread
  <2>2. ASSUME queue[d].mtext = End[f], NEW j \in Unread(f) PROVE j = d
    BY <1>2, <1>3, <1>5, <2>1, <2>2
  <2> QED BY <1>6, <2>2
<1>8. \A r \in Senders : OfType(Reply[r]) = {} => OfType(Reply[r])' = {} BY <1>2
<1>9. \A r \in Senders : /\ pc'[r] = pc[r] /\ Awaiting(r)' = Awaiting(r)
                         /\ HasAnswer(r)' = HasAnswer(r)
  BY <1>1 DEF Awaiting, HasAnswer
<1>10. \A r \in Senders : pc'["receiver"] = End[r] => r = f /\ queue[d].mtext = End[f]
  BY <1>1, <1>5 DEF End
<1>11. \A r \in Senders : Places(r)' BY <1>1, <1>9 DEF Course, Places
<1>12. \A r \in Senders : Printed(r)' BY <1>6, <1>9 DEF Course, Printed
<1>13. \A r \in Senders : Asked(r)' BY <1>5, <1>7, <1>8, <1>9, <1>10 DEF Asked
<1>14. ASSUME NEW r \in Senders PROVE Replied(r)'
  <2>1. ASSUME NEW i \in OfType(Reply[r])' PROVE Awaiting(r)' /\ Unread(r)' = {}
    BY <1>2, <1>6, <1>9 DEF Course, Replied
  <2>2. ASSUME NEW i \in OfType(Reply[r])', NEW j \in OfType(Reply[r])' PROVE i = j
    <3>1. Before(i, d) = Before(j, d) /\ i \in Nat /\ j \in Nat
      BY <1>2 DEF Course, Replied
    <3>2. d \in Nat BY <1>2, <1>3
    <3> QED BY <3>1, <3>2 DEF Before
  <2> QED BY <2>1, <2>2 DEF Replied
<1>15. ASSUME NEW i \in OfType(1)' PROVE Underway(i)'
  <2>1. /\ Underway(Before(i, d)) /\ queue'[i] = queue[Before(i, d)]
        /\ Before(i, d) \in OfType(1) /\ i \in Nat
    BY <1>2 DEF Course
  <2>2. PICK r \in Senders : r = queue[Before(i, d)].from BY <2>1 DEF Underway
  <2>3. \A j \in Unread(r)' : Before(j, d) <= Before(i, d) => j <= i BY <1>2, <1>6, <2>1
  <2>4. queue'[i].mtext = End[r] => \A j \in Unread(r)' : j <= i
    BY <1>6, <2>1, <2>2, <2>3 DEF Underway
  <2>5. queue'[i].mtext = End[r] => Awaiting(r)' /\ OfType(Reply[r])' = {}
    BY <1>8, <1>9, <2>1, <2>2 DEF Underway
  <2> QED BY <2>1, <2>2, <2>4, <2>5 DEF Underway
<1> QED BY <1>11, <1>12, <1>13, <1>14, <1>15 DEF Course

\* The receiver answers the sender whose end message it took.
LEMMA AnswerKeepsCourse ==
    ASSUME Control, Data, Course, NEW s \in Senders, Answer(s)
    PROVE  Course'
<1> DEFINE m == Message(Reply[s], "receiver", "over")
<1> USE DEF At, Go, Same, Threads, Senders
<1>1. /\ pc \in [Threads -> SenderPlaces \cup ReceiverPlaces]
      /\ pc["receiver"] = End[s] /\ queue' = Append(queue, m)
      /\ mtext' = mtext /\ leaving' = leaving
      /\ pc' = [pc EXCEPT !["receiver"] = IF cnt + 1 = 2 THEN "done" ELSE "receive"]
  BY DEF Answer, Control
<1>2. m \in Messages /\ m.mtype = Reply[s] /\ Reply[s] # 1
  BY DEF Message, Messages, Reply, Texts
<1> HIDE DEF m
<1>3. /\ \A r : \A k \in OfType(r)' :
            \/ k \in OfType(r) /\ queue'[k] = queue[k]
            \/ r = m.mtype /\ k = Len(queue) + 1 /\ queue'[k] = m
      /\ \A r : \A k \in OfType(r) : k \in 1..Len(queue)
      /\ Len(queue) \in Nat
  BY <1>1, <1>2, SentTo
<1>4. \A k \in OfType(1)' : k \in OfType(1) /\ queue'[k] = queue[k] BY <1>2, <1>3
<1>5. \A r \in Senders : \A k \in Unread(r)' : k \in Unread(r) BY <1>4 DEF Unread
<1>6. Awaiting(s) /\ Unread(s) = {} /\ OfType(Reply[s]) = {}
  BY <1>1 DEF Course, Asked
<1>7. \A r \in Senders : /\ pc'[r] = pc[r] /\ Awaiting(r)' = Awaiting(r)
                         /\ HasAnswer(r)' = HasAnswer(r)
  BY <1>1 DEF Awaiting, HasAnswer
<1>8. \A r \in Senders : pc'["receiver"] # End[r] BY <1>1 DEF End
<1>9. \A r \in Senders \ {s} : \A k \in OfType(Reply[r])' : k \in OfType(Reply[r])
  <2>1. \A r \in Senders \ {s} : Reply[r] # Reply[s] BY DEF Reply
  <2> QED BY <1>2, <1>3, <2>1
<1>10. \A r \in Senders : Places(r)' BY <1>1, <1>7 DEF Course, Places
<1>11. \A r \in Senders : Printed(r)' BY <1>5, <1>7 DEF Course, Printed
<1>12. \A r \in Senders : Asked(r)' BY <1>8 DEF Asked
<1>13. ASSUME NEW r \in Senders PROVE Replied(r)'
  <2>1. CASE r = s
    <3>1. \A k \in OfType(Reply[s])' : k = Len(queue) + 1 BY <1>3, <1>6
    <3> QED BY <1>5, <1>6, <1>7, <2>1, <3>1 DEF Replied
  <2>2. CASE r # s BY <1>5, <1>7, <1>9, <2>2 DEF Course, Replied
  <2> QED BY <2>1, <2>2
<1>14. ASSUME NEW i \in OfType(1)' PROVE Underway(i)'
  <2>1. Underway(i) /\ queue'[i] = queue[i] /\ i \in OfType(1) BY <1>4 DEF Course
  <2>2. queue[i].from # s BY <1>6, <2>1 DEF Unread
  <2> QED BY <1>5, <1>7, <1>9, <2>1, <2>2 DEF Underway
<1> QED BY <1>10, <1>11, <1>12, <1>13, <1>14 DEF Course

\* A run that ended by itself leaves nothing for the next.
LEMMA NewRunKeepsCourse ==
    ASSUME Control, Data, Course, RunAgain, Clean'
    PROVE  Course'
<1> USE DEF At, Threads, Senders
<1>1. /\ AllReturned /\ queue' = queue /\ leaving' = {}
      /\ \A t \in Threads : pc'[t] = "start"
  BY DEF RunAgain, Clean, Started
<1>2. \A t : OfType(t)' = OfType(t) BY <1>1, SameQueue
<1>3. \A s \in Senders : Unread(s)' = Unread(s) BY <1>1, SameQueue
<1>4. \A s \in Senders : pc[s] \in {"done", "gave_up"} BY <1>1 DEF AllReturned
<1>5. \A s \in Senders : Unread(s) = {} BY <1>4 DEF Course, Places, Printed, HasAnswer
<1>6. \A s \in Senders : OfType(Reply[s]) = {} BY <1>4 DEF Course, Replied, Awaiting
<1>7. OfType(1) = {} BY <1>5 DEF Course, Underway, Unread
<1>8. \A s \in Senders : Places(s)' BY <1>1 DEF Places
<1>9. \A s \in Senders : Printed(s)' BY <1>3, <1>5 DEF Printed
<1>10. \A s \in Senders : Asked(s)' BY <1>1 DEF Asked, End
<1>11. \A s \in Senders : Replied(s)' BY <1>2, <1>6 DEF Replied
<1>12. OfType(1)' = {} BY <1>2, <1>7
<1> QED BY <1>8, <1>9, <1>10, <1>11, <1>12 DEF Course

\* No step loses what went wrong before.
LEMMA PastStays ==
    ASSUME [Next]_vars, Clean'
    PROVE  Clean
<1>1. past \subseteq past'
  BY DEF Next, Sender1, Sender2, Receiver, SenderStep, Sender1Starts, Sender1GivesUp,
         Sender2Starts, Sender2GivesUp, ReadText, ReadExit, SemWait, Send, SemPost, Answered,
         ReceiverStarts, ReceiverGivesUp, Receive, Answer, RunAgain, Same, vars
<1> QED BY <1>1 DEF Clean

-----------------------------------------------------------------------------
(* The theorems                                                            *)

\* The first run.
LEMMA FirstRun == Init => QueueInv
<1> SUFFICES ASSUME Init PROVE QueueInv OBVIOUS
<1> USE MessageQueueAssumption DEF Init, Threads, Senders, Started
<1>1. queue = <<>> /\ OfType(1) = {} /\ \A t : OfType(t) = {} BY DEF OfType
<1>2. \A s : Unread(s) = {} BY <1>1 DEF Unread
<1>3. Control BY DEF Control, SenderPlaces, ReceiverPlaces, Written
<1>4. Data
  <2>1. queue \in Seq(Messages) /\ Len(queue) = 0 BY <1>1
  <2>2. exists \in BOOLEAN OBVIOUS
  <2> QED BY <1>1, <2>1, <2>2 DEF Data
<1>5. Tokens
  <2>1. Held("sender1") = 0 /\ Held("sender2") = 0 BY DEF Held, Holding
  <2> QED BY <2>1 DEF Tokens, InUse
<1>6. \A s \in Senders : Places(s) BY DEF Places
<1>7. \A s \in Senders : Asked(s) BY DEF Asked, At, End
<1>8. \A s \in Senders : Printed(s) /\ Replied(s) BY <1>1, <1>2 DEF Printed, Replied
<1>9. Course BY <1>1, <1>6, <1>7, <1>8 DEF Course
<1> QED BY <1>3, <1>4, <1>5, <1>9 DEF QueueInv

\* Every step of the program, and a new run, keeps all of it.
LEMMA Keeps ==
    ASSUME QueueInv, [Next]_vars
    PROVE  QueueInv'
<1> USE DEF QueueInv
<1>1. Control' /\ Data' /\ Tokens' BY KeepsControl, KeepsData, KeepsTokens
<1>2. ASSUME Clean' PROVE Course'
  <2>1. Course BY <1>2, PastStays
  <2>2. ASSUME NEW s \in Senders, Send(s) PROVE Course' BY <2>1, <2>2, SendKeepsCourse
  <2>3. ASSUME NEW s \in Senders, Answered(s) PROVE Course'
    BY <2>1, <2>3, AnsweredKeepsCourse
  <2>4. CASE Receive BY <2>1, <2>4, ReceiveKeepsCourse
  <2>5. ASSUME NEW s \in Senders, Answer(s) PROVE Course' BY <2>1, <2>5, AnswerKeepsCourse
  <2>6. CASE RunAgain BY <1>2, <2>1, <2>6, NewRunKeepsCourse
  <2>7. ASSUME \/ Sender1Starts \/ Sender1GivesUp \/ Sender2Starts \/ Sender2GivesUp
               \/ ReceiverStarts \/ ReceiverGivesUp
               \/ \E s \in Senders : \/ \E text \in Typed : ReadText(s, text)
                                     \/ ReadExit(s) \/ SemWait(s) \/ SemPost(s)
               \/ UNCHANGED vars
        PROVE  Course'
    <3>1. queue' = queue
      BY <2>7 DEF Sender1Starts, Sender1GivesUp, Sender2Starts, Sender2GivesUp,
             ReceiverStarts, ReceiverGivesUp, ReadText, ReadExit, SemWait, SemPost, vars
    <3> QED BY <1>2, <2>1, <2>7, <3>1, QuietSteps
  <2> HIDE DEF QueueInv
  <2> QED BY <2>2, <2>3, <2>4, <2>5, <2>6, <2>7
          DEF Next, Sender1, Sender2, Receiver, SenderStep, Senders
<1> QED BY <1>1, <1>2

\* The invariant of the whole program.
THEOREM QueueInvariant == Spec => []QueueInv
BY FirstRun, Keeps, PTL DEF Spec

\* The semaphore keeps the senders' calls apart in every run, and it counts no
\* more than one post for each run, unless sender2 came before the queue.
THEOREM SendersAreKeptApart == Spec => []SendersExclude
<1>1. ASSUME QueueInv PROVE SendersExclude
  <2> USE MessageQueueAssumption, <1>1 DEF QueueInv
  <2>1. Held("sender1") \in 0..1 /\ Held("sender2") \in 0..1 BY DEF Held
  <2>2. sem \in 0..1 + MaxRuns BY <2>1 DEF Data, Tokens, InUse
  <2>3. queue \in Seq([mtype : 1..3, from : Threads, mtext : Texts])
    BY DEF Data, Messages
  <2>4. pc \in [Threads -> {"start", "read", "wait", "send", "post", "answer",
                            "receive", "end1", "end2", "done", "gave_up"}]
    BY DEF Control, SenderPlaces, ReceiverPlaces
  <2>5. TypeOK BY <2>2, <2>3, <2>4 DEF TypeOK, Data, Control
  <2>6. ASSUME "gave_up" \notin past PROVE Cardinality({s \in Senders : Holding(s)}) <= 1
    <3>1. ~(Holding("sender1") /\ Holding("sender2"))
      BY <2>1, <2>6 DEF Data, Tokens, InUse, StrayPost, Held
    <3>2. PICK s \in Senders : {r \in Senders : Holding(r)} \subseteq {s}
      BY <3>1 DEF Senders
    <3>3. IsFiniteSet({s}) /\ Cardinality({s}) = 1 BY FS_Singleton
    <3>4. Cardinality({r \in Senders : Holding(r)}) <= Cardinality({s})
      BY <3>2, <3>3, FS_Subset
    <3> QED BY <3>3, <3>4
  <2> QED BY <2>5, <2>6 DEF SendersExclude
<1> QED BY <1>1, QueueInvariant, PTL

\* A sender that has returned has had all it sent printed, in this run and in
\* those before it.
THEOREM AnswersMeanPrinted == Spec => []AnsweredMeansPrinted
<1>1. ASSUME QueueInv PROVE AnsweredMeansPrinted
  <2> SUFFICES ASSUME NEW s \in Senders, At(s, "done"), Clean, NEW i \in OfType(1)
               PROVE  queue[i].from # s
    BY DEF AnsweredMeansPrinted, Clean
  <2>1. Places(s) /\ Printed(s) BY <1>1 DEF QueueInv, Course
  <2>2. Unread(s) = {} BY <2>1 DEF Places, Printed, HasAnswer, At
  <2> QED BY <2>2 DEF Unread
<1> QED BY <1>1, QueueInvariant, PTL

=============================================================================
