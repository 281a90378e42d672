------------------------------ MODULE PipeProofs ------------------------------
(***************************************************************************)
(* For every size of the pipe, of child2's text and of what child3 writes, *)
(* and for every number of runs: the sizes the parent prints, who writes   *)
(* without blocking, and what a run leaves in the semaphores.              *)
(*                                                                         *)
(* While no run began with a stale semaphore, the three semaphores make    *)
(* the four processes take turns.  The invariant says whose turn it is:    *)
(* the value of each semaphore follows from where the processes are        *)
(* (Tokens), and so do the bytes in the pipe (Bytes).                      *)
(***************************************************************************)
EXTENDS PipeIPC, TLAPS

-----------------------------------------------------------------------------
(* The invariant                                                           *)

Semaphores == {"write1_mutex", "write2_mutex", "read_mutex"}

Places == {"start", "fill", "full", "write", "post", "clear1", "post1", "wait",
           "clear2", "post2", "clear3", "done"}

\* Whether each semaphore has been posted in this run.
LetChild2 == pc["parent"] \notin {"start", "clear1", "post1"}
LetChild3 == pc["parent"] \in {"clear3", "done"}
Child2Done == pc["child2"] = "done"

\* The types.  A semaphore has been posted at most once a run, and in this one
\* only by a process that has got there.
Typed ==
    /\ pipe \in 0..Cap /\ nonblock \in BOOLEAN
    /\ runs \in 1..MaxRuns /\ stale \in BOOLEAN
    /\ pc \in [Processes -> Places]
    /\ pc["child1"] \in {"start", "fill", "full", "done"}
    /\ pc["child2"] \in {"start", "write", "post", "done"}
    /\ pc["child3"] \in {"start", "write", "done"}
    /\ pc["parent"] \in {"start", "clear1", "post1", "wait", "clear2", "post2",
                         "clear3", "done"}
    /\ n \in [1..3 -> Nat]
    /\ left \in 0..Cap + Extra
    /\ pc["child3"] = "start" => left = Cap + Extra
    /\ pc["child3"] = "write" => left > 0
    /\ sem \in [Semaphores -> Nat]
    /\ sem["write1_mutex"] <= IF LetChild2 THEN runs ELSE runs - 1
    /\ sem["write2_mutex"] <= IF LetChild3 THEN runs ELSE runs - 1
    /\ sem["read_mutex"] <= IF Child2Done THEN runs ELSE runs - 1

\* Who has not started yet, who has ended, and which semaphore is up.
Turns ==
    /\ pc["parent"] # "start" => pc["child1"] = "done"
    /\ pc["child2"] # "start" => LetChild2
    /\ pc["parent"] \in {"clear2", "post2", "clear3", "done"} => Child2Done
    /\ pc["child3"] # "start" => LetChild3
    /\ nonblock => pc["child1"] \in {"fill", "full"}
Tokens ==
    /\ sem["write1_mutex"] =
          IF LetChild2 /\ pc["child2"] = "start" THEN 1 ELSE 0
    /\ sem["read_mutex"] =
          IF Child2Done /\ pc["parent"] = "wait" THEN 1 ELSE 0
    /\ sem["write2_mutex"] =
          IF LetChild3 /\ pc["child3"] = "start" THEN 1 ELSE 0

\* What is in the pipe and what the parent has counted.
Bytes ==
    /\ pc["child1"] \in {"start", "fill", "full"} => n[1] = 0
    /\ pc["child1"] = "start" => pipe = 0
    /\ pc["child1"] = "full" => pipe = Cap
    /\ pc["parent"] = "start" /\ pc["child1"] = "done" => pipe = Cap /\ n[1] = 0
    /\ pc["parent"] = "clear1" => n[1] + pipe = Cap
    /\ pc["parent"] \notin {"start", "clear1"} => n[1] = Cap
    /\ pc["parent"] \in {"start", "clear1", "post1", "wait"} => n[2] = 0
    /\ pc["parent"] = "post1" => pipe = 0
    /\ pc["parent"] = "wait" => pipe = IF pc["child2"] \in {"start", "write"} THEN 0 ELSE Hello
    /\ pc["parent"] = "clear2" => n[2] + pipe = Hello
    /\ pc["parent"] = "post2" => pipe = 0
    /\ pc["parent"] \in {"post2", "clear3", "done"} => n[2] = Hello

PipeInv == Typed /\ (~stale => Turns /\ Tokens /\ Bytes)

-----------------------------------------------------------------------------
(* It is inductive                                                         *)

\* At the start nothing is in the pipe and every semaphore is at zero.
LEMMA StartsSo == Init => PipeInv
<1> SUFFICES ASSUME Init PROVE PipeInv OBVIOUS
<1> USE PipeAssumption DEF Init, Fresh, Semaphores, LetChild2, LetChild3, Child2Done,
        Processes, Children
<1>1. pc = [p \in Processes |-> "start"] /\ left = Cap + Extra /\ pipe = 0 /\ nonblock = FALSE
  OBVIOUS
<1>2. n = [i \in 1..3 |-> 0] OBVIOUS
<1>3. sem = [s \in Semaphores |-> 0] /\ runs = 1 /\ stale = FALSE OBVIOUS
<1> HIDE DEF Init, Fresh
<1>4. Typed
  <2>1. pc \in [Processes -> Places] /\ \A p \in Processes : pc[p] = "start"
    BY <1>1 DEF Places
  <2>2. n \in [1..3 -> Nat] BY <1>2
  <2>3. sem \in [Semaphores -> Nat] /\ \A s \in Semaphores : sem[s] = 0 BY <1>3
  <2>4. pipe \in 0..Cap /\ left \in 0..Cap + Extra /\ runs \in 1..MaxRuns BY <1>1, <1>3
  <2>5. nonblock \in BOOLEAN /\ stale \in BOOLEAN BY <1>1, <1>3
  <2>6. pc["child3"] = "start" /\ pc["parent"] = "start" /\ pc["child1"] = "start"
        /\ pc["child2"] = "start" BY <2>1
  <2>7. sem["write1_mutex"] = 0 /\ sem["write2_mutex"] = 0 /\ sem["read_mutex"] = 0 BY <2>3
  <2> HIDE DEF Processes, Semaphores
  <2> QED BY <1>1, <1>3, <2>1, <2>2, <2>3, <2>4, <2>5, <2>6, <2>7 DEF Typed
<1>5. Turns /\ Tokens /\ Bytes BY <1>1, <1>2, <1>3 DEF Turns, Tokens, Bytes
<1> QED BY <1>4, <1>5 DEF PipeInv

\* The types.  A semaphore is posted by one process, once a run.
LEMMA KeepsTypes ==
    ASSUME Typed, [Next]_vars
    PROVE  Typed'
<1> USE PipeAssumption DEF Typed, Semaphores, Places, LetChild2, LetChild3, Child2Done,
        Processes, Children, At, Go, Same
<1>1. CASE SetNonblock BY <1>1 DEF SetNonblock
<1>2. CASE Fill BY <1>2 DEF Fill
<1>3. CASE ResetNonblock BY <1>3 DEF ResetNonblock
<1>4. CASE Child2Starts BY <1>4 DEF Child2Starts, Wait
<1>5. CASE WriteHello BY <1>5 DEF WriteHello
<1>6. CASE Child2Ends BY <1>6 DEF Child2Ends, Post
<1>7. CASE Child3Starts BY <1>7 DEF Child3Starts, Wait
<1>8. CASE WriteByte BY <1>8 DEF WriteByte
<1>9. CASE WaitForChild BY <1>9 DEF WaitForChild
<1>10. CASE LetChild2Write BY <1>10 DEF LetChild2Write, Post
<1>11. CASE AwaitChild2 BY <1>11 DEF AwaitChild2, Wait
<1>12. CASE LetChild3Write BY <1>12 DEF LetChild3Write, Post
<1>13. ASSUME NEW i \in 1..3, Clear(i) PROVE Typed'
  BY <1>13 DEF Clear, MaxCount
<1>14. CASE RunAgain BY <1>14 DEF RunAgain, Fresh
<1>15. CASE UNCHANGED vars BY <1>15 DEF vars
<1> QED BY <1>1, <1>2, <1>3, <1>4, <1>5, <1>6, <1>7, <1>8, <1>9, <1>10, <1>11, <1>12,
           <1>13, <1>14, <1>15 DEF Next, Child1, Child2, Child3, Parent

\* Whose turn it is, the semaphores and the bytes, in a run that began with the
\* semaphores at zero.
LEMMA KeepsTurns ==
    ASSUME Typed, Turns, Tokens, Bytes, ~stale, ~stale', [Next]_vars
    PROVE  Turns' /\ Tokens' /\ Bytes'
<1> DEFINE Kept == Turns' /\ Tokens' /\ Bytes'
<1> USE PipeAssumption DEF Semaphores, LetChild2, LetChild3, Child2Done, Processes,
        Children, At, Go, Same
<1> SUFFICES Kept OBVIOUS
<1> HIDE DEF Kept
<1>1. CASE SetNonblock
  BY <1>1 DEF SetNonblock, Kept, Typed, Turns, Tokens, Bytes
<1>2. CASE Fill
  BY <1>2 DEF Fill, Kept, Typed, Turns, Tokens, Bytes
<1>3. CASE ResetNonblock
  BY <1>3 DEF ResetNonblock, Kept, Typed, Turns, Tokens, Bytes
<1>4. CASE Child2Starts
  BY <1>4 DEF Child2Starts, Wait, Kept, Typed, Turns, Tokens, Bytes
<1>5. CASE WriteHello
  BY <1>5 DEF WriteHello, Kept, Typed, Turns, Tokens, Bytes
<1>6. CASE Child2Ends
  BY <1>6 DEF Child2Ends, Post, Kept, Typed, Turns, Tokens, Bytes
<1>7. CASE Child3Starts
  BY <1>7 DEF Child3Starts, Wait, Kept, Typed, Turns, Tokens, Bytes
<1>8. CASE WriteByte
  BY <1>8 DEF WriteByte, Kept, Typed, Turns, Tokens, Bytes
<1>9. CASE WaitForChild
  BY <1>9 DEF WaitForChild, Kept, Typed, Turns, Tokens, Bytes
<1>10. CASE LetChild2Write
  BY <1>10 DEF LetChild2Write, Post, Kept, Typed, Turns, Tokens, Bytes
<1>11. CASE AwaitChild2
  BY <1>11 DEF AwaitChild2, Wait, Kept, Typed, Turns, Tokens, Bytes
<1>12. CASE LetChild3Write
  BY <1>12 DEF LetChild3Write, Post, Kept, Typed, Turns, Tokens, Bytes
<1>13. ASSUME NEW i \in 1..3, Clear(i) PROVE Kept
  BY <1>13 DEF Clear, MaxCount, Kept, Typed, Turns, Tokens, Bytes
<1>14. CASE RunAgain
  <2>1. \A s \in Semaphores : sem'[s] = 0
    <3>1. ~\E s \in DOMAIN sem : sem[s] > 0 BY <1>14, Zenon DEF RunAgain
    <3>2. sem \in [Semaphores -> Nat] /\ sem' = sem BY <1>14 DEF RunAgain, Typed
    <3> HIDE DEF Semaphores
    <3> QED BY <3>1, <3>2
  <2>2. pc' = [p \in Processes |-> "start"] /\ pipe' = 0 /\ ~nonblock'
    BY <1>14 DEF RunAgain, Fresh
  <2>3. n' = [i \in 1..3 |-> 0] BY <1>14 DEF RunAgain, Fresh
  <2> QED BY <2>1, <2>2, <2>3 DEF Kept, Turns, Tokens, Bytes
<1>15. CASE UNCHANGED vars BY <1>15 DEF vars, Kept, Turns, Tokens, Bytes
<1> QED BY <1>1, <1>2, <1>3, <1>4, <1>5, <1>6, <1>7, <1>8, <1>9, <1>10, <1>11, <1>12,
           <1>13, <1>14, <1>15 DEF Next, Child1, Child2, Child3, Parent

\* So it holds in every reachable state.
THEOREM PipeInvariant == Spec => []PipeInv
<1>1. Init => PipeInv BY StartsSo
<1>2. PipeInv /\ [Next]_vars => PipeInv'
  <2> SUFFICES ASSUME PipeInv, [Next]_vars PROVE PipeInv' OBVIOUS
  <2>1. Typed' BY KeepsTypes DEF PipeInv
  <2>2. ~stale' => ~stale
    BY DEF PipeInv, Typed, Next, Child1, Child2, Child3, Parent, RunAgain, vars, Same,
           SetNonblock, Fill, ResetNonblock, Child2Starts, WriteHello, Child2Ends,
           Child3Starts, WriteByte, WaitForChild, LetChild2Write, AwaitChild2,
           LetChild3Write, Clear
  <2>3. ~stale' => Turns' /\ Tokens' /\ Bytes' BY <2>2, KeepsTurns DEF PipeInv
  <2> QED BY <2>1, <2>3 DEF PipeInv
<1> QED BY <1>1, <1>2, PTL DEF Spec

-----------------------------------------------------------------------------
(* What follows                                                            *)

\* The parent prints the capacity of the pipe and the length of child2's text,
\* in every run that did not begin with a stale semaphore.
THEOREM SizesAreRight == Spec => []CountsAreRight
<1>1. PipeInv => CountsAreRight BY DEF PipeInv, Bytes, CountsAreRight, At
<1> QED BY <1>1, PipeInvariant, PTL

\* While O_NONBLOCK is set no other process has begun to write.
THEOREM OnlyChild1WritesNonblocking == Spec => []OnlyChild1Nonblocking
<1>1. PipeInv => OnlyChild1Nonblocking
  BY DEF PipeInv, Turns, LetChild2, LetChild3, OnlyChild1Nonblocking, At
<1> QED BY <1>1, PipeInvariant, PTL

\* The values stay in their types, the pipe in its capacity; and a run that ends
\* by itself takes back every post, so that the next one is not stale either.
THEOREM SemaphoresAreTakenBack == Spec => []SemaphoresComeBack
<1>1. ASSUME PipeInv PROVE TypeOK
  <2>1. DOMAIN sem = Semaphores /\ DOMAIN pc = Processes BY <1>1 DEF PipeInv, Typed
  <2>2. \A s \in Semaphores : sem[s] \in 0..MaxRuns
    BY <1>1, PipeAssumption DEF PipeInv, Typed, Semaphores
  <2> QED BY <1>1, <2>1, <2>2 DEF PipeInv, Typed, TypeOK
<1>2. ASSUME PipeInv, ~stale, \A p \in Processes : At(p, "done")
      PROVE  \A s \in DOMAIN sem : sem[s] = 0
  BY <1>2 DEF PipeInv, Typed, Tokens, At, Processes, Children, Semaphores
<1>3. PipeInv => SemaphoresComeBack BY <1>1, <1>2 DEF SemaphoresComeBack
<1> QED BY <1>3, PipeInvariant, PTL
=============================================================================
