---------------------------- MODULE ProgramsProofs ----------------------------
(***************************************************************************)
(* For every script and every set of commands typed, any sizes of the      *)
(* token array and the copies' pieces, and any number of runs of the       *)
(* shared memory program: the shell's place in its input, the exchange of  *)
(* the two processes, what is left behind when the shell reads again, and  *)
(* what the copies make of the files.                                      *)
(***************************************************************************)
EXTENDS Programs, TLAPS, SequenceTheorems, FiniteSetTheorems, WellFoundedInduction

-----------------------------------------------------------------------------
\* A set of naturals that is not empty has a smallest element.
LEMMA SmallestOf ==
    ASSUME NEW T \in SUBSET Nat, T # {}
    PROVE  \E x \in T : \A y \in T : x <= y
<1>1. PICK x \in T : \A y \in T : ~(<<y, x>> \in OpToRel(<, Nat))
  BY NatLessThanWellFounded, WFMin, Zenon
<1>2. \A y \in T : ~(y < x) BY <1>1 DEF OpToRel
<1> QED BY <1>2

-----------------------------------------------------------------------------
(* The shell's place in its input                                          *)

\* What stdin holds.
Lines ==
    /\ Len(script) \in Nat /\ DOMAIN script = 1..Len(script)
    /\ \A k \in DOMAIN script : script[k].tokens \in Nat
    /\ terminal => script \in Seq(Typed)

\* A script is read into the buffer as a whole, and at the end of the buffer the
\* offset stands at the end of the script, unless a command could not be executed.
Place ==
    /\ ShellTypeOK
    /\ pc = "wait" <=> child # "none"
    /\ pc \in {"execute", "wait"} => at \in 1..Len(script)
    /\ terminal => off = 0 /\ re = 0 /\ at = Len(script)
    /\ ~terminal => /\ at = rp /\ re \in {0, Len(script)} /\ (re = 0 => off = 0)
                    /\ off < re => Missing # {}

\* If there is one such command, the offset is moved to behind it, once.
Lone ==
    ~terminal /\ re > 0 => \A k \in Missing : Missing = {k} =>
        /\ off \in {k, re}
        /\ rp < k \/ (rp = k /\ (pc = "execute" \/ child = "ready")) => off = re

ShellInv == Lines /\ Place /\ Lone

\* The steps of the shell and its child.
ShellStep ==
    \/ ReadScript \/ EndOfScript \/ ReadTyped \/ CannotSplit \/ EmptyLine \/ ExitCommand
    \/ Fork \/ ForkFails \/ Return \/ Exec \/ ExecFails \/ EndBySignal
    \/ pc = "wait" /\ (\E s \in {"running", "stopped", "done"} : Become(s))
       /\ child \in {"running", "stopped"}
    \/ UNCHANGED shellVars

\* Every step of the programs is one of them as the shell sees it.
LEMMA ShellSees ==
    ASSUME Place, [Next]_vars
    PROVE  ShellStep
<1> USE DEF ShellStep
<1>1. CASE ShellAlone BY <1>1 DEF ShellAlone
<1>2. CASE TypeCommand BY <1>2 DEF TypeCommand
<1>3. CASE Launch BY <1>3 DEF Launch
<1>4. ASSUME \E s \in {"running", "stopped", "done"} : Become(s), child \in {"running", "stopped"}
      PROVE  ShellStep
  BY <1>4 DEF Place
<1>5. CASE Signalled BY <1>4, <1>5 DEF Signalled, Signal
<1>6. CASE RunCopy BY <1>4, <1>6 DEF RunCopy, Foreground
<1>7. CASE RunInsmod BY <1>4, <1>7 DEF RunInsmod, Foreground
<1>8. CASE RunReceiver BY <1>4, <1>8 DEF RunReceiver, Foreground
<1>9. ASSUME NEW r \in Runs, RunSender(r) PROVE ShellStep BY <1>9 DEF RunSender
<1>10. ASSUME NEW r \in Runs, TypeText(r) PROVE ShellStep BY <1>10 DEF TypeText
<1>11. CASE KilledEarly \/ Killed BY <1>11 DEF KilledEarly, Killed
<1>12. CASE UNCHANGED vars BY <1>12 DEF vars
<1> QED BY <1>1, <1>2, <1>3, <1>5, <1>6, <1>7, <1>8, <1>9, <1>10, <1>11, <1>12 DEF Next

\* Nothing of a script changes; at a terminal one more line is there.
LEMMA KeepsLines ==
    ASSUME Lines, ShellStep
    PROVE  Lines'
<1>1. CASE ReadTyped
  <2>1. PICK c \in Typed : script' = Append(script, c) BY <1>1 DEF ReadTyped
  <2>2. terminal /\ terminal' = terminal /\ script \in Seq(Typed) BY <1>1 DEF ReadTyped, Lines
  <2>3. script' \in Seq(Typed) BY <2>1, <2>2, AppendProperties
  <2>4. Len(script') \in Nat /\ DOMAIN script' = 1..Len(script') BY <2>3, LenProperties
  <2>5. \A k \in DOMAIN script' : script'[k] \in Typed BY <2>3, <2>4, ElementOfSeq
  <2>6. \A k \in DOMAIN script' : script'[k].tokens \in Nat BY <2>5, MyShellAssumption
  <2> QED BY <2>2, <2>3, <2>4, <2>6 DEF Lines
<1>2. ASSUME script' = script, terminal' = terminal PROVE Lines' BY <1>2 DEF Lines
<1>3. CASE ~ReadTyped
  BY <1>2, <1>3 DEF ShellStep, ReadScript, EndOfScript, CannotSplit, EmptyLine, ExitCommand,
     Fork, ForkFails, Return, Exec, ExecFails, EndBySignal, Become, Ended, shellVars
<1> QED BY <1>1, <1>3

\* getline on a script, from the file or from the buffer.
LEMMA ReadsLine ==
    ASSUME ReadScript
    PROVE  /\ pc = "read" /\ ~terminal /\ pc' = "execute"
           /\ UNCHANGED <<script, terminal, child>>
           /\ \/ /\ rp = re /\ off < Len(script) /\ rp' = off + 1 /\ at' = off + 1
                 /\ re' = Len(script) /\ off' = Len(script)
              \/ /\ rp # re /\ rp < Len(script) /\ rp' = rp + 1 /\ at' = rp + 1
                 /\ re' = re /\ off' = off
<1>1. CASE rp = re BY <1>1 DEF ReadScript
<1>2. CASE rp # re BY <1>2 DEF ReadScript
<1> QED BY <1>1, <1>2

\* How many lines there are, and which of them cannot be executed.
LEMMA LineNumbers ==
    ASSUME Lines
    PROVE  /\ Len(script) \in Nat /\ Missing \subseteq 1..Len(script)
           /\ \A k \in 1..Len(script) : script[k].name = "missing" => k \in Missing
BY DEF Lines, Missing

LEMMA KeepsPlace ==
    ASSUME Lines, Place, ShellStep
    PROVE  Place'
<1> USE LineNumbers DEF Place, ShellTypeOK
<1>0. ASSUME script' = script PROVE Missing' = Missing BY <1>0 DEF Missing
<1> DEFINE Kept == Place'
<1> SUFFICES Kept OBVIOUS
<1>1. CASE ReadScript
  <2>1. CASE rp = re BY <1>0, <1>1, <2>1, ReadsLine
  <2>2. CASE rp # re BY <1>0, <1>1, <2>2, ReadsLine
  <2> QED BY <2>1, <2>2
<1>2. CASE ReadTyped
  <2>1. PICK c \in Typed : script' = Append(script, c) BY <1>2 DEF ReadTyped
  <2>2. script \in Seq(Typed) BY <1>2 DEF ReadTyped, Lines
  <2>3. Len(script') = Len(script) + 1 BY <2>1, <2>2, AppendProperties
  <2> QED BY <1>2, <2>3 DEF ReadTyped
<1>3. ASSUME Ended, pc \in {"read", "execute"} PROVE Kept BY <1>0, <1>3 DEF Ended
<1>4. CASE EndOfScript BY <1>3, <1>4 DEF EndOfScript
<1>5. CASE CannotSplit BY <1>3, <1>5 DEF CannotSplit
<1>6. CASE ExitCommand BY <1>3, <1>6 DEF ExitCommand, Parsed
<1>7. CASE EmptyLine BY <1>0, <1>7 DEF EmptyLine, Parsed
<1>8. CASE Fork BY <1>0, <1>8 DEF Fork, Parsed
<1>9. CASE ForkFails BY <1>0, <1>9 DEF ForkFails, Parsed
<1>10. CASE Return BY <1>0, <1>10 DEF Return
<1>11. CASE Exec BY <1>0, <1>11 DEF Exec, Become
<1>12. CASE ExecFails
  <2>1. /\ child = "ready" /\ child' = "done" /\ UNCHANGED <<script, terminal, rp, re, at, pc>>
        /\ script[at].name = "missing"
    BY <1>12 DEF ExecFails, Command
  <2>2. at \in 1..Len(script) BY <2>1
  <2>3. Missing # {} /\ Missing' = Missing BY <1>0, <2>1, <2>2
  <2>4. off' \in 0..off /\ (terminal => off' = off)
    <3>1. CASE terminal \/ off < re - rp BY <1>12, <3>1 DEF ExecFails
    <3>2. CASE ~(terminal \/ off < re - rp)
      <4>1. off' = off - (re - rp) BY <1>12, <3>2 DEF ExecFails
      <4> QED BY <3>2, <4>1
    <3> QED BY <3>1, <3>2
  <2>5. off' \in 0..Len(script) BY <2>4
  <2>6. off' < re' => Missing' # {} BY <2>3
  <2>7. ~terminal => (re = 0 => off' = 0) BY <2>4
  <2> QED BY <2>1, <2>4, <2>5, <2>6, <2>7
<1>13. ASSUME NEW s \in {"running", "stopped", "done"}, Become(s), child \in {"running", "stopped"}
       PROVE  Kept
  BY <1>0, <1>13 DEF Become
<1>14. CASE EndBySignal BY <1>0, <1>14 DEF EndBySignal, Become
<1>15. CASE UNCHANGED shellVars BY <1>0, <1>15 DEF shellVars
<1> QED BY <1>1, <1>2, <1>4, <1>5, <1>6, <1>7, <1>8, <1>9, <1>10, <1>11, <1>12, <1>13, <1>14,
           <1>15 DEF ShellStep

LEMMA KeepsLone ==
    ASSUME Lines, Place, Lone, ShellStep
    PROVE  Lone'
<1> USE LineNumbers DEF Place, ShellTypeOK
<1> SUFFICES ASSUME ~terminal', re' > 0, NEW k \in Missing', Missing' = {k}
             PROVE  /\ off' \in {k, re'}
                    /\ rp' < k \/ (rp' = k /\ (pc' = "execute" \/ child' = "ready")) => off' = re'
  BY DEF Lone
<1> DEFINE Kept == /\ off' \in {k, re'}
                   /\ rp' < k \/ (rp' = k /\ (pc' = "execute" \/ child' = "ready")) => off' = re'
<1> SUFFICES Kept OBVIOUS
<1>1. CASE ReadTyped BY <1>1 DEF ReadTyped
<1>2. ASSUME script' = script, terminal' = terminal
      PROVE  /\ ~terminal /\ k \in Missing /\ Missing = {k} /\ k \in Nat
             /\ re > 0 => /\ off \in {k, re}
                          /\ rp < k \/ (rp = k /\ (pc = "execute" \/ child = "ready")) => off = re
  <2>1. ~terminal /\ k \in Missing /\ Missing = {k} BY <1>2 DEF Missing
  <2> QED BY <2>1 DEF Lone
<1>3. CASE ReadScript
  <2>1. script' = script /\ terminal' = terminal BY <1>3, ReadsLine
  <2>2. CASE rp = re BY <1>2, <1>3, <2>1, <2>2, ReadsLine
  <2>3. CASE rp # re
    <3>1. rp' = rp + 1 /\ re' = re /\ off' = off /\ re > 0 BY <1>3, <2>3, ReadsLine
    <3>2. rp' <= k => off = re BY <1>2, <2>1, <3>1
    <3> QED BY <1>2, <2>1, <3>1, <3>2
  <2> QED BY <2>2, <2>3
<1>4. CASE ExecFails
  <2>1. script' = script /\ terminal' = terminal BY <1>4 DEF ExecFails
  <2>2. at = k BY <1>2, <1>4, <2>1 DEF ExecFails, Command
  <2>3. off = re /\ rp = k BY <1>2, <1>4, <2>1, <2>2 DEF ExecFails
  <2> QED BY <1>2, <1>4, <2>1, <2>2, <2>3 DEF ExecFails
<1>5. ASSUME UNCHANGED <<script, terminal, off, rp, re>>,
             pc' = "execute" => pc = "execute",
             child' = "ready" => pc = "execute" \/ child = "ready"
      PROVE  Kept
  BY <1>2, <1>5
<1>6. CASE ~(ReadTyped \/ ReadScript \/ ExecFails)
  BY <1>5, <1>6 DEF ShellStep, EndOfScript, CannotSplit, EmptyLine, ExitCommand, Fork,
     ForkFails, Return, Exec, EndBySignal, Become, Ended, Parsed, shellVars
<1> QED BY <1>1, <1>3, <1>4, <1>6

\* The invariant of the shell in its surroundings.
LEMMA ShellStarts == Init => ShellInv
<1> SUFFICES ASSUME Init PROVE ShellInv OBVIOUS
<1>1. /\ \/ terminal = FALSE /\ script \in Scripts
         \/ terminal = TRUE /\ script = <<>>
      /\ off = 0 /\ rp = 0 /\ re = 0 /\ at = 0 /\ pc = "read" /\ child = "none"
  BY DEF Init, ShellInit
<1>2. Lines
  <2>1. CASE terminal = FALSE /\ script \in Scripts BY <2>1, MyShellAssumption DEF Lines
  <2>2. CASE terminal = TRUE /\ script = <<>>
    <3>1. script \in Seq(Typed) /\ Len(script) = 0 /\ DOMAIN script = {} BY <2>2
    <3> QED BY <2>2, <3>1 DEF Lines
  <2> QED BY <1>1, <2>1, <2>2
<1>3. terminal => Len(script) = 0 BY <1>1
<1>4. 0 \in 0..Len(script) BY <1>2, LineNumbers
<1>5. ShellTypeOK
  <2>1. terminal \in BOOLEAN BY <1>1
  <2>2. at \in 0..Len(script) /\ off \in 0..Len(script) /\ re \in 0..Len(script) BY <1>1, <1>4
  <2>3. rp \in 0..re BY <1>1
  <2> QED BY <1>1, <2>1, <2>2, <2>3 DEF ShellTypeOK
<1>6. Place BY <1>1, <1>3, <1>5 DEF Place
<1> QED BY <1>1, <1>2, <1>6 DEF ShellInv, Lone

THEOREM ShellInvariant == Spec => []ShellInv
<1>1. ASSUME ShellInv, [Next]_vars PROVE ShellInv'
  BY <1>1, ShellSees, KeepsLines, KeepsPlace, KeepsLone DEF ShellInv
<1> QED BY <1>1, ShellStarts, PTL DEF Spec

\* A script is read line by line; only a command that could not be executed makes
\* the shell go back, and a single one no further than to the line behind it.
THEOREM ShellGoesBackOnlySo == Spec => GoesBackOnlySo
<1>1. ASSUME ShellInv, ShellStep, at' # at
      PROVE  \/ at' = at + 1
             \/ /\ ~terminal /\ \E k \in Missing : k <= at
                /\ \A k \in Missing : Missing = {k} => at' > k
  <2> USE <1>1, LineNumbers DEF ShellInv, Place, ShellTypeOK
  <2>1. CASE ReadTyped BY <2>1 DEF ReadTyped
  <2>2. CASE ReadScript
    <3>1. CASE rp # re \/ re = 0 BY <2>2, <3>1, ReadsLine
    <3>2. CASE rp = re /\ re > 0
      <4>1. at = Len(script) /\ at' = off + 1 /\ off < re /\ ~terminal
        BY <2>2, <3>2, ReadsLine
      <4>2. \A k \in Missing : Missing = {k} => off = k BY <3>2, <4>1 DEF Lone
      <4>3. \E k \in Missing : k <= at BY <4>1
      <4>4. \A k \in Missing : Missing = {k} => at' > k BY <4>1, <4>2
      <4> QED BY <4>1, <4>3, <4>4
    <3>3. rp # re \/ re = 0 \/ (rp = re /\ re > 0) OBVIOUS
    <3> QED BY <3>1, <3>2, <3>3
  <2>3. CASE ~(ReadTyped \/ ReadScript)
    BY <2>3 DEF ShellStep, EndOfScript, CannotSplit, EmptyLine, ExitCommand, Fork,
       ForkFails, Return, Exec, ExecFails, EndBySignal, Become, Ended, shellVars
  <2> QED BY <2>1, <2>2, <2>3
<1>2. ASSUME ShellInv, [Next]_vars
      PROVE  [at' # at =>
                \/ at' = at + 1
                \/ /\ ~terminal /\ \E k \in Missing : k <= at
                   /\ \A k \in Missing : Missing = {k} => at' > k]_shellVars
  BY <1>1, <1>2, ShellSees DEF ShellInv
<1> QED BY <1>2, ShellInvariant, PTL DEF Spec, GoesBackOnlySo

-----------------------------------------------------------------------------
(* The token array                                                         *)

\* The equation of the recursive function in Grown.
Larger(g, m) ==
    IF m < BUFFER_SIZE THEN [bufsize |-> BUFFER_SIZE, ok |-> TRUE]
    ELSE LET size == g[m - 1].bufsize * 2
         IN [bufsize |-> size, ok |-> g[m - 1].ok /\ size <= IntMax]
Growth(g, n) == g = [m \in 0..n |-> Larger(g, m)]

\* It has a solution.
LEMMA GrowthExists == \A n \in Nat : \E g : Growth(g, n)
<1> DEFINE None == {n \in Nat : ~\E g : Growth(g, n)}
<1> SUFFICES ASSUME None # {} PROVE FALSE OBVIOUS
<1>1. PICK n \in None : \A k \in None : n <= k
  <2>1. None \in SUBSET Nat OBVIOUS
  <2> HIDE DEF None
  <2> QED BY <2>1, SmallestOf
<1>2. CASE n = 0
  <2> DEFINE g == [m \in 0..0 |-> [bufsize |-> BUFFER_SIZE, ok |-> TRUE]]
  <2>1. \A m \in 0..0 : Larger(g, m) = [bufsize |-> BUFFER_SIZE, ok |-> TRUE]
    BY MyShellAssumption DEF Larger
  <2>2. Growth(g, 0) BY <2>1 DEF Growth
  <2> QED BY <1>1, <1>2, <2>2
<1>3. CASE n # 0
  <2>1. n - 1 \in Nat /\ n \in Nat /\ n - 1 \notin None BY <1>1, <1>3
  <2>2. PICK h : Growth(h, n - 1) BY <2>1
  <2> DEFINE g == [m \in 0..n |-> IF m < n THEN h[m] ELSE Larger(h, n)]
  <2>3. \A m \in 0..n - 1 : g[m] = h[m] BY <2>1
  <2>4. ASSUME NEW m \in 0..n PROVE Larger(g, m) = Larger(h, m)
    <3>1. CASE m = 0 BY <3>1, MyShellAssumption DEF Larger
    <3>2. CASE m # 0
      <4>1. g[m - 1] = h[m - 1] BY <2>1, <2>3, <3>2
      <4> HIDE DEF g
      <4> QED BY <4>1 DEF Larger
    <3> QED BY <3>1, <3>2
  <2>5. ASSUME NEW m \in 0..n PROVE g[m] = Larger(h, m)
    <3>1. CASE m < n
      <4>1. m \in 0..n - 1 BY <2>1, <3>1
      <4>2. h[m] = Larger(h, m) BY <2>2, <4>1 DEF Growth
      <4> QED BY <3>1, <4>2
    <3>2. CASE m = n BY <3>2
    <3> QED BY <2>1, <3>1, <3>2
  <2>6. g = [m \in 0..n |-> Larger(g, m)]
    <3>1. \A m \in 0..n : g[m] = Larger(g, m) BY <2>4, <2>5
    <3>2. g = [m \in 0..n |-> g[m]] OBVIOUS
    <3> HIDE DEF g
    <3> QED BY <3>1, <3>2
  <2>7. Growth(g, n) BY <2>6 DEF Growth
  <2> QED BY <1>1, <2>7
<1> QED BY <1>2, <1>3

\* So Grown is its last value.
LEMMA GrownIs == ASSUME NEW n \in Nat PROVE \E g : Growth(g, n) /\ Grown(n) = g[n]
<1> DEFINE g == CHOOSE g : Growth(g, n)
<1>1. Growth(g, n) BY GrowthExists
<1>2. Grown(n) = g[n] BY DEF Grown, Growth, Larger
<1> QED BY <1>1, <1>2

\* The array is always longer than its last token's number.
LEMMA RoomForTheLast ==
    ASSUME NEW n \in Nat, NEW g, Growth(g, n)
    PROVE  \A m \in 0..n : g[m].bufsize \in Nat /\ m < g[m].bufsize
<1> DEFINE Bad == {m \in 0..n : ~(g[m].bufsize \in Nat /\ m < g[m].bufsize)}
<1> SUFFICES ASSUME Bad # {} PROVE FALSE OBVIOUS
<1>1. PICK m \in Bad : \A k \in Bad : m <= k
  <2>1. Bad \in SUBSET Nat OBVIOUS
  <2> HIDE DEF Bad
  <2> QED BY <2>1, SmallestOf
<1>2. m \in 0..n /\ g[m] = Larger(g, m) BY <1>1 DEF Growth
<1>3. CASE m < BUFFER_SIZE BY <1>1, <1>2, <1>3, MyShellAssumption DEF Larger
<1>4. CASE ~(m < BUFFER_SIZE)
  <2>1. m - 1 \in 0..n /\ m - 1 < m /\ m \in Nat /\ m > 0 BY <1>2, <1>4, MyShellAssumption
  <2>2. m - 1 \notin Bad BY <1>1, <2>1
  <2>3. g[m - 1].bufsize \in Nat /\ m - 1 < g[m - 1].bufsize BY <2>1, <2>2
  <2>4. g[m].bufsize = g[m - 1].bufsize * 2 BY <1>2, <1>4 DEF Larger
  <2>5. g[m].bufsize \in Nat /\ m < g[m].bufsize
    <3> DEFINE b == g[m - 1].bufsize
    <3> HIDE DEF b
    <3>1. b \in Nat /\ m - 1 < b /\ g[m].bufsize = b * 2 BY <2>3, <2>4 DEF b
    <3> QED BY <2>1, <3>1
  <2> QED BY <1>1, <2>5
<1> QED BY <1>3, <1>4

\* Every token and the NULL behind the last one are stored inside the array, for
\* lines of any length and whatever BUFFER_SIZE is.
THEOREM TokensAlwaysFit == Spec => []TokensFit
<1>1. ASSUME ShellInv PROVE TokensFit
  <2> SUFFICES ASSUME pc \in {"execute", "wait"}, NEW n \in 0..Command.tokens
               PROVE  n < Grown(n).bufsize
    BY DEF TokensFit
  <2>1. Command.tokens \in Nat BY <1>1 DEF ShellInv, Lines, Place, Command
  <2>2. n \in Nat BY <2>1
  <2>3. PICK g : Growth(g, n) /\ Grown(n) = g[n] BY <2>2, GrownIs
  <2> QED BY <2>2, <2>3, RoomForTheLast
<1> QED BY <1>1, ShellInvariant, PTL

-----------------------------------------------------------------------------
(* The shared memory program                                               *)

Halves == Texts \cup {"blank", "over"}
Posted == {"wait", "over1", "over2", "gone"}     \* where a sender has posted
Idle == Gone \cup {"none"}

ShmTypes ==
    /\ spc \in [Runs -> {"get", "scan", "store1", "store2", "post"} \cup Posted \cup Idle]
    /\ rpc \in [Runs -> {"get", "wait", "copy1", "copy2", "post"} \cup Idle]
    /\ posted \in [Runs -> [recv : 0..1, send : 0..1]]
    /\ typed \in [Runs -> Texts \cup {"blank"}] /\ late \subseteq Runs
    /\ shm \in [1..2 -> Halves] /\ buff \in [Runs -> [1..2 -> Halves]]

\* The two semaphores of a run hold what one has posted and the other not taken,
\* which the receiver may have done before a signal ended it.
Exchange(r) ==
    /\ \/ rpc[r] = "killed"
       \/ posted[r].recv = IF spc[r] \in Posted /\ rpc[r] \in {"get", "wait", "failed"}
                           THEN 1 ELSE 0
    /\ spc[r] \notin Posted => posted[r].recv = 0
    /\ posted[r].send = IF spc[r] = "wait" /\ rpc[r] = "gone" THEN 1 ELSE 0
    /\ rpc[r] \in {"copy1", "copy2", "post", "gone"} => spc[r] \in Posted
    /\ spc[r] \in {"over1", "over2", "gone"} => rpc[r] = "gone"
    /\ spc[r] = "none" <=> rpc[r] = "none"

\* Runs are numbered in the order they start in.
Numbered(n) == \A r \in Runs : spc[r] = "none" <=> n < r

\* A receiver that has not returned is the one the shell waits for.
ShellWaits == child \in {"running", "stopped"} /\ Command.name = "shm"
OneReceiver ==
    /\ \A r \in Runs : rpc[r] \notin Idle => r = Current /\ ShellWaits
    /\ ShellWaits => Current \in Runs

\* How far the text of a run has got, if no older sender was about.
Whole(r) ==
    /\ rpc[r] \notin Idle =>
          /\ \A q \in Runs : q # r => spc[q] \in Idle
          /\ spc[r] = "store2" => shm[1] = typed[r]
          /\ spc[r] \in {"post", "wait"} => shm[1] = typed[r] /\ shm[2] = typed[r]
          /\ rpc[r] \in {"copy2", "post"} => buff[r][1] = typed[r]
          /\ rpc[r] = "post" => buff[r][2] = typed[r]
    /\ rpc[r] = "gone" => buff[r][1] = typed[r] /\ buff[r][2] = typed[r]

ShmInv ==
    /\ ShmTypes
    /\ Current \in 0..MaxRuns /\ Numbered(Current)
    /\ \A r \in Runs : Exchange(r)
    /\ OneReceiver
    /\ \A r \in Runs \ late : Whole(r)

SenderStep(r) == SenderGets(r) \/ Scan(r) \/ Store(r) \/ Post(r) \/ SenderWaits(r) \/ Over(r)
ReceiverStep(r) == ReceiverGets(r) \/ ReceiverWaits(r) \/ CopyText(r) \/ Answer(r)

\* Nobody leaves its own code, and the halves of a text are halves.
LEMMA KeepsShmTypes ==
    ASSUME ShmTypes, NEW r \in Runs, SenderStep(r) \/ ReceiverStep(r),
           \A q \in Runs : Exchange(q)
    PROVE  ShmTypes'
<1> USE DEF ShmTypes, Sender, Receiver
<1>1. CASE SenderGets(r) BY <1>1 DEF SenderGets, Gone, Idle
<1>2. CASE Scan(r)
  <2>1. typed' \in [Runs -> Texts \cup {"blank"}] BY <1>2 DEF Scan
  <2> QED BY <1>2, <2>1 DEF Scan
<1>3. CASE Store(r)
  <2>1. shm' \in [1..2 -> Halves] BY <1>3 DEF Store, Halves
  <2> QED BY <1>3, <2>1 DEF Store
<1>4. ASSUME NEW p \in [recv : 0..1, send : 0..1], posted' = [posted EXCEPT ![r] = p]
      PROVE  posted' \in [Runs -> [recv : 0..1, send : 0..1]]
  BY <1>4
<1>5. CASE Post(r)
  <2>1. posted[r].recv = 0 BY <1>5 DEF Post, Exchange, Posted
  <2>2. posted' \in [Runs -> [recv : 0..1, send : 0..1]]
    <3>1. [posted[r] EXCEPT !.recv = @ + 1] \in [recv : 0..1, send : 0..1] BY <2>1
    <3> QED BY <1>4, <1>5, <3>1 DEF Post
  <2> QED BY <1>5, <2>2 DEF Post, Posted
<1>6. CASE SenderWaits(r)
  <2>1. posted' \in [Runs -> [recv : 0..1, send : 0..1]]
    <3>0. posted[r].send = 1 BY <1>6 DEF SenderWaits, Exchange
    <3>1. [posted[r] EXCEPT !.send = @ - 1] \in [recv : 0..1, send : 0..1] BY <3>0
    <3> QED BY <1>4, <1>6, <3>1 DEF SenderWaits
  <2> QED BY <1>6, <2>1 DEF SenderWaits, Posted
<1>7. CASE Over(r)
  <2>1. shm' \in [1..2 -> Halves] BY <1>7 DEF Over, Halves
  <2> QED BY <1>7, <2>1 DEF Over, Posted
<1>8. CASE ReceiverGets(r) BY <1>8 DEF ReceiverGets, Gone, Idle
<1>9. CASE ReceiverWaits(r)
  <2>1. posted' \in [Runs -> [recv : 0..1, send : 0..1]]
    <3>1. [posted[r] EXCEPT !.recv = @ - 1] \in [recv : 0..1, send : 0..1]
      BY <1>9 DEF ReceiverWaits
    <3> QED BY <1>4, <1>9, <3>1 DEF ReceiverWaits
  <2> QED BY <1>9, <2>1 DEF ReceiverWaits
<1>10. CASE CopyText(r)
  <2>1. buff' \in [Runs -> [1..2 -> Halves]]
    <3>1. \A i \in 1..2 : [buff[r] EXCEPT ![i] = shm[i]] \in [1..2 -> Halves] OBVIOUS
    <3>2. \E i \in 1..2 : buff' = [buff EXCEPT ![r] = [buff[r] EXCEPT ![i] = shm[i]]]
      BY <1>10 DEF CopyText
    <3> QED BY <3>1, <3>2
  <2> QED BY <1>10, <2>1 DEF CopyText
<1>11. CASE Answer(r)
  <2>1. posted[r].send = 0 BY <1>11 DEF Answer, Exchange
  <2>2. posted' \in [Runs -> [recv : 0..1, send : 0..1]]
    <3>1. [posted[r] EXCEPT !.send = @ + 1] \in [recv : 0..1, send : 0..1] BY <2>1
    <3> QED BY <1>4, <1>11, <3>1 DEF Answer
  <2> QED BY <1>11, <2>2 DEF Answer, Gone, Idle
<1> QED BY <1>1, <1>2, <1>3, <1>5, <1>6, <1>7, <1>8, <1>9, <1>10, <1>11
        DEF SenderStep, ReceiverStep

\* A run that has started stays so.
LEMMA KeepsNumbers ==
    ASSUME ShmTypes, NEW n \in Nat, Numbered(n),
           NEW r \in Runs, SenderStep(r) \/ ReceiverStep(r)
    PROVE  Numbered(n)'
<1>1. \/ spc' = spc
      \/ spc[r] # "none" /\ \E to : to # "none" /\ spc' = [spc EXCEPT ![r] = to]
  BY DEF SenderStep, ReceiverStep, SenderGets, Scan, Store, Post, SenderWaits, Over,
         ReceiverGets, ReceiverWaits, CopyText, Answer, Sender, Receiver
<1> QED BY <1>1 DEF ShmTypes, Numbered

\* What the processes of a run do to each other.
LEMMA KeepsExchange ==
    ASSUME ShmTypes, \A q \in Runs : Exchange(q),
           NEW r \in Runs, SenderStep(r) \/ ReceiverStep(r)
    PROVE  \A q \in Runs : Exchange(q)'
<1> USE DEF ShmTypes, Sender, Receiver
<1>1. ASSUME NEW q \in Runs, q # r PROVE Exchange(q)'
  <2>1. spc'[q] = spc[q] /\ rpc'[q] = rpc[q]
    BY <1>1 DEF SenderStep, ReceiverStep, SenderGets, Scan, Store, Post, SenderWaits, Over,
         ReceiverGets, ReceiverWaits, CopyText, Answer
  <2>2. posted'[q] = posted[q]
    BY <1>1 DEF SenderStep, ReceiverStep, SenderGets, Scan, Store, Post, SenderWaits, Over,
         ReceiverGets, ReceiverWaits, CopyText, Answer
  <2> QED BY <2>1, <2>2 DEF Exchange
<1>2. Exchange(r)'
  <2> USE DEF Posted, Gone
  <2>1. ASSUME rpc' = rpc, posted' = posted, NEW from, NEW to, Sender(r, from, to),
               from # "none", to # "none",
               \/ from \notin Posted /\ to \notin Posted
               \/ from \in {"over1", "over2"} /\ to \in {"over2", "gone"}
        PROVE  Exchange(r)'
    BY <2>1 DEF Exchange
  <2>2. CASE SenderGets(r) BY <2>1, <2>2 DEF SenderGets
  <2>3. CASE Scan(r) BY <2>1, <2>3 DEF Scan
  <2>4. CASE Store(r) BY <2>1, <2>4 DEF Store
  <2>5. CASE Post(r)
    <3>1. posted'[r].recv = posted[r].recv + 1 /\ posted'[r].send = posted[r].send
      BY <2>5 DEF Post
    <3>2. posted[r].recv = 0 BY <2>5 DEF Post, Exchange
    <3>3. posted'[r].recv = 1 BY <3>1, <3>2
    <3> QED BY <2>5, <3>1, <3>3 DEF Post, Exchange, Idle
  <2>6. CASE SenderWaits(r)
    <3>1. posted'[r].send = posted[r].send - 1 /\ posted'[r].recv = posted[r].recv
      BY <2>6 DEF SenderWaits
    <3>2. posted[r].send = 1 BY <2>6 DEF SenderWaits, Exchange
    <3>3. posted'[r].send = 0 BY <3>1, <3>2
    <3> QED BY <2>6, <3>1, <3>3 DEF SenderWaits, Exchange
  <2>7. CASE Over(r) BY <2>1, <2>7 DEF Over
  <2>8. CASE ReceiverGets(r) BY <2>8 DEF ReceiverGets, Exchange
  <2>9. CASE ReceiverWaits(r)
    <3>1. posted'[r].recv = posted[r].recv - 1 /\ posted'[r].send = posted[r].send
      BY <2>9 DEF ReceiverWaits
    <3>2. posted[r].recv = 1 BY <2>9 DEF ReceiverWaits, Exchange
    <3>3. posted'[r].recv = 0 BY <3>1, <3>2
    <3> QED BY <2>9, <3>1, <3>3 DEF ReceiverWaits, Exchange
  <2>10. CASE CopyText(r) BY <2>10 DEF CopyText, Exchange
  <2>11. CASE Answer(r)
    <3>1. posted'[r].send = posted[r].send + 1 /\ posted'[r].recv = posted[r].recv
      BY <2>11 DEF Answer
    <3>2. posted[r].send = 0 BY <2>11 DEF Answer, Exchange
    <3>3. posted'[r].send = 1 BY <3>1, <3>2
    <3> QED BY <2>11, <3>1, <3>3 DEF Answer, Exchange
  <2> QED BY <2>2, <2>3, <2>4, <2>5, <2>6, <2>7, <2>8, <2>9, <2>10, <2>11
          DEF SenderStep, ReceiverStep
<1> QED BY <1>1, <1>2

\* How many runs have started.
LEMMA CountsRuns ==
    ASSUME NEW n \in 0..MaxRuns, NEW f, \A r \in Runs : f[r] = "none" <=> n < r
    PROVE  Cardinality({r \in Runs : f[r] # "none"}) = n
<1>1. {r \in Runs : f[r] # "none"} = 1..n BY SharedMemoryAssumption DEF Runs
<1>2. Cardinality(1..n) = n BY FS_Interval
<1> QED BY <1>1, <1>2

\* Nothing is yet known of a new run but that it is the last.
LEMMA StartKeepsShm ==
    ASSUME ShmInv, child = "ready", Start(Current + 1), child' = "running", Command.name = "shm",
           Command' = Command
    PROVE  ShmInv'
<1>n. PICK n \in 0..MaxRuns : n = Current BY DEF ShmInv
<1> DEFINE r == n + 1
<1>1. n \in 0..MaxRuns /\ r = n + 1 /\ r \in Runs BY <1>n DEF Start
<1>2. /\ spc[r] = "none" /\ spc' = [spc EXCEPT ![r] = "get"] /\ rpc' = [rpc EXCEPT ![r] = "get"]
      /\ late' = IF \E q \in Runs : spc[q] \notin Idle THEN late \cup {r} ELSE late
      /\ UNCHANGED <<posted, shm, buff, typed>>
  BY <1>n DEF Start, Idle
<1> HIDE DEF r
<1>3. ShmTypes' BY <1>1, <1>2 DEF ShmInv, ShmTypes
<1>4. Numbered(r)' BY <1>n, <1>1, <1>2 DEF ShmInv, ShmTypes, Numbered, Runs
<1>5. Current' = r
  <2>1. r \in 0..MaxRuns BY <1>1, SharedMemoryAssumption DEF Runs
  <2>2. \A q \in Runs : spc'[q] = "none" <=> r < q BY <1>4 DEF Numbered
  <2> QED BY <2>1, <2>2, CountsRuns DEF Current
<1>6. \A q \in Runs : rpc[q] \in Idle BY DEF ShmInv, OneReceiver, ShellWaits
<1>7. \A q \in Runs : q # r => rpc'[q] = rpc[q] /\ spc'[q] = spc[q]
  BY <1>2 DEF ShmInv, ShmTypes
<1>8. rpc'[r] = "get" /\ spc'[r] = "get" BY <1>1, <1>2 DEF ShmInv, ShmTypes
<1>9. OneReceiver' BY <1>1, <1>5, <1>6, <1>7 DEF OneReceiver, ShellWaits
<1>10. \A q \in Runs : Exchange(q)'
  <2>1. Exchange(r)'
    <3>1. Exchange(r) BY <1>1 DEF ShmInv
    <3> QED BY <1>2, <1>8, <3>1 DEF Exchange, Posted
  <2>2. ASSUME NEW q \in Runs, q # r PROVE Exchange(q)'
    <3>1. Exchange(q) BY DEF ShmInv
    <3> QED BY <1>2, <1>7, <2>2, <3>1 DEF Exchange
  <2> QED BY <2>1, <2>2
<1>11. ASSUME NEW q \in Runs \ late' PROVE Whole(q)'
  <2>1. CASE q = r
    <3>1. \A p \in Runs : spc[p] \in Idle BY <1>2, <2>1, <1>11
    <3> QED BY <1>7, <1>8, <2>1, <3>1 DEF Whole
  <2>2. CASE q # r
    <3>1. rpc'[q] \in Idle /\ Whole(q) BY <1>2, <1>6, <1>7, <2>2 DEF ShmInv
    <3> QED BY <1>2, <1>7, <2>2, <3>1 DEF Whole
  <2> QED BY <2>1, <2>2
<1>12. r \in 0..MaxRuns BY <1>1, SharedMemoryAssumption DEF Runs
<1> QED BY <1>3, <1>4, <1>5, <1>9, <1>10, <1>11, <1>12 DEF ShmInv

\* The text of a run gets to its receiver as it was read.
LEMMA KeepsWhole ==
    ASSUME ShmInv, NEW q \in Runs, SenderStep(q) \/ (q = Current /\ ReceiverStep(q)),
           NEW r \in Runs \ late
    PROVE  Whole(r)'
<1> DEFINE Kept == Whole(r)'
<1> SUFFICES Kept OBVIOUS
<1>1. /\ ShmTypes /\ Whole(r) /\ Exchange(r) /\ Exchange(q)
      /\ rpc[r] \notin Idle => r = Current
  BY DEF ShmInv, OneReceiver
<1>2. CASE rpc[r] = "gone"
  <2>1. rpc'[r] = "gone" /\ buff'[r] = buff[r]
    BY <1>1, <1>2 DEF SenderStep, ReceiverStep, SenderGets, Scan, Store, Post, SenderWaits,
       Over, ReceiverGets, ReceiverWaits, CopyText, Answer, Receiver, ShmTypes
  <2>2. spc[r] \in Posted BY <1>1, <1>2 DEF Exchange
  <2>3. typed'[r] = typed[r]
    BY <1>1, <2>2 DEF SenderStep, ReceiverStep, SenderGets, Scan, Store, Post, SenderWaits,
       Over, ReceiverGets, ReceiverWaits, CopyText, Answer, Sender, ShmTypes, Posted
  <2> QED BY <1>1, <1>2, <2>1, <2>3 DEF Whole, Idle, Gone
<1>3. CASE rpc[r] \in {"none", "failed", "killed"}
  <2>1. rpc'[r] = rpc[r]
    BY <1>1, <1>3 DEF SenderStep, ReceiverStep, SenderGets, Scan, Store, Post, SenderWaits,
       Over, ReceiverGets, ReceiverWaits, CopyText, Answer, Receiver, ShmTypes
  <2> QED BY <1>3, <2>1 DEF Whole, Idle, Gone
<1>4. CASE rpc[r] \notin Idle
  <2>1. q = r
    <3>1. ASSUME SenderStep(q) PROVE spc[q] \notin Idle
      BY <3>1 DEF SenderStep, SenderGets, Scan, Store, Post, SenderWaits, Over, Sender, Idle, Gone
    <3> QED BY <1>1, <1>4, <3>1 DEF Whole
  <2>2. /\ \A p \in Runs : p # r => spc[p] \in Idle
        /\ spc[r] = "store2" => shm[1] = typed[r]
        /\ spc[r] \in {"post", "wait"} => shm[1] = typed[r] /\ shm[2] = typed[r]
        /\ rpc[r] \in {"copy2", "post"} => buff[r][1] = typed[r]
        /\ rpc[r] = "post" => buff[r][2] = typed[r]
    BY <1>1, <1>4 DEF Whole
  <2> USE <1>1, <1>4, <2>1, <2>2 DEF ShmTypes, Sender, Receiver, Idle, Gone, Posted
  <2>3. CASE SenderGets(r) BY <2>3 DEF SenderGets, Whole
  <2>4. CASE Scan(r) BY <2>4 DEF Scan, Whole, Exchange
  <2>5. CASE Store(r) BY <2>5 DEF Store, Whole, Exchange
  <2>6. CASE Post(r) BY <2>6 DEF Post, Whole
  <2>7. CASE SenderWaits(r) BY <2>7 DEF SenderWaits, Whole
  <2>8. CASE Over(r) BY <2>8 DEF Over, Exchange
  <2>9. CASE ReceiverGets(r) BY <2>9 DEF ReceiverGets, Whole
  <2>10. CASE ReceiverWaits(r) BY <2>10 DEF ReceiverWaits, Whole
  <2>11. CASE CopyText(r) BY <2>11 DEF CopyText, Whole, Exchange
  <2>12. CASE Answer(r) BY <2>12 DEF Answer, Whole
  <2> QED BY <2>3, <2>4, <2>5, <2>6, <2>7, <2>8, <2>9, <2>10, <2>11, <2>12
          DEF SenderStep, ReceiverStep
<1> QED BY <1>2, <1>3, <1>4 DEF Idle, Gone

\* A step of one of the processes, with all but the shell's part of the invariant.
LEMMA RunKeepsShm ==
    ASSUME ShmInv, NEW q \in Runs, SenderStep(q) \/ (q = Current /\ ReceiverStep(q)),
           OneReceiver'
    PROVE  ShmInv'
<1>1. PICK n \in 0..MaxRuns : n = Current BY DEF ShmInv
<1>2. ShmTypes /\ Numbered(n) /\ n \in Nat /\ \A r \in Runs : Exchange(r)
  BY <1>1, SharedMemoryAssumption DEF ShmInv
<1>3. ShmTypes' /\ \A r \in Runs : Exchange(r)' BY <1>2, KeepsShmTypes, KeepsExchange
<1>4. Numbered(n)' BY <1>2, KeepsNumbers
<1>5. Current' = n BY <1>4, CountsRuns DEF Numbered, Current
<1>6. late' = late
  BY DEF SenderStep, ReceiverStep, SenderGets, Scan, Store, Post, SenderWaits, Over,
         ReceiverGets, ReceiverWaits, CopyText, Answer
<1>7. \A r \in Runs \ late' : Whole(r)' BY <1>6, KeepsWhole
<1> QED BY <1>3, <1>4, <1>5, <1>7 DEF ShmInv

\* A step that leaves the runs alone, while the child is not their receiver.
LEMMA RestKeepsShm ==
    ASSUME ShmInv, UNCHANGED shmVars, OneReceiver'
    PROVE  ShmInv'
<1>1. Current' = Current BY DEF Current, shmVars
<1> QED BY <1>1 DEF ShmInv, ShmTypes, Numbered, Exchange, Whole, shmVars

\* A signal ends the receiver the shell waits for: its run is over, but for the sender.
LEMMA KillKeepsShm ==
    ASSUME ShmInv, NEW q \in Runs, q = Current, KillReceiver(q), child' = "done"
    PROVE  ShmInv'
<1>1. /\ ShmTypes /\ OneReceiver /\ Current \in 0..MaxRuns /\ Numbered(Current)
      /\ \A r \in Runs : Exchange(r) /\ (r \notin late => Whole(r))
  BY DEF ShmInv
<1>2. /\ rpc' = [rpc EXCEPT ![q] = "killed"] /\ rpc[q] \notin Idle
      /\ UNCHANGED <<spc, posted, shm, buff, typed, late>>
  BY DEF KillReceiver, Idle
<1>3. \A r \in Runs : rpc'[r] = IF r = q THEN "killed" ELSE rpc[r] BY <1>1, <1>2 DEF ShmTypes
<1>4. ShmTypes' BY <1>1, <1>2 DEF ShmTypes, Idle, Gone
<1>5. Current' = Current /\ Numbered(Current)' BY <1>1, <1>2 DEF Current, Numbered
<1>6. "killed" \in Idle BY DEF Idle, Gone
<1>7. OneReceiver'
  <2>1. \A r \in Runs : rpc'[r] \in Idle BY <1>1, <1>3, <1>6 DEF OneReceiver
  <2> QED BY <2>1 DEF OneReceiver, ShellWaits
<1>8. ASSUME NEW r \in Runs PROVE Exchange(r)'
  <2>1. CASE r = q BY <1>1, <1>2, <1>3, <2>1 DEF Exchange, Idle, Gone
  <2>2. CASE r # q BY <1>1, <1>2, <1>3, <2>2 DEF Exchange
  <2> QED BY <2>1, <2>2
<1>9. ASSUME NEW r \in Runs, r \notin late' PROVE Whole(r)'
  <2>1. CASE r = q BY <1>3, <1>6, <2>1 DEF Whole
  <2>2. CASE r # q
    <3>1. Whole(r) /\ rpc'[r] = rpc[r] BY <1>1, <1>2, <1>3, <1>9, <2>2
    <3> QED BY <1>2, <3>1 DEF Whole
  <2> QED BY <2>1, <2>2
<1> QED BY <1>1, <1>4, <1>5, <1>7, <1>8, <1>9 DEF ShmInv

\* Every step of the programs.
LEMMA KeepsShm ==
    ASSUME ShellInv, ShmInv, [Next]_vars
    PROVE  ShmInv'
<1>1. Place /\ OneReceiver BY DEF ShellInv, ShmInv
<1>2. ASSUME UNCHANGED shmVars, ~ShellWaits, ~ShellWaits' PROVE ShmInv'
  BY <1>1, <1>2, RestKeepsShm DEF OneReceiver, shmVars
<1>4. CASE ShellAlone
  <2>1. child \notin {"running", "stopped"} /\ child' \notin {"running", "stopped"}
    BY <1>1, <1>4 DEF Ended, ShellAlone, Place, ReadScript, EndOfScript, CannotSplit, EmptyLine,
       ExitCommand, Fork, ForkFails, Return, ExecFails, Parsed
  <2> QED BY <1>2, <1>4, <2>1 DEF ShellAlone, ShellWaits
<1>5. CASE TypeCommand
  <2>1. child \notin {"running", "stopped"} /\ child' = child
    BY <1>1, <1>5 DEF TypeCommand, ReadTyped, Place
  <2> QED BY <1>2, <1>5, <2>1 DEF TypeCommand, ShellWaits
<1>6. CASE Launch
  <2>1. child = "ready" /\ child' = "running" /\ UNCHANGED <<script, at>>
    BY <1>6 DEF Launch, Exec, Become
  <2>2. CASE Command.name # "shm" /\ UNCHANGED shmVars
    BY <1>2, <2>1, <2>2 DEF ShellWaits, Command
  <2>3. CASE Command.name = "shm" /\ Start(Current + 1)
    BY <2>1, <2>3, StartKeepsShm DEF Command
  <2> QED BY <1>6, <2>2, <2>3 DEF Launch
<1>7. CASE Signalled
  <2>1. child' \in {"running", "stopped"} /\ UNCHANGED <<script, at>> /\ UNCHANGED shmVars
    BY <1>7 DEF Signalled, Signal, Become
  <2>2. OneReceiver'
    <3>1. ShellWaits' = ShellWaits BY <1>7, <2>1 DEF ShellWaits, Signalled, Signal, Command
    <3> QED BY <1>1, <2>1, <3>1 DEF OneReceiver, Current, shmVars
  <2> QED BY <2>1, <2>2, RestKeepsShm
<1>8. CASE RunCopy
  <2>1. ~ShellWaits /\ ~ShellWaits' BY <1>8 DEF RunCopy, Foreground, Become, ShellWaits, Command
  <2> QED BY <1>2, <1>8, <2>1 DEF RunCopy
<1>9. CASE RunInsmod
  <2>1. ~ShellWaits /\ ~ShellWaits' BY <1>9 DEF RunInsmod, Foreground, Become, ShellWaits, Command
  <2> QED BY <1>2, <1>9, <2>1 DEF RunInsmod
<1>10. CASE RunReceiver
  <2>1. PICK q : q = Current OBVIOUS
  <2>2. /\ ReceiverStep(q) /\ UNCHANGED <<script, at, spc>> /\ Command.name = "shm"
        /\ child' = IF rpc'[q] \in Gone THEN "done" ELSE "running"
    BY <1>10, <2>1
    DEF RunReceiver, Foreground, Become, ReceiverStep, ReceiverGets, ReceiverWaits, CopyText,
        Answer
  <2>3. q \in Runs BY <1>1, <1>10, <2>1 DEF RunReceiver, Foreground, OneReceiver, ShellWaits
  <2>4. Current' = q BY <2>1, <2>2 DEF Current
  <2>5. \A r \in Runs : r # q => rpc'[r] \in Idle
    <3>1. \A r \in Runs : r # q => rpc'[r] = rpc[r]
      BY <2>2 DEF ReceiverStep, ReceiverGets, ReceiverWaits, CopyText, Answer, Receiver,
         ShmInv, ShmTypes
    <3> QED BY <1>1, <2>1, <3>1 DEF OneReceiver
  <2>6. OneReceiver' BY <2>2, <2>3, <2>4, <2>5 DEF OneReceiver, ShellWaits, Command, Idle
  <2> QED BY <2>1, <2>2, <2>3, <2>6, RunKeepsShm
<1>11. ASSUME NEW q \in Runs, RunSender(q) \/ TypeText(q) PROVE ShmInv'
  <2>1. SenderStep(q) /\ UNCHANGED shellVars
    BY <1>11 DEF RunSender, TypeText, SenderStep
  <2>2. rpc' = rpc
    BY <2>1 DEF SenderStep, SenderGets, Scan, Store, Post, SenderWaits, Over
  <2>3. PICK n \in 0..MaxRuns : n = Current BY DEF ShmInv
  <2>4. Numbered(n)'
    <3>1. ShmTypes /\ Numbered(n) /\ n \in Nat
      BY <2>3, SharedMemoryAssumption DEF ShmInv
    <3> QED BY <2>1, <3>1, KeepsNumbers
  <2>5. Current' = n BY <2>4, CountsRuns DEF Numbered, Current
  <2>6. OneReceiver'
    BY <1>1, <2>1, <2>2, <2>3, <2>5 DEF OneReceiver, ShellWaits, Command, shellVars
  <2> QED BY <2>1, <2>6, RunKeepsShm
<1>13. CASE KilledEarly
  <2>1. ~ShellWaits /\ ~ShellWaits'
    BY <1>13 DEF KilledEarly, EndBySignal, Become, ShellWaits
  <2> QED BY <1>2, <1>13, <2>1 DEF KilledEarly
<1>14. CASE Killed
  <2>1. child \in {"running", "stopped"} /\ child' = "done"
    BY <1>14 DEF Killed, EndBySignal, Become
  <2>2. CASE Command.name # "shm"
    BY <1>2, <1>14, <2>1, <2>2 DEF Killed, ShellWaits
  <2>3. CASE Command.name = "shm"
    <3>1. PICK q : q = Current OBVIOUS
    <3>2. KillReceiver(q) BY <1>14, <2>3, <3>1 DEF Killed
    <3>3. q \in Runs BY <1>1, <2>1, <2>3, <3>1 DEF OneReceiver, ShellWaits
    <3> QED BY <2>1, <3>1, <3>2, <3>3, KillKeepsShm
  <2> QED BY <2>2, <2>3
<1>12. CASE UNCHANGED vars
  <2>1. OneReceiver'
    BY <1>1, <1>12 DEF OneReceiver, ShellWaits, Current, Command, vars, shellVars, shmVars
  <2> QED BY <1>12, <2>1, RestKeepsShm DEF vars
<1> QED BY <1>4, <1>5, <1>6, <1>7, <1>8, <1>9, <1>10, <1>11, <1>12, <1>13, <1>14 DEF Next

LEMMA ShmStarts == Init => ShmInv
<1> SUFFICES ASSUME Init PROVE ShmInv OBVIOUS
<1>1. /\ spc = [r \in Runs |-> "none"] /\ rpc = spc /\ late = {}
      /\ posted = [r \in Runs |-> [recv |-> 0, send |-> 0]]
      /\ shm = <<"blank", "blank">> /\ buff = [r \in Runs |-> <<"blank", "blank">>]
      /\ typed = [r \in Runs |-> "blank"]
  BY DEF Init, ShmInit
<1>2. <<"blank", "blank">> \in [1..2 -> Halves] BY DEF Halves
<1>3. ShmTypes BY <1>1, <1>2 DEF ShmTypes, Idle
<1>4. \A r \in Runs : 0 < r /\ spc[r] = "none" BY <1>1, SharedMemoryAssumption DEF Runs
<1>5. 0 \in 0..MaxRuns BY SharedMemoryAssumption
<1>6. \A r \in Runs : spc[r] = "none" <=> 0 < r BY <1>4
<1>7. Current = 0 BY <1>5, <1>6, CountsRuns DEF Current
<1>8. Numbered(0) BY <1>6 DEF Numbered
<1>9. OneReceiver
  <2>1. child = "none" BY DEF Init, ShellInit
  <2> QED BY <1>1, <2>1 DEF OneReceiver, ShellWaits, Idle
<1>10. \A r \in Runs : Exchange(r) BY <1>1 DEF Exchange, Posted
<1>11. \A r \in Runs : Whole(r) BY <1>1 DEF Whole, Idle
<1> QED BY <1>3, <1>5, <1>7, <1>8, <1>9, <1>10, <1>11 DEF ShmInv

THEOREM ProgramsInvariant == Spec => [](ShellInv /\ ShmInv)
<1>1. Init => ShellInv /\ ShmInv BY ShellStarts, ShmStarts
<1>2. ASSUME ShellInv /\ ShmInv, [Next]_vars PROVE (ShellInv /\ ShmInv)'
  BY <1>2, ShellSees, KeepsLines, KeepsPlace, KeepsLone, KeepsShm DEF ShellInv
<1> QED BY <1>1, <1>2, PTL DEF Spec

\* A receiver prints what its own sender has read, whole, in every run that found
\* no older sender about.
THEOREM ReceiverPrintsWhatWasTyped == Spec => []PrintsWhatWasTyped
<1>1. ASSUME ShmInv PROVE PrintsWhatWasTyped
  <2> SUFFICES ASSUME NEW r \in Runs \ late, rpc[r] \in {"post", "gone"}
               PROVE  buff[r] = <<typed[r], typed[r]>>
    BY DEF PrintsWhatWasTyped
  <2>1. buff[r] \in [1..2 -> Halves] BY <1>1 DEF ShmInv, ShmTypes
  <2>2. buff[r][1] = typed[r] /\ buff[r][2] = typed[r]
    <3>1. Whole(r) /\ Exchange(r) BY <1>1 DEF ShmInv
    <3> QED BY <3>1 DEF Whole, Idle, Gone
  <2> QED BY <2>1, <2>2
<1> QED BY <1>1, ProgramsInvariant, PTL

\* When the shell asks for a command again, no process of the commands before is left
\* but senders: of a run whose receiver came to its end, one that has had its text
\* read; of one whose receiver did not get the segment or was ended by a signal, one
\* anywhere on its way.
THEOREM OnlySendersAreLeft == Spec => []LeftoversAreSenders
<1> DEFINE Busy == child \in {"running", "stopped"}
           Rest == /\ cut \subseteq ran /\ ran \subseteq DOMAIN script
                   /\ DOMAIN files = Names /\ (Busy => at \in ran)
<1>1. ASSUME ShellInv, ShmInv, Rest PROVE LeftoversAreSenders
  <2> USE <1>1 DEF ShellInv, ShmInv
  <2>1. ShmTypeOK BY DEF ShmTypeOK, ShmTypes, Posted, Idle, Gone
  <2>2. TypeOK BY <2>1 DEF TypeOK, Place
  <2>3. ASSUME pc = "read", NEW r \in Runs
        PROVE  /\ rpc[r] \in Gone \cup {"none"}
               /\ rpc[r] = "gone" => spc[r] \in {"wait", "over1", "over2", "gone"}
    <3>1. child = "none" BY <2>3 DEF Place
    <3>2. rpc[r] \in Idle BY <3>1 DEF OneReceiver, ShellWaits
    <3>3. Exchange(r) OBVIOUS
    <3> QED BY <3>2, <3>3 DEF Exchange, Posted, Idle
  <2> QED BY <2>2, <2>3 DEF LeftoversAreSenders
<1>2. Init => Rest BY DEF Init, ShellInit, Names
<1>3. ASSUME ShellInv, Rest, [Next]_vars PROVE Rest'
  <2>1. ASSUME UNCHANGED <<ran, cut, script>>, DOMAIN files' = DOMAIN files,
               Busy' => Busy /\ at' = at
        PROVE  Rest'
    BY <1>3, <2>1
  <2>2. CASE ShellAlone
    <3>1. UNCHANGED <<ran, cut, files>> BY <2>2 DEF ShellAlone
    <3>2. script' = script /\ (Busy' => Busy /\ at' = at)
      BY <1>3, <2>2 DEF ShellAlone, ReadScript, EndOfScript, CannotSplit, EmptyLine,
         ExitCommand, Fork, ForkFails, Return, ExecFails, Ended, ShellInv, Place
    <3> HIDE DEF Busy
    <3> QED BY <2>1, <3>1, <3>2
  <2>3. CASE TypeCommand
    <3>1. ReadTyped /\ UNCHANGED <<ran, cut, files>> BY <2>3 DEF TypeCommand
    <3>2. PICK c \in Typed : script' = Append(script, c) BY <3>1 DEF ReadTyped
    <3>3. script \in Seq(Typed) /\ child = "none" /\ child' = child
      BY <1>3, <3>1 DEF ReadTyped, ShellInv, Lines, Place
    <3>4. DOMAIN script \subseteq DOMAIN script'
      BY <3>2, <3>3, AppendProperties, LenProperties
    <3> QED BY <1>3, <3>1, <3>3, <3>4
  <2>4. CASE Launch
    <3>1. at \in DOMAIN script BY <1>3, <2>4 DEF Launch, Exec, ShellInv, Lines, Place
    <3> QED BY <1>3, <2>4, <3>1 DEF Launch, Exec, Become
  <2>5. CASE Signalled BY <2>1, <2>5 DEF Signalled, Signal, Become
  <2>6. CASE RunCopy
    <3>1. DOMAIN files' = DOMAIN files BY <2>6 DEF RunCopy, Copy
    <3> QED BY <2>1, <2>6, <3>1 DEF RunCopy, Become
  <2>7. CASE RunInsmod
    <3>1. DOMAIN files' = DOMAIN files BY <2>7 DEF RunInsmod, Insmod
    <3> QED BY <2>1, <2>7, <3>1 DEF RunInsmod, Become
  <2>8. CASE RunReceiver BY <2>1, <2>8 DEF RunReceiver, Become, Foreground
  <2>9. ASSUME NEW r \in Runs, RunSender(r) \/ TypeText(r) PROVE Rest'
    BY <2>1, <2>9 DEF RunSender, TypeText, shellVars
  <2>10. CASE KilledEarly BY <2>1, <2>10 DEF KilledEarly, EndBySignal, Become
  <2>11. CASE Killed
    <3>1. /\ Busy /\ child' = "done" /\ UNCHANGED <<ran, script>> /\ cut' = cut \cup {at}
      BY <2>11 DEF Killed, EndBySignal, Become
    <3>2. DOMAIN files' = DOMAIN files BY <2>11 DEF Killed, CopyCutShort, Insmod
    <3> QED BY <1>3, <3>1, <3>2
  <2>12. CASE UNCHANGED vars BY <2>1, <2>12 DEF vars, shellVars
  <2> QED BY <1>3, <2>2, <2>3, <2>4, <2>5, <2>6, <2>7, <2>8, <2>9, <2>10, <2>11, <2>12
          DEF Next
<1> HIDE DEF Rest
<1>4. Spec => []Rest BY <1>2, <1>3, ShellInvariant, PTL DEF Spec
<1> QED BY <1>1, <1>4, ProgramsInvariant, PTL

-----------------------------------------------------------------------------
(* The order in which the commands take effect                             *)

\* The equation of the recursive function in Effects, for the lines "done" of a
\* script s that were executed and those of them, "short", that a signal ended.
Makes(c, ended, w) ==
    IF c.name = "copy" /\ ended THEN CopyCutShort(w, c.from, c.to)
    ELSE IF c.name = "copy" THEN {Copy(w, c.from, c.to)}
    ELSE IF c.name = "insmod" THEN Insmod(w, c.from, c.to) ELSE {w}
Effected(c, ended, W) == UNION {Makes(c, ended, w) : w \in W}
Following(done, short, s, g, i) ==
    IF i = 0 THEN {FirstFiles}
    ELSE IF i \notin done THEN g[i - 1] ELSE Effected(s[i], i \in short, g[i - 1])
History(done, short, s, g, k) == g = [i \in 0..k |-> Following(done, short, s, g, i)]

\* It has a solution.
LEMMA HistoryExists ==
    ASSUME NEW done, NEW short, NEW s
    PROVE  \A k \in Nat : \E g : History(done, short, s, g, k)
<1> DEFINE None == {k \in Nat : ~\E g : History(done, short, s, g, k)}
<1> SUFFICES ASSUME None # {} PROVE FALSE OBVIOUS
<1>1. PICK k \in None : \A j \in None : k <= j
  <2>1. None \in SUBSET Nat OBVIOUS
  <2> HIDE DEF None
  <2> QED BY <2>1, SmallestOf
<1>2. CASE k = 0
  <2> DEFINE g == [i \in 0..0 |-> {FirstFiles}]
  <2>1. \A i \in 0..0 : Following(done, short, s, g, i) = {FirstFiles} BY DEF Following
  <2>2. History(done, short, s, g, 0) BY <2>1 DEF History
  <2> QED BY <1>1, <1>2, <2>2
<1>3. CASE k # 0
  <2>1. k - 1 \in Nat /\ k \in Nat /\ k - 1 \notin None BY <1>1, <1>3
  <2>2. PICK h : History(done, short, s, h, k - 1) BY <2>1
  <2> DEFINE g == [i \in 0..k |-> IF i < k THEN h[i] ELSE Following(done, short, s, h, k)]
  <2>3. \A i \in 0..k - 1 : g[i] = h[i] BY <2>1
  <2>4. ASSUME NEW i \in 0..k
        PROVE  Following(done, short, s, g, i) = Following(done, short, s, h, i)
    <3>1. CASE i = 0 BY <3>1 DEF Following
    <3>2. CASE i # 0
      <4>1. g[i - 1] = h[i - 1] BY <2>1, <2>3, <3>2
      <4> HIDE DEF g
      <4> QED BY <4>1 DEF Following
    <3> QED BY <3>1, <3>2
  <2>5. ASSUME NEW i \in 0..k PROVE g[i] = Following(done, short, s, h, i)
    <3>1. CASE i < k
      <4>1. i \in 0..k - 1 BY <2>1, <3>1
      <4>2. h[i] = Following(done, short, s, h, i) BY <2>2, <4>1 DEF History
      <4> QED BY <3>1, <4>2
    <3>2. CASE i = k BY <3>2
    <3> QED BY <2>1, <3>1, <3>2
  <2>6. g = [i \in 0..k |-> Following(done, short, s, g, i)]
    <3>1. \A i \in 0..k : g[i] = Following(done, short, s, g, i) BY <2>4, <2>5
    <3>2. g = [i \in 0..k |-> g[i]] OBVIOUS
    <3> HIDE DEF g
    <3> QED BY <3>1, <3>2
  <2>7. History(done, short, s, g, k) BY <2>6 DEF History
  <2> QED BY <1>1, <2>7
<1> QED BY <1>2, <1>3

\* The same lines executed of the same lines have the same effects.
LEMMA SameHistory ==
    ASSUME NEW d, NEW x, NEW s, NEW g, NEW k \in Nat, History(d, x, s, g, k),
           NEW e, NEW y, NEW t, NEW h, NEW m \in Nat, History(e, y, t, h, m),
           NEW n \in Nat, n <= k, n <= m,
           \A i \in 1..n : (i \in d <=> i \in e) /\ (i \in x <=> i \in y) /\ s[i] = t[i]
    PROVE  g[n] = h[n]
<1> DEFINE Bad == {i \in 0..n : g[i] # h[i]}
<1> SUFFICES ASSUME Bad # {} PROVE FALSE OBVIOUS
<1>1. PICK i \in Bad : \A j \in Bad : i <= j
  <2>1. Bad \in SUBSET Nat OBVIOUS
  <2> HIDE DEF Bad
  <2> QED BY <2>1, SmallestOf
<1>2. g[i] = Following(d, x, s, g, i) /\ h[i] = Following(e, y, t, h, i)
  <2>1. i \in 0..k /\ i \in 0..m BY <1>1
  <2> HIDE DEF Bad
  <2>2. \A G, D, X, S, l :
           History(D, X, S, G, l) => \A j \in 0..l : G[j] = Following(D, X, S, G, j)
    BY DEF History
  <2> QED BY <2>1, <2>2
<1>3. CASE i = 0 BY <1>1, <1>2, <1>3 DEF Following
<1>4. CASE i # 0
  <2>1. i - 1 \in 0..n /\ i - 1 < i /\ i \in 1..n BY <1>1, <1>4
  <2>2. g[i - 1] = h[i - 1] BY <1>1, <2>1
  <2>3. (i \in d <=> i \in e) /\ (i \in x <=> i \in y) /\ s[i] = t[i] BY <2>1
  <2>4. (i \in x) = (i \in y) BY <2>3
  <2>5. Following(d, x, s, g, i) = Following(e, y, t, h, i) BY <2>2, <2>3, <2>4 DEF Following
  <2> QED BY <1>1, <1>2, <2>5
<1> QED BY <1>3, <1>4

\* So Effects is its last value.
LEMMA EffectsAre ==
    ASSUME NEW k \in Nat
    PROVE  /\ \E g : History(ran, cut, script, g, k) /\ Effects(k) = g[k]
           /\ \E g : History(ran', cut', script', g, k) /\ Effects(k)' = g[k]
<1>1. \E g : History(ran, cut, script, g, k) /\ Effects(k) = g[k]
  <2> DEFINE g == CHOOSE g : History(ran, cut, script, g, k)
  <2>1. History(ran, cut, script, g, k) BY HistoryExists
  <2>2. Effects(k) = g[k] BY DEF Effects, Effect, History, Following, Effected, Makes
  <2> QED BY <2>1, <2>2
<1>2. \E g : History(ran', cut', script', g, k) /\ Effects(k)' = g[k]
  <2> DEFINE g == CHOOSE g : History(ran', cut', script', g, k)
  <2>1. History(ran', cut', script', g, k) BY HistoryExists
  <2>2. Effects(k)' = g[k] BY DEF Effects, Effect, History, Following, Effected, Makes
  <2> QED BY <2>1, <2>2
<1> QED BY <1>1, <1>2

\* Effects from line to line, and after a step.
LEMMA EffectsOfNone == Effects(0) = {FirstFiles}
<1>1. PICK g : History(ran, cut, script, g, 0) /\ Effects(0) = g[0] BY EffectsAre
<1> QED BY <1>1 DEF History, Following

LEMMA LongerHistory ==
    ASSUME NEW d, NEW x, NEW s, NEW k \in Nat \ {0},
           NEW g, History(d, x, s, g, k), NEW h, History(d, x, s, h, k - 1)
    PROVE  /\ k \notin d => g[k] = h[k - 1]
           /\ k \in d => g[k] = Effected(s[k], k \in x, h[k - 1])
<1>1. k \in Nat /\ k - 1 \in Nat OBVIOUS
<1>2. g[k - 1] = h[k - 1] BY <1>1, SameHistory
<1>3. g[k] = Following(d, x, s, g, k) BY <1>1 DEF History
<1> QED BY <1>2, <1>3 DEF Following

LEMMA EffectsOfOneMore ==
    ASSUME NEW k \in Nat \ {0}
    PROVE  /\ k \notin ran => Effects(k) = Effects(k - 1)
           /\ k \notin ran' => Effects(k)' = Effects(k - 1)'
           /\ k \in ran' => Effects(k)' = Effected(script'[k], k \in cut', Effects(k - 1)')
<1>1. k \in Nat /\ k - 1 \in Nat OBVIOUS
<1>2. PICK g : History(ran, cut, script, g, k) /\ Effects(k) = g[k] BY <1>1, EffectsAre
<1>3. PICK h : History(ran, cut, script, h, k - 1) /\ Effects(k - 1) = h[k - 1]
  BY <1>1, EffectsAre
<1>4. PICK G : History(ran', cut', script', G, k) /\ Effects(k)' = G[k] BY <1>1, EffectsAre
<1>5. PICK H : History(ran', cut', script', H, k - 1) /\ Effects(k - 1)' = H[k - 1]
  BY <1>1, EffectsAre
<1>6. k \notin ran => g[k] = h[k - 1]
  <2>1. History(ran, cut, script, g, k) /\ History(ran, cut, script, h, k - 1)
    BY <1>2, <1>3
  <2>2. (k \notin ran => g[k] = h[k - 1])
        /\ (k \in ran => g[k] = Effected(script[k], k \in cut, h[k - 1]))
    BY <2>1, LongerHistory
  <2> QED BY <2>2
<1>7. /\ k \notin ran' => G[k] = H[k - 1]
      /\ k \in ran' => G[k] = Effected(script'[k], k \in cut', H[k - 1])
  BY <1>4, <1>5, LongerHistory
<1> QED BY <1>2, <1>3, <1>4, <1>5, <1>6, <1>7

LEMMA EffectsStay ==
    ASSUME NEW k \in Nat,
           \A i \in 1..k : /\ i \in ran <=> i \in ran'
                           /\ i \in cut <=> i \in cut'
                           /\ script[i] = script'[i]
    PROVE  Effects(k)' = Effects(k)
<1>1. PICK g : History(ran, cut, script, g, k) /\ Effects(k) = g[k] BY EffectsAre
<1>2. PICK h : History(ran', cut', script', h, k) /\ Effects(k)' = h[k] BY EffectsAre
<1>3. g[k] = h[k] BY <1>1, <1>2, SameHistory
<1> QED BY <1>1, <1>2, <1>3

\* What has been executed and what it has made of the files, unless the shell may
\* go back.  While a command runs, only the lines before it have taken effect.
Order ==
    terminal \/ Missing = {} =>
        /\ cut \subseteq ran /\ ran \subseteq 1..at
        /\ pc = "execute" \/ child = "ready" => at \notin ran
        /\ child \in {"running", "stopped"} =>
              at \in ran \ cut /\ files \in Effects(at - 1)
        /\ child \notin {"running", "stopped"} => files \in Effects(at)

LEMMA StartsInOrder == Init => Order
<1> SUFFICES ASSUME Init PROVE Order OBVIOUS
<1>1. ran = {} /\ cut = {} /\ at = 0 /\ pc = "read" /\ child = "none" /\ files = FirstFiles
  BY DEF Init, ShellInit
<1>2. files \in Effects(at) BY <1>1, EffectsOfNone
<1> QED BY <1>1, <1>2 DEF Order

LEMMA KeepsOrder ==
    ASSUME ShellInv, Order, [Next]_vars
    PROVE  Order'
<1> DEFINE Busy == child \in {"running", "stopped"}
<1>1. at \in Nat /\ at <= Len(script) /\ Len(script) \in Nat
  BY LineNumbers DEF ShellInv, Place, ShellTypeOK
<1>2. CASE TypeCommand
  <2>1. /\ pc = "read" /\ terminal /\ at' = Len(script) + 1 /\ pc' = "execute"
        /\ child' = child /\ ran' = ran /\ cut' = cut /\ files' = files
        /\ \E c \in Typed : script' = Append(script, c)
    BY <1>2 DEF TypeCommand, ReadTyped
  <2>2. PICK c \in Typed : script' = Append(script, c) BY <2>1
  <2>3. child = "none" /\ at = Len(script) BY <2>1 DEF ShellInv, Place
  <2>4. cut \subseteq ran /\ ran \subseteq 1..at /\ files \in Effects(at)
    BY <2>1, <2>3 DEF Order
  <2>5. \A i \in 1..at : script'[i] = script[i]
    <3>1. script \in Seq(Typed) BY <2>1 DEF ShellInv, Lines
    <3> QED BY <2>2, <2>3, <3>1, AppendProperties
  <2>6. PICK k \in Nat \ {0} : k = at + 1 BY <1>1
  <2>7. PICK m \in Nat : m = at BY <1>1
  <2>8. Effects(m)' = Effects(m) BY <2>1, <2>5, <2>7, EffectsStay
  <2>9. k \notin ran' /\ k - 1 = m BY <1>1, <2>1, <2>4, <2>6, <2>7
  <2>10. Effects(k)' = Effects(m)' BY <2>9, EffectsOfOneMore
  <2>11. files' \in Effects(k)' BY <2>1, <2>4, <2>7, <2>8, <2>10
  <2>12. (files \in Effects(at))' BY <1>1, <2>1, <2>3, <2>6, <2>11
  <2>13. cut' \subseteq ran' /\ ran' \subseteq 1..at' /\ at' \notin ran'
    BY <1>1, <2>1, <2>3, <2>4
  <2> QED BY <2>1, <2>3, <2>12, <2>13 DEF Order
<1>3. SUFFICES ASSUME ~TypeCommand, terminal' \/ Missing' = {} PROVE Order'
  BY <1>2 DEF Order
<1>4. ShellStep BY ShellSees DEF ShellInv
<1>5. script' = script /\ terminal' = terminal
  BY <1>3 DEF Next, vars, shellVars, ShellAlone, ReadScript, EndOfScript, CannotSplit,
     EmptyLine, ExitCommand, Ended, Fork, ForkFails, Return, ExecFails, Launch, Exec,
     Signalled, Signal, RunCopy, RunInsmod, RunReceiver, RunSender, TypeText, KilledEarly,
     Killed, EndBySignal, Become
<1>6. /\ terminal \/ Missing = {}
      /\ cut \subseteq ran /\ ran \subseteq 1..at
      /\ pc = "execute" \/ child = "ready" => at \notin ran
      /\ Busy => at \in ran \ cut /\ files \in Effects(at - 1)
      /\ ~Busy => files \in Effects(at)
  <2>1. terminal \/ Missing = {} BY <1>3, <1>5 DEF Missing
  <2> QED BY <2>1 DEF Order
<1>7. ASSUME ran' = ran, cut' = cut, NEW k \in Nat PROVE Effects(k)' = Effects(k)
  BY <1>5, <1>7, EffectsStay
\* A step that does not go on to another line and finishes no command.
<1>8. ASSUME UNCHANGED <<ran, cut, files, at>>, pc' = "execute" => pc = "execute",
             child' = "ready" => pc = "execute" \/ child = "ready", Busy' <=> Busy
      PROVE  Order'
  <2>1. PICK k \in Nat : k = at BY <1>1
  <2>2. ~Busy' => (files \in Effects(at))' BY <1>6, <1>7, <1>8, <2>1
  <2>3. ASSUME Busy' PROVE (files \in Effects(at - 1))'
    <3>1. at \in 1..at BY <1>6, <1>8, <2>3
    <3>2. PICK m \in Nat : m = at - 1 BY <3>1, <1>1
    <3>3. Effects(m)' = Effects(m) BY <1>7, <1>8
    <3> QED BY <1>6, <1>8, <2>3, <3>2, <3>3
  <2> QED BY <1>6, <1>8, <2>2, <2>3 DEF Order
\* A command that is done, or was ended by a signal.
<1>9. ASSUME Busy, UNCHANGED <<ran, at, pc>>, child' = "done",
             cut' \in {cut, cut \cup {at}}, files' \in Makes(Command, at \in cut', files)
      PROVE  Order'
  <2>1. at \in ran /\ files \in Effects(at - 1) BY <1>6, <1>9
  <2>2. PICK k \in Nat \ {0} : k = at BY <1>1, <1>6, <2>1
  <2>3. PICK m \in Nat : m = k - 1 BY <2>2
  <2>4. Effects(m)' = Effects(m)
    <3>1. \A i \in 1..m : i \in cut <=> i \in cut' BY <1>9, <2>2, <2>3
    <3> QED BY <1>5, <1>9, <3>1, EffectsStay
  <2>5. files' \in Effects(k)'
    <3>1. Effects(k)' = Effected(script[k], k \in cut', Effects(m)')
      BY <1>5, <1>9, <2>1, <2>2, <2>3, EffectsOfOneMore
    <3>2. files \in Effects(m)' BY <2>1, <2>2, <2>3, <2>4
    <3>3. files' \in Makes(script[k], k \in cut', files) BY <1>9, <2>2 DEF Command
    <3> QED BY <3>1, <3>2, <3>3 DEF Effected
  <2>6. (files \in Effects(at))' BY <1>9, <2>2, <2>5
  <2>7. pc' # "execute" BY <1>9 DEF ShellInv, Place
  <2>8. cut' \subseteq ran' BY <1>6, <1>9, <2>1
  <2> QED BY <1>6, <1>9, <2>6, <2>7, <2>8 DEF Order
<1>10. CASE ShellAlone
  <2>1. ran' = ran /\ cut' = cut /\ files' = files BY <1>10 DEF ShellAlone
  <2>2. CASE ReadScript
    <3>1. child = "none" /\ pc' = "execute" /\ child' = child
      BY <2>2, ReadsLine DEF ShellInv, Place
    <3>2. at' = at + 1
      BY <1>1, <1>6, <2>2, ReadsLine DEF ShellInv, Place, ShellTypeOK
    <3>3. PICK k \in Nat \ {0} : k = at + 1 BY <1>1
    <3>4. k \notin ran /\ k - 1 = at BY <1>1, <1>6, <3>3
    <3>5. files \in Effects(k) BY <1>6, <3>1, <3>3, <3>4, EffectsOfOneMore
    <3>6. (files \in Effects(at))' BY <1>7, <2>1, <3>2, <3>3, <3>5
    <3>7. cut' \subseteq ran' /\ ran' \subseteq 1..at' /\ at' \notin ran'
      BY <1>1, <1>6, <2>1, <3>2
    <3> QED BY <3>1, <3>6, <3>7 DEF Order
  <2>3. CASE ~ReadScript
    <3>1. at' = at /\ (pc' = "execute" => pc = "execute")
      BY <1>10, <2>3 DEF ShellAlone, EndOfScript, CannotSplit, EmptyLine,
         ExitCommand, Ended, Fork, ForkFails, Return, ExecFails
    <3>2. (child' = "ready" => pc = "execute" \/ child = "ready") /\ (Busy' <=> Busy)
      BY <1>10, <2>3 DEF ShellAlone, EndOfScript, CannotSplit, EmptyLine,
         ExitCommand, Ended, Fork, ForkFails, Return, ExecFails, Parsed, ShellInv, Place
    <3> HIDE DEF Busy
    <3> QED BY <1>8, <2>1, <3>1, <3>2
  <2> QED BY <2>2, <2>3
<1>11. CASE Launch
  <2>1. /\ child = "ready" /\ child' = "running" /\ ran' = ran \cup {at} /\ files' = files
        /\ pc' = pc /\ at' = at /\ cut' = cut
    BY <1>11 DEF Launch, Exec, Become
  <2>2. at \in 1..Len(script) /\ pc = "wait" BY <2>1 DEF ShellInv, Place
  <2>3. at \notin ran /\ files \in Effects(at) BY <1>6, <2>1
  <2>4. PICK k \in Nat \ {0} : k = at BY <1>1, <2>2
  <2>5. PICK m \in Nat : m = at - 1 BY <2>4
  <2>6. Effects(k) = Effects(m) BY <2>3, <2>4, <2>5, EffectsOfOneMore
  <2>7. Effects(m)' = Effects(m)
    <3>1. \A i \in 1..m : (i \in ran <=> i \in ran') BY <2>1, <2>4, <2>5
    <3> QED BY <1>5, <2>1, <3>1, EffectsStay
  <2>8. (files \in Effects(at - 1))' BY <2>1, <2>3, <2>4, <2>5, <2>6, <2>7
  <2>9. cut' \subseteq ran' /\ ran' \subseteq 1..at' /\ at' \in ran' \ cut'
    BY <1>1, <1>6, <2>1, <2>2, <2>3
  <2> QED BY <2>1, <2>2, <2>8, <2>9 DEF Order
<1>12. CASE Signalled BY <1>8, <1>12 DEF Signalled, Signal, Become
<1>13. CASE RunCopy
  <2>1. files' = Copy(files, Command.from, Command.to) /\ Command.name = "copy"
    BY <1>13 DEF RunCopy, Foreground
  <2>2. Busy /\ cut' = cut /\ at \notin cut'
    BY <1>6, <1>13 DEF RunCopy, Foreground
  <2>3. files' \in Makes(Command, at \in cut', files) BY <2>1, <2>2 DEF Makes
  <2> QED BY <1>9, <1>13, <2>2, <2>3 DEF RunCopy, Become
<1>14. CASE RunInsmod
  <2>1. files' \in Insmod(files, Command.from, Command.to) /\ Command.name = "insmod"
    BY <1>14 DEF RunInsmod, Foreground
  <2>2. files' \in Makes(Command, at \in cut', files) BY <2>1 DEF Makes
  <2> QED BY <1>9, <1>14, <2>2 DEF RunInsmod, Foreground, Become
<1>15. CASE RunReceiver
  <2>1. /\ child = "running" /\ Command.name = "shm" /\ child' \in {"done", "running"}
        /\ UNCHANGED <<ran, cut, files, at, pc>>
    BY <1>15 DEF RunReceiver, Foreground, Become
  <2>2. files' \in Makes(Command, at \in cut', files) BY <2>1 DEF Makes
  <2> QED BY <1>8, <1>9, <2>1, <2>2
<1>16. ASSUME NEW r \in Runs, RunSender(r) \/ TypeText(r) PROVE Order'
  BY <1>8, <1>16 DEF RunSender, TypeText, shellVars
<1>17. CASE KilledEarly BY <1>8, <1>17 DEF KilledEarly, EndBySignal, Become
<1>18. CASE Killed
  <2>1. /\ Busy /\ child' = "done" /\ cut' = cut \cup {at} /\ at \in cut'
        /\ UNCHANGED <<ran, at, pc>>
    BY <1>18 DEF Killed, EndBySignal, Become
  <2>2. files' \in Makes(Command, at \in cut', files)
    <3>1. CASE Command.name = "copy" BY <1>18, <2>1, <3>1 DEF Killed, Makes
    <3>2. CASE Command.name = "insmod" BY <1>18, <3>2 DEF Killed, Makes
    <3>3. CASE Command.name = "shm" BY <1>18, <3>3 DEF Killed, Makes
    <3> QED BY <1>18, <3>1, <3>2, <3>3 DEF Killed
  <2> HIDE DEF Busy
  <2> QED BY <1>9, <2>1, <2>2
<1>19. CASE UNCHANGED vars BY <1>8, <1>19 DEF vars, shellVars
<1> QED BY <1>3, <1>10, <1>11, <1>12, <1>13, <1>14, <1>15, <1>16, <1>17, <1>18, <1>19
        DEF Next

\* Unless a command could not be executed, the files hold what the executed lines
\* before make of them, each once and in their order: whole, or of a copy that a
\* signal ended no more than a beginning of it, for every point it may end it at.
THEOREM CommandsAreInOrder == Spec => []CommandsTakeEffectInOrder
<1>1. Spec => []Order BY StartsInOrder, KeepsOrder, ShellInvariant, PTL DEF Spec
<1>2. ShellInv /\ Order => CommandsTakeEffectInOrder
  BY DEF ShellInv, Place, Order, CommandsTakeEffectInOrder
<1> QED BY <1>1, <1>2, ShellInvariant, PTL

-----------------------------------------------------------------------------
(* The loops of the two copies                                             *)

\* What holds of 0 and of a number with the one before it holds up to n.
LEMMA Upwards ==
    ASSUME NEW n \in Nat, NEW T, 0 \in T, \A k \in 1..n : k - 1 \in T => k \in T
    PROVE  0..n \subseteq T
<1> DEFINE None == {k \in 0..n : k \notin T}
<1> SUFFICES ASSUME None # {} PROVE FALSE OBVIOUS
<1>1. PICK m \in None : \A j \in None : m <= j
  <2>1. None \in SUBSET Nat OBVIOUS
  <2> HIDE DEF None
  <2> QED BY <2>1, SmallestOf
<1>2. m \in 1..n /\ m - 1 \in 0..n /\ ~(m <= m - 1) BY <1>1
<1>3. m - 1 \in T BY <1>1, <1>2
<1> QED BY <1>1, <1>2, <1>3

\* A file is read in as many pieces as it takes.
LEMMA PiecesAre ==
    ASSUME NEW D, NEW data \in Seq(D)
    PROVE  /\ Pieces(data) \in Nat /\ Len(data) <= Chunk * Pieces(data)
           /\ Chunk * Pieces(data) < Len(data) + Chunk
BY CopyFileAssumption, LenProperties DEF Pieces

LEMMA PiecesAtMost ==
    ASSUME NEW D, NEW data \in Seq(D), NEW m \in Nat, Len(data) <= Chunk * m
    PROVE  Chunk * Pieces(data) <= Chunk * m
<1>1. Chunk \in Nat /\ Chunk > 0 BY CopyFileAssumption
<1> DEFINE c == Pieces(data)
<1>2. c \in Nat /\ Chunk * c < Len(data) + Chunk /\ Len(data) \in Nat
  BY PiecesAre, LenProperties
<1> HIDE DEF c
<1>3. ASSUME c > m PROVE FALSE
  <2>1. Chunk * c >= Chunk * (m + 1) BY <1>1, <1>2, <1>3
  <2>2. Chunk * (m + 1) = Chunk * m + Chunk /\ Chunk * m \in Int /\ Chunk * c \in Int
    BY <1>1, <1>2
  <2> QED BY <1>1, <1>2, <2>1, <2>2
<1>4. c <= m BY <1>2, <1>3
<1> QED BY <1>1, <1>2, <1>4 DEF c

\* The k-th one holds the units c + 1..e.
Stretch(data, k, c, e) ==
    /\ c = (k - 1) * Chunk /\ k * Chunk = c + Chunk
    /\ c < e /\ e <= Len(data) /\ e <= c + Chunk /\ (e < c + Chunk => e = Len(data))
    /\ Piece(data, k) = SubSeq(data, c + 1, e)
LEMMA StretchOf ==
    ASSUME NEW D, NEW data \in Seq(D), NEW k \in 1..Pieces(data)
    PROVE  \E c, e \in Nat : Stretch(data, k, c, e)
<1>1. Chunk \in Nat /\ Chunk > 0 /\ Len(data) \in Nat /\ k \in Nat /\ k - 1 \in Nat
  BY CopyFileAssumption, LenProperties, PiecesAre
<1> PICK c \in Nat : c = (k - 1) * Chunk BY <1>1
<1>2. k * Chunk = c + Chunk BY <1>1
<1>3. c < Len(data)
  <2> PICK p \in Nat : p = Pieces(data) BY PiecesAre
  <2>1. Chunk * p < Len(data) + Chunk /\ k <= p BY PiecesAre
  <2>2. k * Chunk <= Chunk * p /\ Chunk * p \in Int BY <1>1, <2>1
  <2> QED BY <1>1, <1>2, <2>1, <2>2
<1> PICK e \in Nat : e = Smaller(c + Chunk, Len(data)) BY <1>1 DEF Smaller
<1>4. c < e /\ e <= Len(data) /\ e <= c + Chunk /\ (e < c + Chunk => e = Len(data))
  BY <1>1, <1>3 DEF Smaller
<1>5. Piece(data, k) = SubSeq(data, c + 1, e) BY <1>2 DEF Piece
<1> QED BY <1>2, <1>4, <1>5 DEF Stretch

LEMMA PieceIs ==
    ASSUME NEW D, NEW data \in Seq(D), NEW k, NEW c \in Nat, NEW e \in Nat,
           Stretch(data, k, c, e)
    PROVE  /\ Piece(data, k) \in Seq(D) /\ Len(Piece(data, k)) = e - c
           /\ \A i \in 1..e - c : Piece(data, k)[i] = data[c + i]
<1>1. Piece(data, k) = SubSeq(data, c + 1, e) /\ c < e /\ e <= Len(data) BY DEF Stretch
<1>2. \A i \in c + 1..e : data[i] \in D
  <2>1. \A i \in c + 1..e : i \in 1..Len(data) BY <1>1, LenProperties
  <2> QED BY <2>1, ElementOfSeq
<1>3. /\ SubSeq(data, c + 1, e) \in Seq(D)
      /\ Len(SubSeq(data, c + 1, e)) = IF c + 1 <= e THEN e - (c + 1) + 1 ELSE 0
      /\ \A i \in 1..e - (c + 1) + 1 : SubSeq(data, c + 1, e)[i] = data[c + 1 + i - 1]
  <2>1. c + 1 \in Int /\ e \in Int OBVIOUS
  <2> QED BY <1>2, <2>1, SubSeqProperties
<1> QED BY <1>1, <1>3

-----------------------------------------------------------------------------
\* A function on 1..n is a sequence of that length.
LEMMA LengthOf ==
    ASSUME NEW D, NEW n \in Nat, NEW s \in [1..n -> D]
    PROVE  s \in Seq(D) /\ Len(s) = n
<1>1. s \in Seq(D) BY SeqDef
<1>2. DOMAIN s = 1..Len(s) /\ Len(s) \in Nat BY <1>1, LenProperties
<1>3. DOMAIN s = 1..n OBVIOUS
<1>4. \A l \in Nat : 1..n = 1..l => l = n OBVIOUS
<1> QED BY <1>1, <1>2, <1>3, <1>4

\* What the k-th round makes of temp and the destination.
Round(x, piece) ==
    LET temp == [i \in 1..Chunk |-> IF i <= Len(piece) THEN piece[i] ELSE x.temp[i]]
    IN [temp |-> temp, out |-> x.out \o temp]
Done(x, D, data, n) ==
    /\ x.temp \in [1..Chunk -> D] /\ x.out \in Seq(D) /\ Len(x.out) = n
    /\ \A i \in 1..Len(data) : i <= n => x.out[i] = data[i]

LEMMA RoundCopies ==
    ASSUME NEW D, NEW data \in Seq(D), NEW k, NEW c \in Nat, NEW e \in Nat,
           Stretch(data, k, c, e), NEW x, Done(x, D, data, c)
    PROVE  Done(Round(x, Piece(data, k)), D, data, c + Chunk)
<1>1. Chunk \in Nat /\ Len(data) \in Nat BY CopyFileAssumption, LenProperties
<1>p. PICK piece : piece = Piece(data, k) OBVIOUS
<1>2. /\ piece \in Seq(D) /\ Len(piece) = e - c
      /\ \A i \in 1..e - c : piece[i] = data[c + i]
  <2>1. /\ Piece(data, k) \in Seq(D) /\ Len(Piece(data, k)) = e - c
        /\ \A i \in 1..e - c : Piece(data, k)[i] = data[c + i]
    BY PieceIs
  <2> QED BY <1>p, <2>1
<1>3. c < e /\ e <= Len(data) /\ e <= c + Chunk /\ (e < c + Chunk => e = Len(data))
  BY DEF Stretch
<1>t. PICK temp : temp = [i \in 1..Chunk |-> IF i <= Len(piece) THEN piece[i] ELSE x.temp[i]]
  OBVIOUS
<1>4. temp \in [1..Chunk -> D]
  <2>1. \A i \in 1..Len(piece) : piece[i] \in D BY <1>2, ElementOfSeq
  <2>2. ASSUME NEW i \in 1..Chunk PROVE temp[i] \in D
    <3>1. CASE i <= Len(piece)
      <4>1. i \in 1..Len(piece) BY <3>1
      <4>2. temp[i] = piece[i] BY <1>t, <3>1
      <4> QED BY <2>1, <4>1, <4>2
    <3>2. CASE ~(i <= Len(piece)) BY <1>t, <3>2 DEF Done
    <3> QED BY <3>1, <3>2
  <2> QED BY <1>t, <2>2
<1>5. temp \in Seq(D) /\ Len(temp) = Chunk BY <1>1, <1>4, LengthOf
<1>y. PICK y : y = Round(x, piece) OBVIOUS
<1>6. y.temp = temp /\ y.out = x.out \o temp BY <1>t, <1>y DEF Round
<1>7. /\ y.out \in Seq(D) /\ Len(y.out) = c + Chunk
      /\ \A i \in 1..c + Chunk : y.out[i] = IF i <= c THEN x.out[i] ELSE temp[i - c]
  <2>1. x.out \in Seq(D) /\ Len(x.out) = c BY DEF Done
  <2> PICK z : z = x.out OBVIOUS
  <2>2. z \in Seq(D) /\ Len(z) = c BY <2>1
  <2>3. /\ z \o temp \in Seq(D) /\ Len(z \o temp) = Len(z) + Len(temp)
        /\ \A i \in 1..Len(z) + Len(temp) :
              (z \o temp)[i] = IF i <= Len(z) THEN z[i] ELSE temp[i - Len(z)]
    BY <1>5, <2>2, ConcatProperties, Zenon
  <2> QED BY <1>5, <1>6, <2>2, <2>3
<1>8. ASSUME NEW i \in 1..Len(data), i <= c + Chunk PROVE y.out[i] = data[i]
  <2>1. i \in 1..c + Chunk BY <1>1, <1>8
  <2>2. CASE i <= c BY <1>7, <2>1, <2>2 DEF Done
  <2>3. CASE i > c
    <3>1. PICK j \in 1..Chunk : j = i - c BY <1>1, <1>8, <2>3
    <3>2. j \in 1..e - c /\ j <= Len(piece) /\ c + j = i BY <1>1, <1>2, <1>3, <3>1
    <3>3. y.out[i] = temp[j]
      <4>1. y.out[i] = IF i <= c THEN x.out[i] ELSE temp[i - c] BY <1>7, <2>1
      <4>2. ~(i <= c) BY <1>1, <2>3
      <4> QED BY <3>1, <4>1, <4>2
    <3>4. temp[j] = piece[j] BY <1>t, <3>1, <3>2
    <3>5. piece[j] = data[i] BY <1>2, <3>2
    <3> QED BY <3>3, <3>4, <3>5
  <2> QED BY <2>2, <2>3
<1> QED BY <1>p, <1>y, <1>4, <1>6, <1>7, <1>8 DEF Done

-----------------------------------------------------------------------------
\* What the k-th round makes of the destination and the position in it.
Written(w, piece, taken) ==
    [out |-> Overwrite(w.out, w.pos, SubSeq(piece, 1, taken)), pos |-> w.pos + taken]
KernelRound(W, piece) == UNION {{Written(w, piece, taken) : taken \in 0..Len(piece)} : w \in W}
Spared(w, D, old, data, n) ==
    /\ w.out \in Seq(D) /\ Len(old) <= Len(w.out)
    /\ w.pos \in 0..n /\ w.pos <= Len(w.out)
    /\ \A i \in 1..Len(w.out) : i > Len(data) => i <= Len(old) /\ w.out[i] = old[i]

Overwrites(out, old, pos, new) == out = Overwrite(old, pos, new)
Overwrote(D, out, old, pos, new) ==
    /\ out \in Seq(D) /\ Len(old) <= Len(out) /\ pos + Len(new) <= Len(out)
    /\ Len(out) <= Len(old) \/ Len(out) <= pos + Len(new)
    /\ \A i \in 1..Len(out) : i > pos + Len(new) => out[i] = old[i]
LEMMA OverwriteIs ==
    ASSUME NEW D, NEW old \in Seq(D), NEW new \in Seq(D), NEW pos \in Nat, pos <= Len(old),
           NEW out, Overwrites(out, old, pos, new)
    PROVE  Overwrote(D, out, old, pos, new)
<1>1. Len(old) \in Nat /\ Len(new) \in Nat BY LenProperties
<1>n. PICK n \in Nat : n = IF pos + Len(new) > Len(old) THEN pos + Len(new) ELSE Len(old)
  BY <1>1
<1>2. Len(old) <= n /\ pos + Len(new) <= n /\ (n <= Len(old) \/ n <= pos + Len(new))
  BY <1>1, <1>n
<1>3. out = [i \in 1..n |->
                IF i > pos /\ i <= pos + Len(new) THEN new[i - pos] ELSE old[i]]
  BY <1>n DEF Overwrite, Overwrites
<1>4. ASSUME NEW i \in 1..n
      PROVE  out[i] \in D /\ (i > pos + Len(new) => out[i] = old[i])
  <2>1. CASE i > pos /\ i <= pos + Len(new)
    <3>1. i - pos \in 1..Len(new) BY <1>1, <2>1
    <3>2. new[i - pos] \in D BY <3>1, ElementOfSeq
    <3> QED BY <1>1, <1>3, <2>1, <3>2
  <2>2. CASE ~(i > pos /\ i <= pos + Len(new))
    <3>1. i \in 1..Len(old) BY <1>1, <1>n, <2>2
    <3>2. old[i] \in D BY <3>1, ElementOfSeq
    <3>3. out[i] = old[i] BY <1>3, <2>2
    <3> QED BY <3>2, <3>3
  <2> QED BY <2>1, <2>2
<1>5. out \in [1..n -> D]
  <2>1. \A i \in 1..n : out[i] \in D BY <1>4
  <2>2. out = [i \in 1..n |-> out[i]] BY <1>3
  <2> QED BY <2>1, <2>2
<1>6. out \in Seq(D) /\ Len(out) = n
  BY <1>n, <1>5, LengthOf
<1>7. \A i \in 1..Len(out) : i > pos + Len(new) => out[i] = old[i] BY <1>4, <1>6
<1> QED BY <1>2, <1>6, <1>7 DEF Overwrote

LEMMA WrittenIsSpared ==
    ASSUME NEW D, NEW data \in Seq(D), NEW old \in Seq(D), NEW k, NEW c \in Nat, NEW e \in Nat,
           Stretch(data, k, c, e), NEW w, Spared(w, D, old, data, c),
           NEW taken \in 0..Len(Piece(data, k))
    PROVE  Spared(Written(w, Piece(data, k), taken), D, old, data, e)
<1>1. Len(data) \in Nat /\ Len(old) \in Nat BY LenProperties
<1>p. PICK piece : piece = Piece(data, k) OBVIOUS
<1>2. piece \in Seq(D) /\ Len(piece) = e - c
  <2>1. Piece(data, k) \in Seq(D) /\ Len(Piece(data, k)) = e - c BY PieceIs
  <2> QED BY <1>p, <2>1
<1>3. c < e /\ e <= Len(data) BY DEF Stretch
<1>s. PICK new : new = SubSeq(piece, 1, taken) OBVIOUS
<1>4. taken \in Nat /\ taken <= e - c BY <1>p, <1>2, <1>3
<1>5. new \in Seq(D) /\ Len(new) = taken
  <2>1. \A i \in 1..taken : i \in 1..Len(piece) BY <1>2, <1>3, <1>4
  <2>2. \A i \in 1..taken : piece[i] \in D BY <1>2, <2>1, ElementOfSeq
  <2>3. 1 \in Int /\ taken \in Int BY <1>4
  <2>4. /\ SubSeq(piece, 1, taken) \in Seq(D)
        /\ Len(SubSeq(piece, 1, taken)) = IF 1 <= taken THEN taken - 1 + 1 ELSE 0
    BY <2>2, <2>3, SubSeqProperties
  <2> QED BY <1>4, <1>s, <2>4
<1>o. PICK pos \in Nat, out \in Seq(D) : pos = w.pos /\ out = w.out BY DEF Spared
<1>6. /\ Len(old) <= Len(out) /\ pos <= c /\ pos <= Len(out)
      /\ \A i \in 1..Len(out) : i > Len(data) => i <= Len(old) /\ out[i] = old[i]
  BY <1>o DEF Spared
<1>w. PICK into : Overwrites(into, out, pos, new) BY DEF Overwrites
<1>7. /\ into \in Seq(D) /\ Len(out) <= Len(into) /\ pos + Len(new) <= Len(into)
      /\ Len(into) <= Len(out) \/ Len(into) <= pos + Len(new)
      /\ \A i \in 1..Len(into) : i > pos + Len(new) => into[i] = out[i]
  <2>1. new \in Seq(D) /\ out \in Seq(D) /\ pos \in Nat BY <1>5, <1>o
  <2>2. pos <= Len(out) BY <1>6
  <2>3. Overwrites(into, out, pos, new) BY <1>w
  <2>4. Overwrote(D, into, out, pos, new) BY <2>1, <2>2, <2>3, OverwriteIs, Zenon
  <2> QED BY <2>4 DEF Overwrote
<1>8. Len(out) \in Nat /\ Len(into) \in Nat BY <1>7, LenProperties
<1>9. pos + taken \in 0..e BY <1>3, <1>4, <1>6
<1>10. ASSUME NEW i \in 1..Len(into), i > Len(data)
       PROVE  i <= Len(old) /\ into[i] = old[i]
  <2>1. i > pos + Len(new) BY <1>1, <1>3, <1>5, <1>9, <1>10
  <2>2. i \in 1..Len(out) BY <1>5, <1>7, <1>8, <2>1
  <2>3. into[i] = out[i] BY <1>7, <2>1
  <2> QED BY <1>6, <1>10, <2>2, <2>3
<1>v. PICK v : v = Written(w, piece, taken) OBVIOUS
<1>11. v.out = into /\ v.pos = pos + taken BY <1>s, <1>o, <1>w, <1>v DEF Written, Overwrites
<1>12. Len(old) <= Len(into) /\ pos + taken <= Len(into) BY <1>1, <1>5, <1>6, <1>7, <1>8
<1>13. Spared(v, D, old, data, e) BY <1>7, <1>9, <1>10, <1>11, <1>12 DEF Spared
<1> QED BY <1>p, <1>v, <1>13

-----------------------------------------------------------------------------
\* The equation of the recursive functions in Copied and KernelCopies, from what
\* there is before the first piece.
Turn(kernel, x, piece) == IF kernel THEN KernelRound(x, piece) ELSE Round(x, piece)
Looping(g, kernel, first, data, m) ==
    g = [k \in 0..m |-> IF k = 0 THEN first ELSE Turn(kernel, g[k - 1], Piece(data, k))]

\* It has a solution.
LEMMA LoopExists ==
    ASSUME NEW kernel, NEW first, NEW data, NEW m \in Nat
    PROVE  \E g : Looping(g, kernel, first, data, m)
<1> DEFINE T == {k \in 0..m : \E g : Looping(g, kernel, first, data, k)}
<1>1. 0 \in T
  <2> DEFINE g == [k \in 0..0 |-> first]
  <2>1. Looping(g, kernel, first, data, 0) BY DEF Looping
  <2> HIDE DEF g
  <2> QED BY <2>1
<1>2. ASSUME NEW k \in 1..m, k - 1 \in T PROVE k \in T
  <2>1. PICK h : Looping(h, kernel, first, data, k - 1) BY <1>2
  <2> DEFINE g == [i \in 0..k |-> IF i < k THEN h[i]
                                  ELSE Turn(kernel, h[k - 1], Piece(data, k))]
  <2>2. ASSUME NEW i \in 0..k
        PROVE  g[i] = IF i = 0 THEN first ELSE Turn(kernel, g[i - 1], Piece(data, i))
    <3>1. CASE i = k BY <3>1
    <3>2. CASE i < k /\ i = 0
      <4>1. 0 \in 0..k - 1 OBVIOUS
      <4> QED BY <2>1, <3>2, <4>1 DEF Looping
    <3>3. CASE i < k /\ i # 0
      <4>1. i \in 0..k - 1 /\ i - 1 \in 0..k /\ i - 1 < k BY <3>3
      <4>2. h[i] = Turn(kernel, h[i - 1], Piece(data, i)) BY <2>1, <3>3, <4>1 DEF Looping
      <4>3. g[i] = h[i] /\ g[i - 1] = h[i - 1] BY <3>3, <4>1
      <4> QED BY <3>3, <4>2, <4>3
    <3> QED BY <3>1, <3>2, <3>3
  <2>3. g = [i \in 0..k |-> g[i]] OBVIOUS
  <2> HIDE DEF g
  <2>4. Looping(g, kernel, first, data, k) BY <2>2, <2>3 DEF Looping
  <2>5. k \in 0..m OBVIOUS
  <2> QED BY <2>4, <2>5
<1>3. 0..m \subseteq T
  <2> HIDE DEF T
  <2> QED BY <1>1, <1>2, Upwards
<1> QED BY <1>3

\* So the copies are its last value.
Blank == [temp |-> [i \in 1..Chunk |-> Stale], out |-> <<>>]
LEMMA CopiedIs ==
    ASSUME NEW data, Pieces(data) \in Nat
    PROVE  \E g : Looping(g, FALSE, Blank, data, Pieces(data)) /\ Copied(data) = g[Pieces(data)].out
<1> DEFINE Eq(g) == g = [k \in 0..Pieces(data) |->
                            IF k = 0 THEN Blank ELSE Round(g[k - 1], Piece(data, k))]
           c == CHOOSE g : Eq(g)
<1>1. \A g : Looping(g, FALSE, Blank, data, Pieces(data)) <=> Eq(g) BY DEF Looping, Turn
<1>2. \E g : Eq(g) BY <1>1, LoopExists
<1>3. Eq(c) BY <1>2
<1>4. Copied(data) = c[Pieces(data)].out BY DEF Copied, Round, Blank
<1> QED BY <1>1, <1>3, <1>4

Untouched(old) == [out |-> old, pos |-> 0]
LEMMA KernelCopiesAre ==
    ASSUME NEW data, Pieces(data) \in Nat, NEW old
    PROVE  \E g : /\ Looping(g, TRUE, {Untouched(old)}, data, Pieces(data))
                  /\ KernelCopies(data, old) = {w.out : w \in g[Pieces(data)]}
<1> DEFINE Eq(g) == g = [k \in 0..Pieces(data) |->
                            IF k = 0 THEN {Untouched(old)}
                            ELSE KernelRound(g[k - 1], Piece(data, k))]
           c == CHOOSE g : Eq(g)
<1>1. \A g : Looping(g, TRUE, {Untouched(old)}, data, Pieces(data)) <=> Eq(g)
  BY DEF Looping, Turn
<1>2. \E g : Eq(g) BY <1>1, LoopExists
<1>3. Eq(c) BY <1>2
<1>4. KernelCopies(data, old) = {w.out : w \in c[Pieces(data)]}
  BY DEF KernelCopies, KernelRound, Written, Untouched
<1> QED BY <1>1, <1>3, <1>4

\* What copy.c writes is as long as the pieces and starts with what it read.
LEMMA CopiedKeeps ==
    ASSUME NEW D, Stale \in D, NEW data \in Seq(D)
    PROVE  /\ Copied(data) \in Seq(D) /\ Len(Copied(data)) = Chunk * Pieces(data)
           /\ \A i \in 1..Len(data) : Copied(data)[i] = data[i]
<1>1. Pieces(data) \in Nat /\ Len(data) <= Chunk * Pieces(data) BY PiecesAre
<1>m. PICK m \in Nat : m = Pieces(data) BY <1>1
<1>g. PICK g : Looping(g, FALSE, Blank, data, m) /\ Copied(data) = g[m].out
  BY <1>1, <1>m, CopiedIs
<1>2. Chunk \in Nat /\ Len(data) \in Nat BY CopyFileAssumption, LenProperties
<1> DEFINE T == {k \in 0..m : Done(g[k], D, data, k * Chunk)}
<1>3. 0 \in T
  <2>1. g[0] = Blank BY <1>g, <1>m DEF Looping
  <2>2. Blank.temp \in [1..Chunk -> D] /\ Blank.out = <<>> BY DEF Blank
  <2>3. <<>> \in Seq(D) /\ Len(<<>>) = 0 BY EmptySeq
  <2>4. 0 * Chunk = 0 /\ \A i \in 1..Len(data) : ~(i <= 0) BY <1>2
  <2>5. Done(Blank, D, data, 0 * Chunk) BY <2>2, <2>3, <2>4 DEF Done
  <2> QED BY <2>1, <2>5
<1>4. ASSUME NEW k \in 1..m, k - 1 \in T PROVE k \in T
  <2>1. PICK c \in Nat, e \in Nat : Stretch(data, k, c, e) BY <1>m, StretchOf
  <2>2. c = (k - 1) * Chunk /\ k * Chunk = c + Chunk BY <2>1 DEF Stretch
  <2>3. g[k] = Round(g[k - 1], Piece(data, k)) BY <1>g DEF Looping, Turn
  <2>x. PICK x : x = g[k - 1] OBVIOUS
  <2>4. Done(x, D, data, c) BY <1>4, <2>2, <2>x
  <2>5. Done(Round(x, Piece(data, k)), D, data, c + Chunk) BY <2>1, <2>4, RoundCopies
  <2> QED BY <2>2, <2>3, <2>5, <2>x
<1>5. 0..m \subseteq T
  <2> HIDE DEF T
  <2> QED BY <1>3, <1>4, Upwards
<1>6. Done(g[m], D, data, m * Chunk) BY <1>5, <1>m
<1>7. m * Chunk = Chunk * m /\ \A i \in 1..Len(data) : i <= m * Chunk
  <2>1. m * Chunk = Chunk * m /\ Chunk * m \in Int BY <1>2
  <2>2. Len(data) <= m * Chunk BY <1>1, <1>m, <2>1
  <2> QED BY <1>2, <2>1, <2>2
<1> QED BY <1>g, <1>m, <1>6, <1>7 DEF Done

\* What copyfile.c leaves is no shorter than what was there, and behind the units
\* read it is what was there.
LEMMA KernelKeeps ==
    ASSUME NEW D, NEW data \in Seq(D), NEW old \in Seq(D), NEW out \in KernelCopies(data, old)
    PROVE  /\ out \in Seq(D) /\ Len(old) <= Len(out)
           /\ \A i \in 1..Len(out) : i > Len(data) => i <= Len(old) /\ out[i] = old[i]
<1>1. Pieces(data) \in Nat BY PiecesAre
<1>m. PICK m \in Nat : m = Pieces(data) BY <1>1
<1>g. PICK g : /\ Looping(g, TRUE, {Untouched(old)}, data, m)
               /\ KernelCopies(data, old) = {w.out : w \in g[m]}
  BY <1>1, <1>m, KernelCopiesAre
<1>2. Chunk \in Nat /\ Len(data) \in Nat /\ Len(old) \in Nat BY CopyFileAssumption, LenProperties
<1> DEFINE T == {k \in 0..m : \A w \in g[k] : Spared(w, D, old, data, k * Chunk)}
<1>3. 0 \in T
  <2>1. g[0] = {Untouched(old)} BY <1>g, <1>m DEF Looping
  <2>2. 0 * Chunk = 0 BY <1>2
  <2>3. Spared(Untouched(old), D, old, data, 0) BY <1>2 DEF Spared, Untouched
  <2> QED BY <2>1, <2>2, <2>3
<1>4. ASSUME NEW k \in 1..m, k - 1 \in T PROVE k \in T
  <2>1. PICK c \in Nat, e \in Nat : Stretch(data, k, c, e) BY <1>m, StretchOf
  <2>2. c = (k - 1) * Chunk /\ k * Chunk = c + Chunk /\ e <= c + Chunk BY <2>1 DEF Stretch
  <2>3. g[k] = KernelRound(g[k - 1], Piece(data, k))
    <3>1. k \in 0..m /\ k # 0 OBVIOUS
    <3>2. g[k] = Turn(TRUE, g[k - 1], Piece(data, k)) BY <1>g, <3>1 DEF Looping
    <3>3. \A x, piece : Turn(TRUE, x, piece) = KernelRound(x, piece) BY DEF Turn
    <3> QED BY <3>2, <3>3
  <2>4. ASSUME NEW w \in g[k] PROVE Spared(w, D, old, data, k * Chunk)
    <3>1. PICK v \in g[k - 1], taken \in 0..Len(Piece(data, k)) :
              w = Written(v, Piece(data, k), taken)
      BY <2>3, <2>4 DEF KernelRound
    <3>2. Spared(v, D, old, data, c) BY <1>4, <2>2
    <3>3. Spared(w, D, old, data, e) BY <2>1, <3>1, <3>2, WrittenIsSpared
    <3>4. \A p \in 0..e : p \in 0..k * Chunk BY <1>2, <2>2
    <3> QED BY <3>3, <3>4 DEF Spared
  <2> QED BY <2>4
<1>5. 0..m \subseteq T
  <2> HIDE DEF T
  <2> QED BY <1>3, <1>4, Upwards
<1>6. \A w \in g[m] : Spared(w, D, old, data, m * Chunk) BY <1>5, <1>m
<1>7. PICK w \in g[m] : out = w.out BY <1>g
<1> QED BY <1>6, <1>7 DEF Spared

-----------------------------------------------------------------------------
(* What the copies do to the files                                         *)

Datum == Units \cup {Stale}     \* what the files may consist of
Fits(x) == \E g \in Names : FirstFiles[g] # NoFile /\ Len(x) <= Chunk * Pieces(FirstFiles[g])
Stock ==
    /\ files \in [Names -> Seq(Datum) \cup {NoFile}]
    /\ \A f \in Names : files[f] \notin {NoFile, <<>>} => Fits(files[f])

\* The files copied from are among those there are.
Sources == \A k \in DOMAIN script :
               script[k].name \in {"copy", "insmod"} => script[k].from \in Names

LEMMA SequencesGrow == ASSUME NEW S, NEW T, S \subseteq T PROVE Seq(S) \subseteq Seq(T)
<1> SUFFICES ASSUME NEW x \in Seq(S) PROVE x \in Seq(T) OBVIOUS
<1>1. Len(x) \in Nat /\ x \in [1..Len(x) -> S] BY LenProperties
<1>2. x \in [1..Len(x) -> T] BY <1>1
<1> QED BY <1>1, <1>2, SeqDef

LEMMA NothingIn == ASSUME NEW D, NEW x \in Seq(D) PROVE x = <<>> <=> Len(x) = 0
BY EmptySeq

\* A file that fits still does when its length is rounded up.
LEMMA RoundedFits ==
    ASSUME NEW x \in Seq(Datum), Fits(x), NEW out, Len(out) = Chunk * Pieces(x)
    PROVE  Fits(out)
<1>1. PICK g \in Names : FirstFiles[g] # NoFile /\ Len(x) <= Chunk * Pieces(FirstFiles[g])
  BY DEF Fits
<1>2. FirstFiles[g] \in Seq(Units) BY <1>1, ProgramsAssumption DEF Names
<1>3. PICK m \in Nat : m = Pieces(FirstFiles[g]) BY <1>2, PiecesAre
<1>4. Len(x) <= Chunk * m BY <1>1, <1>3
<1>5. Chunk * Pieces(x) <= Chunk * m BY <1>4, PiecesAtMost
<1> QED BY <1>1, <1>3, <1>5 DEF Fits

LEMMA ShorterFits ==
    ASSUME NEW D, NEW x \in Seq(D), Fits(x), NEW y \in Seq(D), Len(y) <= Len(x)
    PROVE  Fits(y)
<1>1. PICK g \in Names : FirstFiles[g] # NoFile /\ Len(x) <= Chunk * Pieces(FirstFiles[g])
  BY DEF Fits
<1>2. FirstFiles[g] \in Seq(Units) BY <1>1, ProgramsAssumption DEF Names
<1>3. PICK m \in Nat : m = Pieces(FirstFiles[g]) BY <1>2, PiecesAre
<1>4. Chunk * m \in Int /\ Len(x) \in Int /\ Len(y) \in Int
  BY LenProperties, CopyFileAssumption
<1> QED BY <1>1, <1>3, <1>4 DEF Fits

\* One file replaced by another that fits.
LEMMA StockStays ==
    ASSUME Stock, NEW to, NEW x \in Seq(Datum), x = <<>> \/ Fits(x),
           NEW w, w = [files EXCEPT ![to] = x]
    PROVE  /\ w \in [Names -> Seq(Datum) \cup {NoFile}]
           /\ \A f \in Names : w[f] \notin {NoFile, <<>>} => Fits(w[f])
<1>1. \A f \in Names : w[f] = IF f = to THEN x ELSE files[f] BY DEF Stock
<1> QED BY <1>1 DEF Stock

LEMMA CopiedFits ==
    ASSUME Stock, NEW from \in Names, files[from] # NoFile, NEW to,
           NEW opened, opened = [files EXCEPT ![to] = <<>>], NEW x, x = Copied(opened[from])
    PROVE  x \in Seq(Datum) /\ (x = <<>> \/ Fits(x))
<1>d. PICK data : data = opened[from] OBVIOUS
<1>1. data \in Seq(Datum) /\ (data = <<>> \/ Fits(data))
  <2>1. <<>> \in Seq(Datum) BY EmptySeq
  <2> QED BY <1>d, <2>1 DEF Stock
<1>2. x \in Seq(Datum) /\ Len(x) = Chunk * Pieces(data)
  <2>1. Stale \in Datum BY DEF Datum
  <2> QED BY <1>1, <1>d, <2>1, CopiedKeeps
<1>3. CASE data = <<>>
  <2>1. Len(data) = 0 BY <1>3, EmptySeq
  <2>2. PICK p \in Nat : p = Pieces(data) BY <1>1, PiecesAre
  <2>3. Chunk * p < Chunk
    <3>1. Chunk * Pieces(data) < Len(data) + Chunk BY <1>1, PiecesAre
    <3> QED BY <2>1, <2>2, <3>1, CopyFileAssumption
  <2>4. p = 0 BY <2>3, CopyFileAssumption
  <2>5. Len(x) = 0 BY <1>2, <2>2, <2>4, CopyFileAssumption
  <2> QED BY <1>2, <2>5, NothingIn
<1>4. CASE Fits(data) BY <1>1, <1>2, <1>4, RoundedFits
<1> QED BY <1>1, <1>2, <1>3, <1>4

LEMMA CopyKeepsStock ==
    ASSUME Stock, NEW from \in Names, NEW to, files' = Copy(files, from, to)
    PROVE  Stock'
<1>o. PICK opened : opened = [files EXCEPT ![to] = <<>>] OBVIOUS
<1>1. <<>> \in Seq(Datum) BY EmptySeq
<1>2. CASE files[from] = NoFile
  <2>1. files' = opened BY <1>2, <1>o DEF Copy
  <2> QED BY <1>1, <1>o, <2>1, StockStays DEF Stock
<1>3. CASE files[from] # NoFile
  <2>x. PICK x : x = Copied(opened[from]) OBVIOUS
  <2>1. x \in Seq(Datum) /\ (x = <<>> \/ Fits(x)) BY <1>3, <1>o, <2>x, CopiedFits
  <2>2. files' = [files EXCEPT ![to] = x]
    <3>1. files' = [opened EXCEPT ![to] = x] BY <1>3, <1>o, <2>x DEF Copy
    <3>2. [opened EXCEPT ![to] = x] = [files EXCEPT ![to] = x] BY <1>o DEF Stock
    <3> QED BY <3>1, <3>2
  <2> QED BY <2>1, <2>2, StockStays DEF Stock
<1> QED BY <1>2, <1>3

\* A beginning of a copy fits as the whole does.
LEMMA CutShortKeepsStock ==
    ASSUME Stock, NEW from \in Names, NEW to, files' \in CopyCutShort(files, from, to)
    PROVE  Stock'
<1>p. PICK opened : opened = [files EXCEPT ![to] = <<>>] OBVIOUS
<1>x. PICK x : x = IF files[from] = NoFile THEN <<>> ELSE Copied(opened[from]) OBVIOUS
<1>o. /\ opened = [files EXCEPT ![to] = <<>>]
      /\ x = IF files[from] = NoFile THEN <<>> ELSE Copied(opened[from])
  BY <1>p, <1>x
<1>1. x \in Seq(Datum) /\ (x = <<>> \/ Fits(x))
  <2>1. CASE files[from] = NoFile BY <1>o, <2>1, EmptySeq
  <2>2. CASE files[from] # NoFile BY <1>o, <2>2, CopiedFits
  <2> QED BY <2>1, <2>2
<1>2. CASE files' = files BY <1>2 DEF Stock
<1>3. CASE files' # files
  <2>1. PICK n \in 0..Len(x) : files' = [opened EXCEPT ![to] = SubSeq(x, 1, n)]
    BY <1>o, <1>3 DEF CopyCutShort
  <2>2. PICK part : part = SubSeq(x, 1, n) OBVIOUS
  <2>3. Len(x) \in Nat /\ n \in Nat /\ n <= Len(x) BY <1>1, LenProperties
  <2>4. part \in Seq(Datum) /\ Len(part) = n
    <3>1. \A i \in 1..n : i \in 1..Len(x) BY <2>3
    <3>2. \A i \in 1..n : x[i] \in Datum BY <1>1, <3>1, ElementOfSeq
    <3>3. PICK k \in Int : k = n /\ 1 \in Int BY <2>3
    <3>4. /\ SubSeq(x, 1, k) \in Seq(Datum)
          /\ Len(SubSeq(x, 1, k)) = IF 1 <= k THEN k - 1 + 1 ELSE 0
      BY <3>2, <3>3, SubSeqProperties
    <3> QED BY <2>2, <2>3, <3>3, <3>4
  <2>5. part = <<>> \/ Fits(part)
    <3>1. CASE x = <<>>
      <4>1. Len(part) = 0 BY <2>3, <2>4, <3>1, EmptySeq
      <4> QED BY <2>4, <4>1, NothingIn
    <3>2. CASE Fits(x) BY <1>1, <2>3, <2>4, <3>2, ShorterFits
    <3> QED BY <1>1, <3>1, <3>2
  <2>6. files' = [files EXCEPT ![to] = part] BY <1>o, <2>1, <2>2 DEF Stock
  <2> QED BY <2>4, <2>5, <2>6, StockStays DEF Stock
<1> QED BY <1>2, <1>3

LEMMA InsmodKeepsStock ==
    ASSUME Stock, NEW from \in Names, NEW to, files' \in Insmod(files, from, to)
    PROVE  Stock'
<1>1. CASE files[from] = NoFile \/ files' = files BY <1>1 DEF Insmod, Stock
<1>2. CASE files[from] # NoFile /\ files' # files /\ to \notin Names
  <2>1. PICK out : files' = [files EXCEPT ![to] = out] BY <1>2 DEF Insmod
  <2>2. files' = files BY <1>2, <2>1 DEF Stock
  <2> QED BY <2>2 DEF Stock
<1>3. CASE files[from] # NoFile /\ files' # files /\ to \in Names
  <2>d. PICK data, old : data = files[from]
                         /\ old = IF files[to] = NoFile THEN <<>> ELSE files[to]
    OBVIOUS
  <2>1. PICK out \in KernelCopies(data, old) : files' = [files EXCEPT ![to] = out]
    BY <1>3, <2>d DEF Insmod
  <2>2. data \in Seq(Datum) /\ (data = <<>> \/ Fits(data)) BY <1>3, <2>d DEF Stock
  <2>3. old \in Seq(Datum) /\ (old = <<>> \/ Fits(old))
    <3>1. <<>> \in Seq(Datum) BY EmptySeq
    <3> QED BY <1>3, <2>d, <3>1 DEF Stock
  <2>4. /\ out \in Seq(Datum) /\ Len(old) <= Len(out)
        /\ \A i \in 1..Len(out) : i > Len(data) => i <= Len(old) /\ out[i] = old[i]
    BY <2>1, <2>2, <2>3, KernelKeeps
  <2>5. Len(out) \in Nat /\ Len(old) \in Nat /\ Len(data) \in Nat
    BY <2>2, <2>3, <2>4, LenProperties
  <2>6. out = <<>> \/ Fits(out)
    <3>1. CASE Len(out) = 0 BY <2>4, <3>1, NothingIn
    <3>2. CASE Len(out) # 0 /\ Len(out) <= Len(data)
      <4>1. data # <<>> BY <2>5, <3>2, EmptySeq
      <4> QED BY <2>2, <2>4, <3>2, <4>1, ShorterFits
    <3>3. CASE Len(out) # 0 /\ Len(out) > Len(data)
      <4>1. Len(out) \in 1..Len(out) BY <2>5, <3>3
      <4>2. Len(out) <= Len(old) BY <2>4, <3>3, <4>1
      <4>3. old # <<>> BY <2>5, <3>3, <4>2, EmptySeq
      <4> QED BY <2>3, <2>4, <4>2, <4>3, ShorterFits
    <3> QED BY <2>5, <3>1, <3>2, <3>3
  <2> QED BY <2>1, <2>4, <2>6, StockStays DEF Stock
<1> QED BY <1>1, <1>2, <1>3

LEMMA KeepsSources ==
    ASSUME ShellInv, Sources, [Next]_vars
    PROVE  Sources'
<1>1. Lines /\ ShellStep BY ShellSees DEF ShellInv
<1>2. CASE ReadTyped
  <2>1. PICK c \in Typed : script' = Append(script, c) BY <1>2 DEF ReadTyped
  <2>2. script \in Seq(Typed) BY <1>1, <1>2 DEF ReadTyped, Lines
  <2>3. script' \in Seq(Typed) BY <2>1, <2>2, AppendProperties
  <2>4. \A k \in DOMAIN script' : script'[k] \in Typed BY <2>3, ElementOfSeq, LenProperties
  <2> QED BY <2>4, ProgramsAssumption DEF Sources, Names
<1>3. CASE ~ReadTyped
  <2>1. script' = script
    BY <1>1, <1>3 DEF ShellStep, ReadScript, EndOfScript, CannotSplit, EmptyLine, ExitCommand,
       Fork, ForkFails, Return, Exec, ExecFails, EndBySignal, Become, Ended, shellVars
  <2> QED BY <2>1 DEF Sources
<1> QED BY <1>2, <1>3

LEMMA KeepsStock ==
    ASSUME ShellInv, Sources, Stock, [Next]_vars
    PROVE  Stock'
<1>1. ASSUME child \in {"running", "stopped"}, Command.name \in {"copy", "insmod"}
      PROVE  Command.from \in Names
  <2>1. at \in 1..Len(script) /\ DOMAIN script = 1..Len(script)
    BY <1>1 DEF ShellInv, Place, Lines, ShellTypeOK
  <2>2. at \in DOMAIN script BY <2>1
  <2>3. script[at].name \in {"copy", "insmod"} => script[at].from \in Names
    BY <2>2 DEF Sources
  <2> QED BY <1>1, <2>3, Zenon DEF Command
<1>2. CASE RunCopy
  <2>1. Command.from \in Names /\ files' = Copy(files, Command.from, Command.to)
    BY <1>1, <1>2 DEF RunCopy, Foreground
  <2> PICK from \in Names : from = Command.from BY <2>1
  <2> PICK to : to = Command.to OBVIOUS
  <2> QED BY <2>1, CopyKeepsStock
<1>3. CASE RunInsmod
  <2>1. Command.from \in Names /\ files' \in Insmod(files, Command.from, Command.to)
    BY <1>1, <1>3 DEF RunInsmod, Foreground
  <2> PICK from \in Names : from = Command.from BY <2>1
  <2> PICK to : to = Command.to OBVIOUS
  <2> QED BY <2>1, InsmodKeepsStock
<1>4. ASSUME files' = files PROVE Stock' BY <1>4 DEF Stock
<1>5. CASE Killed
  <2>1. child \in {"running", "stopped"} BY <1>5 DEF Killed, EndBySignal
  <2>2. CASE Command.name = "shm" BY <1>4, <1>5, <2>2 DEF Killed
  <2>3. CASE Command.name \in {"copy", "insmod"}
    <3>1. PICK from \in Names : from = Command.from BY <1>1, <2>1, <2>3
    <3>2. PICK to : to = Command.to OBVIOUS
    <3>3. \/ files' \in CopyCutShort(files, from, to) \/ files' \in Insmod(files, from, to)
      BY <1>5, <2>3, <3>1, <3>2 DEF Killed
    <3> QED BY <3>3, CutShortKeepsStock, InsmodKeepsStock
  <2> QED BY <1>5, <2>2, <2>3 DEF Killed
<1>6. CASE ~RunCopy /\ ~RunInsmod /\ ~Killed
  <2>1. files' = files
    BY <1>6 DEF Next, vars, ShellAlone, TypeCommand, Launch, Signalled, RunReceiver,
       RunSender, TypeText, KilledEarly
  <2> QED BY <1>4, <2>1
<1> QED BY <1>2, <1>3, <1>5, <1>6

LEMMA StartsInStock == Init => Stock /\ Sources
<1> SUFFICES ASSUME Init PROVE Stock /\ Sources OBVIOUS
<1>1. files = FirstFiles BY DEF Init
<1>2. Stock
  <2>1. Seq(Units) \subseteq Seq(Datum)
    <3>1. Units \subseteq Datum BY DEF Datum
    <3> QED BY <3>1, SequencesGrow
  <2>2. ASSUME NEW f \in Names, FirstFiles[f] # NoFile PROVE Fits(FirstFiles[f])
    <3>1. FirstFiles[f] \in Seq(Units) BY <2>2, ProgramsAssumption DEF Names
    <3>2. Len(FirstFiles[f]) <= Chunk * Pieces(FirstFiles[f]) BY <3>1, PiecesAre
    <3> QED BY <2>2, <3>2 DEF Fits
  <2>3. FirstFiles \in [Names -> Seq(Datum) \cup {NoFile}]
    BY <2>1, ProgramsAssumption DEF Names
  <2> QED BY <1>1, <2>2, <2>3 DEF Stock
<1>3. Sources
  <2>1. CASE script \in Scripts
    <3>1. \A k \in DOMAIN script : script[k] \in UNION {{s[j] : j \in DOMAIN s} : s \in Scripts}
      BY <2>1
    <3> QED BY <3>1, ProgramsAssumption DEF Sources, Names
  <2>2. CASE script = <<>>
    <3>1. DOMAIN script = {} BY <2>2
    <3> QED BY <3>1 DEF Sources
  <2> QED BY <2>1, <2>2 DEF Init, ShellInit
<1> QED BY <1>2, <1>3

\* What the files hold always is what the copies promise to keep.
LEMMA StockKeepsData == Stock => CopiesKeepData
<1> SUFFICES ASSUME Stock PROVE CopiesKeepData OBVIOUS
<1>1. \A f \in Names : files[f] # NoFile => files[f] \in Seq(Datum) BY DEF Stock
<1>2. Stale \in Datum /\ <<>> \in Seq(Datum) BY EmptySeq DEF Datum
<1>3. ASSUME NEW f \in Names, NEW g \in Names, f # g, files[f] # NoFile
      PROVE  LET from == files[f]
                 out  == Copy(files, f, g)[g]
             IN /\ SubSeq(out, 1, Len(from)) = from
                /\ Len(out) = Chunk * Pieces(from)
                /\ out = <<>> => from = <<>>
  <2>f. PICK from \in Seq(Datum) : from = files[f] BY <1>1, <1>3
  <2>o. PICK out : out = Copied(from) OBVIOUS
  <2>1. Copy(files, f, g)[g] = out
    <3>1. PICK opened : opened = [files EXCEPT ![g] = <<>>] OBVIOUS
    <3>2. g \in DOMAIN opened /\ opened[f] = from BY <1>3, <2>f, <3>1 DEF Stock
    <3>3. Copy(files, f, g) = [opened EXCEPT ![g] = Copied(opened[f])]
      BY <1>3, <3>1 DEF Copy
    <3> QED BY <2>o, <3>2, <3>3
  <2>2. /\ out \in Seq(Datum) /\ Len(out) = Chunk * Pieces(from)
        /\ \A i \in 1..Len(from) : out[i] = from[i]
    BY <1>2, <2>o, CopiedKeeps
  <2>3. Len(from) \in Nat /\ Len(out) \in Nat /\ Len(from) <= Len(out)
    BY <2>2, LenProperties, PiecesAre
  <2>p. PICK part : part = SubSeq(out, 1, Len(from)) OBVIOUS
  <2>4. /\ part \in Seq(Datum) /\ Len(part) = Len(from)
        /\ \A i \in 1..Len(from) : part[i] = from[i]
    <3>1. \A i \in 1..Len(from) : i \in 1..Len(out) BY <2>3
    <3>2. \A i \in 1..Len(from) : out[i] \in Datum BY <2>2, <3>1, ElementOfSeq
    <3>3. PICK n \in Int : n = Len(from) /\ 1 \in Int BY <2>3
    <3>4. /\ SubSeq(out, 1, n) \in Seq(Datum)
          /\ Len(SubSeq(out, 1, n)) = IF 1 <= n THEN n - 1 + 1 ELSE 0
          /\ \A i \in 1..n - 1 + 1 : SubSeq(out, 1, n)[i] = out[1 + i - 1]
      BY <3>2, <3>3, SubSeqProperties
    <3> QED BY <2>2, <2>3, <2>p, <3>3, <3>4
  <2>5. part = from
    <3>1. part \in [1..Len(from) -> Datum] /\ from \in [1..Len(from) -> Datum]
      BY <2>4, LenProperties
    <3> QED BY <2>4, <3>1
  <2>6. out = <<>> => from = <<>>
    <3>1. out = <<>> => Len(out) = 0 BY <2>2, NothingIn
    <3>2. Len(from) = 0 => from = <<>> BY NothingIn
    <3> QED BY <2>3, <3>1, <3>2
  <2> QED BY <2>f, <2>1, <2>2, <2>5, <2>p, <2>6
<1>4. ASSUME NEW f \in Names, NEW g \in Names, files[f] # NoFile, files[g] # NoFile,
             NEW w \in KernelCopies(files[f], files[g])
      PROVE  /\ Len(w) >= Len(files[g])
             /\ \A i \in DOMAIN w : i > Len(files[f]) => w[i] = files[g][i]
  <2>f. PICK from \in Seq(Datum), to \in Seq(Datum) : from = files[f] /\ to = files[g]
    BY <1>1, <1>4
  <2>1. /\ w \in Seq(Datum) /\ Len(to) <= Len(w)
        /\ \A i \in 1..Len(w) : i > Len(from) => i <= Len(to) /\ w[i] = to[i]
    BY <1>4, <2>f, KernelKeeps
  <2>2. DOMAIN w = 1..Len(w) /\ Len(w) \in Nat /\ Len(to) \in Nat BY <2>1, LenProperties
  <2> QED BY <2>f, <2>1, <2>2
<1>5. \A f \in Names : files[f] \notin {NoFile, <<>>} =>
          \E g \in Names : /\ FirstFiles[g] # NoFile
                           /\ Len(files[f]) <= Chunk * Pieces(FirstFiles[g])
  BY DEF Stock, Fits
<1> QED BY <1>3, <1>4, <1>5 DEF CopiesKeepData

\* Whatever a script does to the files, a copy keeps what it reads and grows by no
\* more than is needed to fill its last piece, for every size of the pieces.
THEOREM CopiesAlwaysKeepData == Spec => []CopiesKeepData
<1>1. Spec => [](Stock /\ Sources)
  BY StartsInStock, KeepsStock, KeepsSources, ShellInvariant, PTL DEF Spec
<1> QED BY <1>1, StockKeepsData, PTL

===============================================================================
