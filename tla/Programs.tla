------------------------------- MODULE Programs -------------------------------
(***************************************************************************)
(* myshell and what it starts: copies of files, which run while the shell  *)
(* waits, and the shared memory program, whose parent the shell waits for  *)
(* and whose child may outlive it.                                         *)
(***************************************************************************)
EXTENDS MyShell, SharedMemory, CopyFile, FiniteSets

CONSTANTS
          Units,      \* what a file may consist of
          FirstFiles  \* the files there are, and those there are not

\* The files a command copies from are among them.
ASSUME ProgramsAssumption ==
    /\ FirstFiles \in [DOMAIN FirstFiles -> Seq(Units) \cup {NoFile}]
    /\ \A c \in Typed \cup UNION {{s[k] : k \in DOMAIN s} : s \in Scripts} :
          c.name \in {"copy", "insmod"} => c.from \in DOMAIN FirstFiles

VARIABLES
          files,   \* the contents
          ran,     \* auxiliary: the lines whose command was executed
          cut      \* auxiliary: those of them that a signal ended
vars == <<shellVars, shmVars, files, ran, cut>>

Names == DOMAIN FirstFiles
Current == Cardinality({r \in Runs : spc[r] # "none"})   \* the last run
Foreground(name) == child = "running" /\ Command.name = name

-----------------------------------------------------------------------------
\* The shell by itself.
ShellAlone == /\ \/ ReadScript \/ EndOfScript \/ CannotSplit \/ EmptyLine
                 \/ ExitCommand \/ Fork \/ ForkFails \/ Return \/ ExecFails
              /\ UNCHANGED <<shmVars, files, ran, cut>>

\* The user types a command; MaxRuns bounds the runs of one program.
TypeCommand ==
    /\ ReadTyped
    /\ Current = MaxRuns => script'[at'].name # "shm"
    /\ UNCHANGED <<shmVars, files, ran, cut>>

Launch ==
    /\ Exec /\ ran' = ran \cup {at}
    /\ \/ Command.name = "shm" /\ Start(Current + 1)
       \/ Command.name # "shm" /\ UNCHANGED shmVars
    /\ UNCHANGED <<files, cut>>

Signalled == Signal /\ UNCHANGED <<shmVars, files, ran, cut>>

\* Nobody looks at the files while the shell waits, so that a copy is one step,
\* with the outcomes it can have when it ends.
RunCopy ==
    /\ Foreground("copy") /\ Become("done")
    /\ files' = Copy(files, Command.from, Command.to)
    /\ UNCHANGED <<shmVars, ran, cut>>

RunInsmod ==
    /\ Foreground("insmod") /\ Become("done")
    /\ files' \in Insmod(files, Command.from, Command.to)
    /\ UNCHANGED <<shmVars, ran, cut>>

\* A signal ends the child: before it is a command, part-way through a copy, or
\* as the parent of a run of the shared memory program.
KilledEarly ==
    /\ child = "ready" /\ EndBySignal
    /\ UNCHANGED <<shmVars, files, ran, cut>>

Killed ==
    /\ child # "ready" /\ EndBySignal /\ cut' = cut \cup {at}
    /\ \/ /\ Command.name = "copy" /\ UNCHANGED shmVars
          /\ files' \in CopyCutShort(files, Command.from, Command.to)
       \/ /\ Command.name = "insmod" /\ UNCHANGED shmVars
          /\ files' \in Insmod(files, Command.from, Command.to)
       \/ Command.name = "shm" /\ KillReceiver(Current) /\ UNCHANGED files
    /\ UNCHANGED ran

RunReceiver ==
    /\ Foreground("shm")
    /\ \/ ReceiverGets(Current) \/ ReceiverWaits(Current)
       \/ CopyText(Current) \/ Answer(Current)
    /\ Become(IF rpc'[Current] \in Gone THEN "done" ELSE "running")
    /\ UNCHANGED <<files, ran, cut>>

\* A sender goes on whatever the shell does.
RunSender(r) ==
    /\ SenderGets(r) \/ Store(r) \/ Post(r) \/ SenderWaits(r) \/ Over(r)
    /\ UNCHANGED <<shellVars, files, ran, cut>>

\* The user types a text, and a sender gets it.
TypeText(r) == Scan(r) /\ UNCHANGED <<shellVars, files, ran, cut>>

Init == ShellInit /\ ShmInit /\ files = FirstFiles /\ ran = {} /\ cut = {}

Next == \/ ShellAlone \/ TypeCommand \/ Launch \/ Signalled
        \/ RunCopy \/ RunInsmod \/ RunReceiver \/ KilledEarly \/ Killed
        \/ \E r \in Runs : RunSender(r) \/ TypeText(r)

\* Every process gets on unless a signal ends it, a stopped one is continued some
\* time, and the user answers who asks for a text.
Continued == child = "stopped" /\ Signalled
Fairness ==
    /\ WF_vars(ShellAlone) /\ WF_vars(Launch) /\ WF_vars(Continued)
    /\ SF_vars(RunCopy) /\ SF_vars(RunInsmod) /\ SF_vars(RunReceiver)
    /\ \A r \in Runs : WF_vars(RunSender(r)) /\ WF_vars(TypeText(r))

Spec == Init /\ [][Next]_vars /\ Fairness

-----------------------------------------------------------------------------
(* Properties                                                              *)

TypeOK ==
    /\ ShellTypeOK /\ ShmTypeOK
    /\ DOMAIN files = Names
    /\ cut \subseteq ran /\ ran \subseteq DOMAIN script

\* When the shell asks for a command again, no process of the commands before
\* is left but senders: those whose receiver ran to its end have had their text
\* read, and only one whose receiver did not get the segment or was ended by a
\* signal may still ask for its text, from the stdin the shell reads.  The types
\* go with it.
LeftoversAreSenders ==
    /\ TypeOK
    /\ pc = "read" => \A r \in Runs :
        /\ rpc[r] \in Gone \cup {"none"}
        /\ rpc[r] = "gone" => spc[r] \in {"wait", "over1", "over2", "gone"}

\* What the executed lines among the first k make of the files.
Effect(i, w) ==
    LET c == script[i]
    IN IF c.name = "copy" /\ i \in cut THEN CopyCutShort(w, c.from, c.to)
       ELSE IF c.name = "copy" THEN {Copy(w, c.from, c.to)}
       ELSE IF c.name = "insmod" THEN Insmod(w, c.from, c.to) ELSE {w}
Effects(k) ==
    LET after[i \in 0..k] ==
            IF i = 0 THEN {FirstFiles}
            ELSE IF i \notin ran THEN after[i - 1]
            ELSE UNION {Effect(i, w) : w \in after[i - 1]}
    IN after[k]

\* A script's commands take effect one after the other, each once, unless one of
\* them could not be executed; so do those at a terminal.  A copy takes effect
\* completely, or was ended by a signal: then its destination is as before or
\* begins as the copy does, and the commands behind it see that (main.c:96).
CommandsTakeEffectInOrder ==
    pc # "wait" /\ (terminal \/ Missing = {}) => files \in Effects(at)

\* What the two copies do to a file, whatever the files hold by then.  None gets
\* longer than the longest was at first, rounded up.  copy.c loses nothing of
\* another file, and rounds its length up; it empties a file only when told to
\* read that very file, or one that is empty or not there (copy.c:11).
\* copyfile.c leaves the rest of a longer destination behind what it writes,
\* however much the kernel takes of each piece.
CopiesKeepData ==
    /\ \A f \in Names : files[f] \notin {NoFile, <<>>} =>
          \E g \in Names : /\ FirstFiles[g] # NoFile
                           /\ Len(files[f]) <= Chunk * Pieces(FirstFiles[g])
    /\ \A f, g \in Names :
           LET from == files[f]
               to   == files[g]
               out  == Copy(files, f, g)[g]
           IN /\ f # g /\ from # NoFile =>
                    /\ SubSeq(out, 1, Len(from)) = from
                    /\ Len(out) = Chunk * Pieces(from)
              /\ out = <<>> => f = g \/ from \in {NoFile, <<>>}
              /\ from # NoFile /\ to # NoFile =>
                    \A w \in KernelCopies(from, to) :
                       /\ Len(w) >= Len(to)
                       /\ \A i \in DOMAIN w : i > Len(from) => w[i] = to[i]

\* A script comes to its end, if at most one of its commands cannot be executed.
\* Two are enough to go round for ever.
ScriptEnds == ~terminal /\ Cardinality(Missing) <= 1 ~> pc = "ended"

\* Sender and receiver both return once both have the segment, unless a signal
\* ends the receiver.
BothReturn ==
    \A r \in Runs : spc[r] = "scan" /\ rpc[r] = "wait"
                        ~> \/ spc[r] = "gone" /\ rpc[r] = "gone"
                           \/ rpc[r] = "killed"
=============================================================================
