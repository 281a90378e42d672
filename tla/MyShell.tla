-------------------------------- MODULE MyShell --------------------------------
(***************************************************************************)
(* myshell of exp3: a loop that reads a line, splits it, forks, lets the   *)
(* child execute the command and waits for it.                             *)
(*                                                                         *)
(* stdin is a terminal or a script.  A script is read into stdio's buffer  *)
(* as a whole, and the child inherits both a copy of the buffer and the    *)
(* one file offset.  A child that cannot execute its command calls exit,   *)
(* and exit gives what is left in a buffer back: it moves the offset, the  *)
(* shell's too, back by as much.  Offsets count lines, which are taken to  *)
(* have the same length.  What a command does is the business of the       *)
(* module that composes this one with the programs.                        *)
(***************************************************************************)
EXTENDS Integers, Sequences

CONSTANTS
          BUFFER_SIZE,  \* of parse_line
          IntMax,       \* the largest int, and more than realloc gives
          Scripts,      \* the scripts stdin may be
          Typed,        \* the commands typed at a terminal
          MaxTyped      \* bound: so many of them

ASSUME MyShellAssumption ==
    /\ BUFFER_SIZE \in Nat \ {0} /\ IntMax \in Nat /\ MaxTyped \in Nat
    /\ \A s \in Scripts : Len(s) \in Nat /\ DOMAIN s = 1..Len(s)
    /\ \A s \in Scripts : \A k \in DOMAIN s : s[k].tokens \in Nat
    /\ \A c \in Typed : c.tokens \in Nat

VARIABLES
          script,   \* stdin's lines; at a terminal, those typed so far
          terminal, \* whether it is one
          off,      \* the offset of stdin, shared with every child
          rp, re,   \* the shell's buffer holds the lines rp + 1..re
          at,       \* the line the shell is at
          pc,       \* "read", "execute", "wait" or "ended"
          child     \* "none", "ready", "running", "stopped" or "done"
shellVars == <<script, terminal, off, rp, re, at, pc, child>>

Command == script[at]

-----------------------------------------------------------------------------
(* parse_line                                                              *)

\* The token array after so many tokens.  From BUFFER_SIZE on it is doubled for
\* every one, until the int overflows or realloc refuses, and the shell exits.
GrownTooLate(n) ==                      \* mutant: > for >=
    LET grown[m \in 0..n] ==
            IF m <= BUFFER_SIZE THEN [bufsize |-> BUFFER_SIZE, ok |-> TRUE]
            ELSE LET size == grown[m - 1].bufsize * 2
                 IN [bufsize |-> size, ok |-> grown[m - 1].ok /\ size <= IntMax]
    IN grown[n]
Grown(n) ==
    LET grown[m \in 0..n] ==
            IF m < BUFFER_SIZE THEN [bufsize |-> BUFFER_SIZE, ok |-> TRUE]
            ELSE LET size == grown[m - 1].bufsize * 2
                 IN [bufsize |-> size, ok |-> grown[m - 1].ok /\ size <= IntMax]
    IN grown[n]

-----------------------------------------------------------------------------
(* The loop                                                                *)

Ended == pc' = "ended" /\ UNCHANGED <<script, terminal, off, rp, re, at, child>>

ReadScriptAgain ==                      \* mutant: the stream is rewound at its end
    /\ pc = "read" /\ ~terminal
    /\ LET empty == rp = re
           first == IF empty THEN 0 ELSE rp
       IN /\ first < Len(script)
          /\ rp' = first + 1 /\ at' = first + 1
          /\ re' = IF empty THEN Len(script) ELSE re
          /\ off' = IF empty THEN Len(script) ELSE off
    /\ pc' = "execute"
    /\ UNCHANGED <<script, terminal, child>>
\* getline on a script: from the buffer, or from the file at the offset.
ReadScript ==
    /\ pc = "read" /\ ~terminal
    /\ LET empty == rp = re
           first == IF empty THEN off ELSE rp
       IN /\ first < Len(script)
          /\ rp' = first + 1 /\ at' = first + 1
          /\ re' = IF empty THEN Len(script) ELSE re
          /\ off' = IF empty THEN Len(script) ELSE off
    /\ pc' = "execute"
    /\ UNCHANGED <<script, terminal, child>>

EndOfScript == pc = "read" /\ ~terminal /\ rp = re /\ off = Len(script) /\ Ended

\* At a terminal a line is read as it is typed, and nothing beyond it.
ReadTyped ==
    /\ pc = "read" /\ terminal /\ Len(script) < MaxTyped
    /\ \E c \in Typed : script' = Append(script, c)
    /\ at' = Len(script) + 1 /\ pc' = "execute"
    /\ UNCHANGED <<terminal, off, rp, re, child>>

CannotSplit == pc = "execute" /\ ~Grown(Command.tokens).ok /\ Ended

Parsed == pc = "execute" /\ Grown(Command.tokens).ok

EmptyLine ==
    /\ Parsed /\ Command.name = "empty" /\ pc' = "read"
    /\ UNCHANGED <<script, terminal, off, rp, re, at, child>>

ExitCommand == Parsed /\ Command.name = "exit" /\ Ended

Fork ==
    /\ Parsed /\ Command.name \notin {"empty", "exit"}
    /\ pc' = "wait" /\ child' = "ready"
    /\ UNCHANGED <<script, terminal, off, rp, re, at>>

ForkFails ==
    /\ Parsed /\ Command.name \notin {"empty", "exit"} /\ pc' = "read"
    /\ UNCHANGED <<script, terminal, off, rp, re, at, child>>

ReturnOnStop ==                         \* mutant: the loop is left on a stop
    /\ pc = "wait" /\ child \in {"done", "stopped"}
    /\ pc' = "read" /\ child' = "none"
    /\ UNCHANGED <<script, terminal, off, rp, re, at>>
\* waitpid also returns when the child stops; the loop then waits again.  It is
\* left when the child has exited or a signal has ended it.
Return ==
    /\ pc = "wait" /\ child = "done"
    /\ pc' = "read" /\ child' = "none"
    /\ UNCHANGED <<script, terminal, off, rp, re, at>>

-----------------------------------------------------------------------------
(* The child                                                               *)

Become(s) == child' = s /\ UNCHANGED <<script, terminal, off, rp, re, at, pc>>

Exec == child = "ready" /\ Command.name # "missing" /\ Become("running")

ExecFailsByOneMore ==                   \* mutant: its own line is given back too
    /\ child = "ready" /\ Command.name = "missing" /\ child' = "done"
    /\ off' = IF terminal \/ off <= re - rp THEN off ELSE off - (re - rp) - 1
    /\ UNCHANGED <<script, terminal, rp, re, at, pc>>
\* execvp fails and exit moves the offset back by what the buffer still holds,
\* if that is not before the start.  A terminal has no offset.
ExecFails ==
    /\ child = "ready" /\ Command.name = "missing" /\ child' = "done"
    /\ off' = IF terminal \/ off < re - rp THEN off ELSE off - (re - rp)
    /\ UNCHANGED <<script, terminal, rp, re, at, pc>>

Signal == \/ child = "running" /\ Become("stopped")
          \/ child = "stopped" /\ Become("running")

\* A signal may also end the child, the one that has not executed anything yet
\* included; exit is not called then, and the offset stays.
EndBySignal == child \in {"ready", "running", "stopped"} /\ Become("done")

ShellInit ==
    /\ \/ terminal = FALSE /\ script \in Scripts
       \/ terminal = TRUE /\ script = <<>>
    /\ off = 0 /\ rp = 0 /\ re = 0 /\ at = 0 /\ pc = "read" /\ child = "none"

-----------------------------------------------------------------------------
(* Properties                                                              *)

ShellTypeOK ==
    /\ terminal \in BOOLEAN /\ at \in 0..Len(script)
    /\ off \in 0..Len(script) /\ rp \in 0..re /\ re \in 0..Len(script)
    /\ pc \in {"read", "execute", "wait", "ended"}
    /\ child \in {"none", "ready", "running", "stopped", "done"}

\* tokens[position] lies inside the array for every token and for the NULL
\* behind the last one, however many a line has (main.c:50 to 64).
TokensFit ==
    pc \in {"execute", "wait"} =>
        \A n \in 0..Command.tokens : Grown(n).ok => n < Grown(n).bufsize

Missing == {k \in DOMAIN script : script[k].name = "missing"}

\* A script is run line by line, each line once; only a command that could not
\* be executed, somewhere before, makes the shell go back (main.c:85).  If there
\* is but one such command it goes back no further than to the line behind it.
GoesBackOnlySo ==
    [][at' # at =>
          \/ at' = at + 1
          \/ /\ ~terminal /\ \E k \in Missing : k <= at
             /\ \A k \in Missing : Missing = {k} => at' > k]_shellVars
=============================================================================
