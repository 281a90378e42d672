------------------------------ MODULE MCPrograms ------------------------------
(* Every script of at most four lines, and three lines typed at a terminal,  *)
(* with two runs of the shared memory program; an array of four tokens that  *)
(* can be doubled once.                                                      *)
EXTENDS Programs

MCCommand(name, tokens, from, to) ==
    [name |-> name, tokens |-> tokens, from |-> from, to |-> to]
MCCopy == MCCommand("copy", 3, "a", "b")
MCCopyBack == MCCommand("copy", 4, "b", "a")
MCCopySelf == MCCommand("copy", 3, "a", "a")
MCMissing == MCCommand("missing", 1, "", "")
MCScripts == UNION {[1..n -> {MCCopy, MCCopyBack, MCMissing}] : n \in 0..4}
             \cup [1..2 -> {MCCopySelf, MCCopy, MCCommand("exit", 1, "", "")}]
MCTyped == {MCCommand("shm", 1, "", ""), MCCommand("insmod", 3, "b", "a"),
            MCCommand("copy", 3, "c", "b"), MCMissing,
            MCCommand("empty", 0, "", ""), MCCommand("missing", 5, "", "")}
MCFiles == [f \in {"a", "b", "c"} |->
               CASE f = "a" -> <<"1", "2", "3">> [] f = "b" -> <<"4">> [] f = "c" -> NoFile]
=============================================================================
