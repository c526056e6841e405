------------------------------- MODULE Shell --------------------------------
(***************************************************************************)
(* mp3: the loop of shell.c over the log of log.c, and the child process   *)
(* of each command.  A line is a sequence of symbols.  The log keeps its   *)
(* first allocation: what its realloc loses is left out, and so are lines  *)
(* of more than 7 characters and a shell whose input ends.                 *)
(***************************************************************************)
EXTENDS Naturals, Sequences, FiniteSetsExt

CONSTANTS
  Commands,     \* the lines other than "exit" and those that begin with "!"
  Queries,      \* what is typed behind "!"
  LogSize,      \* the pointers that log_init makes room for
  NULL

VARIABLES
  pc, line,     \* of the shell: its place and the current line
  the_log,
  child,        \* the command of the child it waits for, or NULL
  typed,        \* the query that led to line, or NULL
  ran           \* what an onlooker sees: the commands begun, and their queries

vars == << pc, line, the_log, child, typed, ran >>

Exit == << "exit" >>
Begins(l, prefix) == Len(prefix) <= Len(l) /\ SubSeq(l, 1, Len(prefix)) = prefix
IsCd(l) == Head(l) = "cd"

log_init == the_log = << >>
Init == /\ log_init
        /\ pc = "prompt" /\ line = NULL /\ child = NULL
        /\ typed = NULL /\ ran = << >>

\* The newest entry that begins with prefix, or NULL.
OldestMatch(prefix) ==      \* mutant: the search begins at the other end
  LET m == {i \in DOMAIN the_log : Begins(the_log[i], prefix)}
  IN  IF m = {} THEN NULL ELSE the_log[Min(m)]
log_search(prefix) ==
  LET m == {i \in DOMAIN the_log : Begins(the_log[i], prefix)}
  IN  IF m = {} THEN NULL ELSE the_log[Max(m)]

log_push(l) == the_log' = Append(the_log, l)
Begin == ran' = Append(ran, [command |-> line, query |-> typed])

\* getline.  An empty line and "!#", which prints the log, go back to it.
getline ==
  /\ pc = "prompt" /\ Len(the_log) < LogSize
  /\ \/ \E l \in Commands \cup {Exit} : line' = l /\ typed' = NULL /\ pc' = "decide"
     \/ \E q \in Queries : line' = q /\ typed' = q /\ pc' = "search"
  /\ UNCHANGED << the_log, child, ran >>

Search ==
  /\ pc = "search"
  /\ \/ /\ log_search(line) # NULL
        /\ line' = log_search(line) /\ typed' = typed /\ pc' = "decide"
     \/ /\ log_search(line) = NULL
        /\ line' = NULL /\ typed' = NULL /\ pc' = "prompt"
  /\ UNCHANGED << the_log, child, ran >>

ExitShell ==
  /\ pc = "decide" /\ line = Exit
  /\ the_log' = << >>        \* log_push and, before the loop ends, log_destroy
  /\ Begin
  /\ pc' = "exit"
  /\ UNCHANGED << line, child, typed >>

\* It is logged also when the directory does not exist.
cd ==
  /\ pc = "decide" /\ line # Exit /\ IsCd(line)
  /\ log_push(line) /\ Begin
  /\ pc' = "prompt" /\ line' = NULL /\ typed' = NULL
  /\ UNCHANGED child

fork ==
  /\ pc = "decide" /\ line # Exit /\ ~IsCd(line)
  /\ log_push(line)
  /\ child' = line
  /\ pc' = "wait"
  /\ UNCHANGED << line, typed, ran >>

\* The child prints its pid, and runs the program or fails to; either way
\* it ends.
execvp ==
  /\ child # NULL
  /\ child' = NULL /\ Begin
  /\ UNCHANGED << pc, line, the_log, typed >>

waitpid ==
  /\ pc = "wait" /\ child = NULL
  /\ pc' = "prompt" /\ line' = NULL /\ typed' = NULL
  /\ UNCHANGED << the_log, child, ran >>

Next == getline \/ Search \/ ExitShell \/ cd \/ fork \/ execvp \/ waitpid
Spec == Init /\ [][Next]_vars
-----------------------------------------------------------------------------
(* shell.html: !query re-executes the last command whose prefix matches    *)
(* query.  It is stated of what was seen to run, commands that were run    *)
(* again included, and not of the log: the log must hold all of that, in   *)
(* its order, whichever branch of the shell ran it.                        *)
LastMatchRuns ==
  \A n \in DOMAIN ran :
    LET q == ran[n].query
        before == {i \in 1..n - 1 : Begins(ran[i].command, q)}
    IN  q # NULL => before # {} /\ ran[n].command = ran[Max(before)].command
=============================================================================
