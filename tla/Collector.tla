----------------------------- MODULE Collector ------------------------------
(***************************************************************************)
(* ds10: a process forks n children with a pipe each and prints what comes *)
(* through, as epoll reports it.  A fork copies every descriptor that is   *)
(* open, and a pipe ends when no process holds its write end any more.     *)
(***************************************************************************)
EXTENDS Naturals, FiniteSets

CONSTANT n

VARIABLES
  pc, i,               \* main
  readers, writers,    \* of each pipe: the processes that hold its ends
  data,                \* the pipes with a message in them
  added,               \* the pipes that were added to epoll_fd
  child,               \* what each child does
  counter, ev,         \* main: ends of file to wait for, pipe that was reported
  printed,             \* how often the message of each child was printed
  late                 \* history: main has read from a descriptor it had closed

vars == << pc, i, readers, writers, data, added, child, counter, ev, printed, late >>
loopVars == << pc, counter, ev, printed, late >>

Pipe == 0 .. n - 1
Parent == n
Init ==
  /\ pc = "pipe" /\ i = 0 /\ counter = n /\ ev = 0
  /\ readers = [p \in Pipe |-> {}] /\ writers = [p \in Pipe |-> {}]
  /\ data = {} /\ added = {} /\ late = FALSE
  /\ child = [p \in Pipe |-> "none"]
  /\ printed = [p \in Pipe |-> 0]

pipe ==
  /\ pc = "pipe" /\ i < n
  /\ readers' = [readers EXCEPT ![i] = {Parent}]
  /\ writers' = [writers EXCEPT ![i] = {Parent}]
  /\ pc' = "fork"
  /\ UNCHANGED << i, data, added, child, counter, ev, printed, late >>

Inherited(holders) == [p \in Pipe |-> IF Parent \in holders[p] THEN holders[p] \cup {i} ELSE holders[p]]
fork ==
  /\ pc = "fork"
  /\ readers' = Inherited(readers) /\ writers' = Inherited(writers)
  /\ child' = [child EXCEPT ![i] = "close"]
  /\ pc' = "add"
  /\ UNCHANGED << i, data, added, counter, ev, printed, late >>

AddOnly ==      \* mutant: the parent keeps its write end open
  /\ pc = "add"
  /\ added' = added \cup {i}
  /\ i' = i + 1
  /\ pc' = IF i' = n THEN "wait" ELSE "pipe"
  /\ UNCHANGED << readers, writers, data, child, counter, ev, printed, late >>

CloseAndAdd ==
  /\ pc = "add"
  /\ writers' = [writers EXCEPT ![i] = @ \ {Parent}]
  /\ added' = added \cup {i}
  /\ i' = i + 1
  /\ pc' = IF i' = n THEN "wait" ELSE "pipe"
  /\ UNCHANGED << readers, data, child, counter, ev, printed, late >>

\* epoll reports a pipe as long as anybody holds its read end, also after
\* the parent has closed its own.
epoll_wait ==
  /\ pc = "wait" /\ counter > 0
  /\ \E p \in added : /\ readers[p] # {} /\ (p \in data \/ writers[p] = {})
                      /\ ev' = p
  /\ pc' = "read"
  /\ UNCHANGED << i, readers, writers, data, added, child, counter, printed, late >>

read ==
  /\ pc = "read" /\ pc' = "wait"
  /\ \/ /\ Parent \in readers[ev] /\ ev \in data
        /\ printed' = [printed EXCEPT ![ev] = @ + 1]
        /\ data' = data \ {ev}
        /\ UNCHANGED << readers, counter, late >>
     \/ /\ Parent \notin readers[ev] \/ ev \notin data
        /\ counter' = counter - 1
        /\ readers' = [readers EXCEPT ![ev] = @ \ {Parent}]
        /\ late' = (late \/ Parent \notin readers[ev])
        /\ UNCHANGED << data, printed >>
  /\ UNCHANGED << i, writers, added, child, ev >>

return ==
  /\ pc = "wait" /\ counter = 0
  /\ pc' = "return"
  /\ readers' = [p \in Pipe |-> readers[p] \ {Parent}]
  /\ UNCHANGED << i, writers, data, added, child, counter, ev, printed, late >>
-----------------------------------------------------------------------------
\* A child closes the read ends up to its own, one by one,
CloseNext(c) ==
  /\ child[c] = "close"
  /\ \E p \in 0..c :
       /\ c \in readers[p] /\ \A q \in 0..p - 1 : c \notin readers[q]
       /\ readers' = [readers EXCEPT ![p] = @ \ {c}]
       /\ child' = [child EXCEPT ![c] = IF p = c THEN "write" ELSE "close"]
  /\ UNCHANGED << i, writers, data, added, loopVars >>

\* sleeps and writes, or dies of SIGPIPE when nobody is left to read,
write(c) ==
  /\ child[c] = "write"
  /\ \/ /\ readers[c] # {} /\ data' = data \cup {c}
        /\ child' = [child EXCEPT ![c] = "exit"] /\ UNCHANGED writers
     \/ /\ readers[c] = {} /\ data' = data
        /\ child' = [child EXCEPT ![c] = "gone"]
        /\ writers' = [p \in Pipe |-> writers[p] \ {c}]
  /\ UNCHANGED << i, readers, added, loopVars >>

\* and closes its write end and exits.
exit(c) ==
  /\ child[c] = "exit"
  /\ child' = [child EXCEPT ![c] = "gone"]
  /\ writers' = [p \in Pipe |-> writers[p] \ {c}]
  /\ UNCHANGED << i, readers, data, added, loopVars >>

Main == pipe \/ fork \/ CloseAndAdd \/ epoll_wait \/ read \/ return
Child(c) == CloseNext(c) \/ write(c) \/ exit(c)
Next == Main \/ \E c \in Pipe : Child(c)
Fairness == WF_vars(Main) /\ \A c \in Pipe : WF_vars(Child(c))
Spec == Init /\ [][Next]_vars /\ Fairness
-----------------------------------------------------------------------------
(* The collector ends: each pipe reaches its end of file although every    *)
(* child is a copy of a process that holds other pipes.  Unless it was     *)
(* told of a pipe that it had closed already and a slow child had not, it  *)
(* has printed the message of every child once by then.                    *)
CollectsAll ==
  <>(pc = "return" /\ (late \/ \A p \in Pipe : printed[p] = 1))
=============================================================================
