----------------------------- MODULE MapReduce ------------------------------
(***************************************************************************)
(* mp7 libmapreduce: map_all forks a map process for each value, each with *)
(* a pipe, and starts one worker, which reads the pipes with epoll, cuts   *)
(* what it reads into lines and reduces each into the store.  A byte is a  *)
(* record of its task, its line and its place in the line; the last byte   *)
(* of a line is its newline.  The value of a line is the set of that line, *)
(* and my_reduce is the union.                                             *)
(***************************************************************************)
EXTENDS Store, SequencesExt

CONSTANTS
  Lines,          \* for each task, in the order of the forks, its lines
  PIPE_CAPACITY,  \* bytes that a pipe holds
  BUFFER_SIZE,
  MaxFailures     \* bound on the calls of fork that fail

ASSUME SizesAssumption == {PIPE_CAPACITY, BUFFER_SIZE} \subseteq Nat \ {0}

\* A line has a key and, with its newline, at least one byte.
Keys == UNION {{Lines[t][i].key : i \in DOMAIN Lines[t]} : t \in DOMAIN Lines}
ASSUME LinesAssumption == Lines \in Seq(Seq([key : Keys, len : Nat \ {0}]))

VARIABLES
  forked,         \* the tasks that map_all has come to so far
  failed,         \* history: those of them whose fork failed
  output,         \* the bytes that each map process has still to write
  pipe,           \* the bytes in each pipe
  writers,        \* the processes that hold the write end of each pipe
  watched,        \* the pipes that epoll watches
  counter,        \* the worker's count of pipes left
  buffs,          \* the buffer of each pipe
  worker,         \* where the worker is: the pair it processes, if any
  DS,             \* the data store
  main            \* where the main thread is

vars == << forked, failed, output, pipe, writers, watched, counter, buffs, worker, DS, main >>
mapVars == << forked, failed, output, writers >>
workVars == << watched, counter, buffs, worker, DS >>

Tasks == 1..Len(Lines)
Parent == 0
Line(t, i) == [j \in 1..Lines[t][i].len |-> [task |-> t, line |-> i, place |-> j]]
Output(t) == FlattenSeq([i \in DOMAIN Lines[t] |-> Line(t, i)])
IsNewline(byte) == byte.place = Lines[byte.task][byte.line].len
KeyOf(line) == Lines[line[1].task][line[1].line].key

NotStarted == [pc |-> "not started"]
Waiting == [pc |-> "epoll_wait"]

\* mapreduce_init and the first loop of mapreduce_map_all.
Init ==
  /\ forked = {} /\ failed = {}
  /\ output = [t \in Tasks |-> Output(t)]
  /\ pipe = [t \in Tasks |-> << >>]
  /\ writers = [t \in Tasks |-> {Parent}]
  /\ watched = {}
  /\ counter = Len(Lines)
  /\ buffs = [t \in Tasks |-> << >>]
  /\ worker = NotStarted
  /\ DS = EmptyStore
  /\ main = "map_all"
-----------------------------------------------------------------------------
NextTask == Cardinality(forked) + 1

ForkKeepsWriteEnd(t) ==      \* mutant: the parent does not close the write end
  /\ main = "map_all" /\ t = NextTask
  /\ forked' = forked \cup {t} /\ watched' = watched \cup {t}
  /\ writers' = [p \in Tasks |-> IF Parent \in writers[p] THEN writers[p] \cup {t} ELSE writers[p]]
  /\ UNCHANGED << failed, output, pipe, counter, buffs, worker, DS, main >>
\* Fork gives the child the write ends that the parent still holds.
Fork(t) ==
  /\ main = "map_all" /\ t = NextTask
  /\ forked' = forked \cup {t}
  /\ writers' = [p \in Tasks |-> IF Parent \in writers[p]
                                   THEN (writers[p] \cup {t}) \ (IF p = t THEN {Parent} ELSE {})
                                   ELSE writers[p]]
  /\ watched' = watched \cup {t}
  /\ UNCHANGED << failed, output, pipe, counter, buffs, worker, DS, main >>

\* When fork fails, the parent keeps the write end and watches the pipe.
ForkFails(t) ==
  /\ main = "map_all" /\ t = NextTask
  /\ Cardinality(failed) < MaxFailures
  /\ forked' = forked \cup {t} /\ failed' = failed \cup {t}
  /\ watched' = watched \cup {t}
  /\ output' = [output EXCEPT ![t] = << >>]
  /\ UNCHANGED << pipe, writers, counter, buffs, worker, DS, main >>

StartWorker ==
  /\ main = "map_all" /\ forked = Tasks
  /\ worker' = Waiting
  /\ main' = "mapped"
  /\ UNCHANGED << mapVars, pipe, watched, counter, buffs, DS >>
-----------------------------------------------------------------------------
\* The map process t, which holds its own write end until it exits.
Runs(t) == t \in writers[t]

\* A write blocks while the pipe is full.
Write(t) ==
  /\ Runs(t) /\ output[t] # << >>
  /\ Len(pipe[t]) < PIPE_CAPACITY
  /\ pipe' = [pipe EXCEPT ![t] = Append(@, Head(output[t]))]
  /\ output' = [output EXCEPT ![t] = Tail(@)]
  /\ UNCHANGED << forked, failed, writers, workVars, main >>

Exit(t) ==
  /\ Runs(t) /\ output[t] = << >>
  /\ writers' = [p \in Tasks |-> writers[p] \ {t}]
  /\ UNCHANGED << forked, failed, output, pipe, workVars, main >>
-----------------------------------------------------------------------------
ReadyAtAnyTime(t) == t \in watched      \* mutant: read does not block
\* epoll is level-triggered: it reports a pipe with bytes or without writers.
Ready(t) == t \in watched /\ (pipe[t] # << >> \/ writers[t] = {})

\* What read returns: nothing at the end of file, and also for no room.
ReadOf(t) == SubSeq(pipe[t], 1, Min({Len(pipe[t]), BUFFER_SIZE - Len(buffs[t])}))

\* Where read_from_fd goes on with a buffer: a whole line in it is next.
Processing(t, buffer) ==
  IF \E n \in DOMAIN buffer : IsNewline(buffer[n]) THEN [pc |-> "put", task |-> t] ELSE Waiting

\* The worker waits, then reads what the pipe has and the buffer has room for.
Read(t) ==
  LET bytes == ReadOf(t) IN
  /\ worker = Waiting /\ counter # 0
  /\ Ready(t)
  /\ bytes # << >>
  /\ pipe' = [pipe EXCEPT ![t] = SubSeq(@, Len(bytes) + 1, Len(@))]
  /\ buffs' = [buffs EXCEPT ![t] = @ \o bytes]
  /\ worker' = Processing(t, buffs[t] \o bytes)
  /\ UNCHANGED << mapVars, watched, counter, DS, main >>

\* When read_from_fd returns 0, the worker takes the pipe for closed.
Closed(t) ==
  /\ worker = Waiting /\ counter # 0
  /\ Ready(t)
  /\ ReadOf(t) = << >>
  /\ counter' = counter - 1
  /\ watched' = watched \ {t}
  /\ UNCHANGED << mapVars, pipe, buffs, worker, DS, main >>

\* The first line in a buffer, and what is left after it.
LineLength(buffer) == CHOOSE n \in DOMAIN buffer :
  IsNewline(buffer[n]) /\ \A m \in 1..(n - 1) : ~IsNewline(buffer[m])
FirstLine(buffer) == SubSeq(buffer, 1, LineLength(buffer))
ShiftAll(t) ==      \* mutant: the rest of the buffer is dropped
  buffs' = [buffs EXCEPT ![t] = << >>] /\ worker' = Waiting
Shift(t) ==
  LET rest == SubSeq(buffs[t], LineLength(buffs[t]) + 1, Len(buffs[t])) IN
  /\ buffs' = [buffs EXCEPT ![t] = rest]
  /\ worker' = Processing(t, rest)

my_reduce(value, val) == value \cup val

PutOnly ==      \* mutant: a pair whose key is held already is dropped
  /\ worker.pc = "put"
  /\ LET line == FirstLine(buffs[worker.task]) IN DS' = WithPut(DS, KeyOf(line), {line})
  /\ Shift(worker.task)
  /\ UNCHANGED << mapVars, pipe, watched, counter, main >>
\* process_key_value: a put, and for a key held already a get and an update.
Put ==
  LET line == FirstLine(buffs[worker.task]) IN
  /\ worker.pc = "put"
  /\ DS' = WithPut(DS, KeyOf(line), {line})
  /\ IF Holds(DS, KeyOf(line)) THEN worker' = [worker EXCEPT !.pc = "get"] /\ UNCHANGED buffs
                               ELSE Shift(worker.task)
  /\ UNCHANGED << mapVars, pipe, watched, counter, main >>

Get ==
  LET line == FirstLine(buffs[worker.task]) IN
  /\ worker.pc = "get"
  /\ worker' = [pc |-> "update", task |-> worker.task, seen |-> DS[KeyOf(line)]]
  /\ UNCHANGED << mapVars, pipe, watched, counter, buffs, DS, main >>

Update ==
  LET line == FirstLine(buffs[worker.task]) IN
  /\ worker.pc = "update"
  /\ DS' = WithUpdate(DS, KeyOf(line), my_reduce({line}, worker.seen.value), worker.seen.rev)
  /\ Shift(worker.task)
  /\ UNCHANGED << mapVars, pipe, watched, counter, main >>

WorkerEnds ==
  /\ worker = Waiting /\ counter = 0
  /\ worker' = [pc |-> "ended"]
  /\ UNCHANGED << mapVars, pipe, watched, counter, buffs, DS, main >>
-----------------------------------------------------------------------------
mapreduce_reduce_all ==
  /\ main = "mapped" /\ worker.pc = "ended"
  /\ main' = "reduced"
  /\ UNCHANGED << mapVars, pipe, workVars >>

\* The main thread may ask at any time; the store's mutex makes it one step.
mapreduce_get_value(key) == IF Holds(DS, key) THEN DS[key].value ELSE {}

Work ==
  \/ \E t \in Tasks : Read(t) \/ Closed(t)
  \/ Put \/ Get \/ Update \/ WorkerEnds

\* The main thread goes on with the results.
Finished == main = "reduced" /\ UNCHANGED vars

MapAll == \E t \in Tasks : Fork(t) \/ ForkFails(t)

Next ==
  \/ MapAll \/ StartWorker \/ mapreduce_reduce_all \/ Finished
  \/ \E t \in Tasks : Write(t) \/ Exit(t)
  \/ Work

Spec == Init /\ [][Next]_vars

\* The kernel schedules each process and thread that can run, and the program
\* calls map_all and reduce_all.
FairSpec ==
  /\ Spec
  /\ WF_vars(MapAll) /\ WF_vars(StartWorker) /\ WF_vars(mapreduce_reduce_all)
  /\ WF_vars(Work)
  /\ \A t \in Tasks : WF_vars(Write(t) \/ Exit(t))
-----------------------------------------------------------------------------
AllLines == UNION {{Line(t, i) : i \in DOMAIN Lines[t]} : t \in Tasks}
AllKeys == {KeyOf(line) : line \in AllLines}

\* The pairs of task t that the store has.
Stored(t) == {line \in UNION {DS[k].value : k \in DOMAIN DS} : line[1].task = t}

(* Between a map process and the store no byte is lost, repeated or out of *)
(* order, whatever the reads cut its lines into: the store has the first   *)
(* lines of the task, and the buffer, the pipe and the process the rest.   *)
StreamIntact ==
  \A t \in Tasks : t \notin failed =>
    \E n \in 0..Len(Lines[t]) :
      /\ {Line(t, i) : i \in 1..n} = Stored(t)
      /\ FlattenSeq([i \in 1..n |-> Line(t, i)]) \o buffs[t] \o pipe[t] \o output[t] = Output(t)

(* The worker stops to watch a pipe only when its map process has written  *)
(* everything and all of it is in the store.                               *)
ClosedMeansAllRead ==
  \A t \in forked \ watched : Stored(t) = {Line(t, i) : i \in DOMAIN Lines[t]} \/ t \in failed

(* The library implements the abstract reduction.                          *)
Abstract == INSTANCE Reduction WITH
  Pairs    <- AllLines,
  KeyOf    <- KeyOf,
  result   <- [k \in AllKeys |-> mapreduce_get_value(k)],
  returned <- main = "reduced"
ImplementsReduction == Abstract!Spec

(* reduce_all returns if no fork fails: the write end of every pipe is     *)
(* closed in the end, although children hold those of each other.          *)
ReduceAllReturns == [](failed = {}) => <>(main = "reduced")
=============================================================================
