------------------------------ MODULE Parmake -------------------------------
(***************************************************************************)
(* parmake.c: threads that run main_loop on three queues of rules.  The    *)
(* queues are not locked.  With one thread each step below is a stretch of *)
(* main_loop that nothing interrupts; with more, each is one of the        *)
(* orders that the threads may take, with the calls of queue.c undivided,  *)
(* and the code has still others.                                          *)
(***************************************************************************)
EXTENDS Makefile

CONSTANTS
  Threads,        \* the threads that -j asks for
  Inputs          \* makefiles with command lines and disks, see MCParmake

VARIABLES
  input,
  num_rules,
  rule_q, run_q, finished_q,
  disk,           \* the modification time of each file, or Absent
  clock,          \* the time of day
  thread,         \* where each thread is in main_loop
  exited          \* a command has failed and exit(1) was called

vars == << input, num_rules, rule_q, run_q, finished_q, disk, clock, thread, exited >>
queues == << rule_q, run_q, finished_q >>
world == << disk, clock, exited >>
settings == << input, num_rules >>

Absent == -1

ASSUME InputsAssumption ==
  \A i \in Inputs :
    /\ Rules(i.lines) \in Seq([target : DOMAIN i.disk, deps : Seq(DOMAIN i.disk), commands : Nat])
    /\ i.disk \in [DOMAIN i.disk -> Nat \cup {Absent}] /\ i.clock \in Nat

Parsed == parser_parse_makefile(input.lines, input.targets)

Init ==
  /\ input \in Inputs
  /\ rule_q = Parsed /\ run_q = << >> /\ finished_q = << >>
  /\ num_rules = Len(rule_q)
  /\ disk = input.disk
  /\ clock = input.clock
  /\ thread = [t \in Threads |-> [at |-> "while"]]
  /\ exited = FALSE
-----------------------------------------------------------------------------
Targets(q) == {r.target : r \in ToSet(q)}
is_dep_finished(target) == target \in Targets(finished_q)

is_ruleFinished(target) == is_dep_finished(target)      \* mutant: rule_q is forgotten
\* A rule that is in run_q counts as none.
is_rule(target) == is_dep_finished(target) \/ target \in Targets(rule_q)

is_file(name) == disk[name] # Absent
all_deps_files(r) == \A d \in ToSet(r.deps) : is_file(d)

OlderThanAll(r) == \A d \in ToSet(r.deps) : disk[r.target] <= disk[d]      \* mutant
OlderThanSome(r) == \E d \in ToSet(r.deps) : disk[r.target] <= disk[d]

\* can_run answers 1 to run the rule, 2 if it is up to date, 0 for not yet.
can_run(r) ==
  CASE all_deps_files(r) /\ is_file(r.target) /\ ~OlderThanSome(r) -> 2
    [] all_deps_files(r) /\ (is_file(r.target) => OlderThanSome(r)) -> 1
    [] OTHER -> IF \A d \in ToSet(r.deps) : is_rule(d) => is_dep_finished(d) THEN 1 ELSE 0
-----------------------------------------------------------------------------
At(t, place) == ~exited /\ thread[t].at = place
Goto(t, place) == thread' = [thread EXCEPT ![t] = place]

While(t) ==
  /\ At(t, "while")
  /\ Goto(t, IF Len(finished_q) < num_rules THEN [at |-> "for", i |-> 1] ELSE [at |-> "end"])
  /\ UNCHANGED << settings, queues, world >>

\* The rule that the loop over rule_q is at; removing it leaves i at the next.
AtRule(t) == At(t, "for") /\ thread[t].i \in DOMAIN rule_q
Current(t) == rule_q[thread[t].i]
RemoveCurrent(t) == rule_q' = RemoveAt(rule_q, thread[t].i)

ToRun(t) ==
  /\ AtRule(t) /\ can_run(Current(t)) = 1
  /\ run_q' = Append(run_q, Current(t))
  /\ RemoveCurrent(t)
  /\ UNCHANGED << settings, finished_q, world, thread >>

ToFinished(t) ==
  /\ AtRule(t) /\ can_run(Current(t)) = 2
  /\ finished_q' = Append(finished_q, Current(t))
  /\ RemoveCurrent(t)
  /\ UNCHANGED << settings, run_q, world, thread >>

NotYet(t) ==
  /\ AtRule(t) /\ can_run(Current(t)) = 0
  /\ Goto(t, [thread[t] EXCEPT !.i = @ + 1])
  /\ UNCHANGED << settings, queues, world >>

Running(r) == [at |-> "run_rule", rule |-> r, command |-> 1]
Draining == [at |-> "dequeue"]

\* queue_iterate starts at the head of run_q.
ForEnds(t) ==
  /\ At(t, "for") /\ thread[t].i \notin DOMAIN rule_q
  /\ Goto(t, IF run_q = << >> THEN Draining ELSE Running(Head(run_q)))
  /\ UNCHANGED << settings, queues, world >>
-----------------------------------------------------------------------------
\* A command succeeds; the last one of a rule writes its target.  The clock
\* has a resolution of seconds: it may have moved since, or not.
RunCommand(t) ==
  LET r == thread[t].rule IN
  /\ At(t, "run_rule") /\ thread[t].command <= r.commands
  /\ clock' \in {clock, clock + 1}
  /\ disk' = IF thread[t].command = r.commands THEN [disk EXCEPT ![r.target] = clock'] ELSE disk
  /\ Goto(t, [thread[t] EXCEPT !.command = @ + 1])
  /\ UNCHANGED << settings, queues, exited >>

CommandFails(t) ==
  /\ At(t, "run_rule") /\ thread[t].command <= thread[t].rule.commands
  /\ thread[t].rule.target \in input.failing
  /\ exited' = TRUE
  /\ UNCHANGED << settings, queues, disk, clock, thread >>

\* The node after that of r in run_q.  If another thread has freed that of r,
\* what next is read is undefined, and so is all that follows.
NextNode(r) ==
  CASE r \notin ToSet(run_q) -> [at |-> "undefined"]
    [] r = Last(run_q)       -> Draining
    [] OTHER                 -> Running(run_q[1 + CHOOSE i \in DOMAIN run_q : run_q[i] = r])

RuleRanUnfinished(t) ==      \* mutant: the rule is not put into finished_q
  /\ At(t, "run_rule") /\ thread[t].command > thread[t].rule.commands
  /\ Goto(t, NextNode(thread[t].rule))
  /\ UNCHANGED << settings, queues, world >>
RuleRan(t) ==
  /\ At(t, "run_rule") /\ thread[t].command > thread[t].rule.commands
  /\ finished_q' = Append(finished_q, thread[t].rule)
  /\ Goto(t, NextNode(thread[t].rule))
  /\ UNCHANGED << settings, rule_q, run_q, world >>

Dequeue(t) ==
  /\ At(t, "dequeue")
  /\ IF run_q = << >> THEN Goto(t, [at |-> "while"]) /\ UNCHANGED run_q
                      ELSE run_q' = Tail(run_q) /\ UNCHANGED thread
  /\ UNCHANGED << settings, rule_q, finished_q, world >>

main_loop(t) ==
  \/ While(t) \/ ToRun(t) \/ ToFinished(t) \/ NotYet(t) \/ ForEnds(t)
  \/ RunCommand(t) \/ CommandFails(t) \/ RuleRan(t) \/ Dequeue(t)

Next == \E t \in Threads : main_loop(t)

\* Each thread runs as long as it can.
Spec == Init /\ [][Next]_vars /\ \A t \in Threads : WF_vars(main_loop(t))
-----------------------------------------------------------------------------
(* The parser announces exactly the rules that the targets need, and each  *)
(* is waiting, or in run_q, or finished, and never twice: a rule missed or *)
(* taken twice would be forgotten, or be run again.                        *)
RulesConserved ==
  /\ Targets(rule_q \o run_q \o finished_q) = Needed(input.lines, input.targets)
  /\ IsInjective(rule_q \o run_q) /\ IsInjective(rule_q \o finished_q)

(* "Only once the dependency that the rule depends on finishes running all *)
(* of its commands should a dependency be considered met": while a rule    *)
(* runs, those of its dependencies that are rules have finished.           *)
DependenciesMet ==
  \A t \in Threads : thread[t].at = "run_rule" =>
    \A d \in ToSet(thread[t].rule.deps) \cap Targets(Parsed) : is_dep_finished(d)

(* What make is for: at the end no file that a rule writes is missing, or  *)
(* older than one that it is made from, although rules were skipped.       *)
BuiltUpToDate ==
  (\A t \in Threads : thread[t].at = "end") =>
    \A r \in ToSet(Parsed) : r.commands > 0 =>
      is_file(r.target) /\ \A d \in ToSet(r.deps) : disk[r.target] >= disk[d]

(* The build ends: a command fails, or every rule has finished (which are  *)
(* those that the targets need, by RulesConserved).                        *)
BuildEnds ==
  <>(exited \/ (rule_q \o run_q = << >> /\ \A t \in Threads : thread[t].at = "end"))
=============================================================================
