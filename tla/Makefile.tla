------------------------------ MODULE Makefile ------------------------------
(***************************************************************************)
(* parser.c: the rules that parser_parse_makefile announces for the        *)
(* targets of the command line, and in which order.  A line of a makefile  *)
(* is a record of its targets, its dependencies and how many commands      *)
(* follow it; the text it is read from is left out.                        *)
(***************************************************************************)
EXTENDS Integers, SequencesExt

\* Each target of a line becomes a rule with the dependencies and commands of all.
Rule(target, line) == [target |-> target, deps |-> line.deps, commands |-> line.commands]
RulesOf(line) == [i \in DOMAIN line.targets |-> Rule(line.targets[i], line)]
Rules(lines) == FlattenSeq([n \in DOMAIN lines |-> RulesOf(lines[n])])

findMatch(curRule, validRules) == \E v \in ToSet(validRules) : curRule.target \in ToSet(v.deps)

Sort(l, r, isValid) == IF isValid THEN [l EXCEPT !.valid = Append(@, r)]
                                  ELSE [l EXCEPT !.rules = Append(@, r)]

InitialLists(rules, targets) ==
  FoldLeft(LAMBDA l, r : Sort(l, r, r.target \in ToSet(targets)), [valid |-> << >>, rules |-> << >>], rules)

\* One scan over the rules: those that a valid one depends on are moved behind the valid ones.
Scan(lists) ==
  FoldLeft(LAMBDA l, r : Sort(l, r, findMatch(r, l.valid)), [valid |-> lists.valid, rules |-> << >>], lists.rules)

filterOnTargetsOnce(rules, targets) == Scan(InitialLists(rules, targets)).valid      \* mutant: a single search
\* The scans are repeated until one moves nothing; each but the last moves a rule.
filterOnTargets(rules, targets) ==
  LET scans[n \in 0..Len(rules)] == IF n = 0 THEN InitialLists(rules, targets) ELSE Scan(scans[n - 1])
  IN  scans[Len(rules)].valid

parser_parse_makefile(lines, run_targets) ==
  filterOnTargets(Rules(lines), IF run_targets = << >> THEN lines[1].targets ELSE run_targets)
-----------------------------------------------------------------------------
\* For comparison: the targets that the build needs are the smallest set with
\* the wanted ones and the dependencies of its members.
Needed(lines, run_targets) ==
  LET rules  == ToSet(Rules(lines))
      names  == {r.target : r \in rules}
      wanted == ToSet(IF run_targets = << >> THEN lines[1].targets ELSE run_targets) \cap names
      closed(S) == \A r \in rules : r.target \in S => ToSet(r.deps) \cap names \subseteq S
  IN  {n \in names : \A S \in SUBSET names : wanted \subseteq S /\ closed(S) => n \in S}
=============================================================================
