---------------------------- MODULE MCScheduler -----------------------------
(***************************************************************************)
(* The scheduler library under a caller that makes any legal call at any   *)
(* time: more orders than the simulator has.                               *)
(***************************************************************************)
EXTENDS Scheduler

\* Two kinds of job: the longer has the better priority (the lower value), so
\* that PSJF and PPRI prefer different jobs.  A scheme compares one of the two.
TwoKinds == {[running_time |-> 1, priority |-> 1], [running_time |-> 2, priority |-> 0]}

\* No operation compares job numbers other than for equality.
Symmetry == Permutations(JobNumbers)
=============================================================================
