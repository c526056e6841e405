---------------------------- MODULE MCSimulator -----------------------------
(***************************************************************************)
(* Input files for Simulator: every file of four lines over a few arrival  *)
(* times and a few kinds of job.                                           *)
(***************************************************************************)
EXTENDS Simulator

Kind(running_time, priority) == [running_time |-> running_time, priority |-> priority]

\* The longer job has the better priority (the lower value), so that PSJF and
\* PPRI prefer different jobs.
LongAndShort == {Kind(1, 1), Kind(3, 0)}

Lines(arrivals, kinds) ==
  {[arrival_time |-> a, run_time |-> k.running_time, priority |-> k.priority] :
     a \in arrivals, k \in kinds}
FourLines == [1..4 -> Lines({0, 1, 3}, LongAndShort)]
=============================================================================
