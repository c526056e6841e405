----------------------------- MODULE Simulator ------------------------------
(***************************************************************************)
(* simulator.c: the time-unit loop of main() and the scheduler library it  *)
(* drives.  The jobs array is a sequence of active_jobs records; each loop *)
(* over it is a phase whose iterations that do something are steps: the    *)
(* library call together with what the simulator does with its answer.     *)
(***************************************************************************)
EXTENDS Scheduler

CONSTANTS
  JobLists,       \* the input files: sequences of [arrival_time, run_time, priority]
  Quanta          \* the quantums that may follow "rr" on the command line

ASSUME QuantaAssumption == Quanta \subseteq Nat \ {0}
ASSUME JobListsAssumption ==
  \A l \in JobLists :
    /\ l \in Seq([arrival_time : Int, run_time : Nat, priority : Int])
    /\ \A i \in DOMAIN l :
         /\ i - 1 \in JobNumbers
         /\ [running_time |-> l[i].run_time, priority |-> l[i].priority] \in Kinds

VARIABLES
  jobs,                  \* the first active_jobs elements of the array
  jobs_alive,
  quantum, quantum_clock,
  core_timing_diagram,   \* for each core and time unit the job that ran, or NoJob
  phase,                 \* the loop that runs, or how main() ended
  input,                 \* history: the input file
  freed                  \* history: what was passed to free()

simVars == << jobs, jobs_alive, quantum, quantum_clock, core_timing_diagram,
              phase, input, freed >>
vars == << schedVars, simVars >>

active_jobs == Len(jobs)

\* The element job_id of the array after reading line l of the file.
LoadedJob(job_id, l) ==
  [job_id |-> job_id, arrival_time |-> l.arrival_time, run_time |-> l.run_time,
   priority |-> l.priority, core_id |-> -1, arrived |-> FALSE]

Init ==
  /\ SchedInit
  /\ input \in JobLists
  /\ jobs = [i \in 1..Len(input) |-> LoadedJob(i - 1, input[i])]
  /\ jobs_alive = 0
  /\ quantum \in IF the_scheme = "RR" THEN Quanta ELSE {0}
  /\ quantum_clock = [c \in Cores |-> -1]
  /\ core_timing_diagram = [c \in Cores |-> << >>]
  /\ phase = "finish"
  /\ freed = << >>

\* The next iterations of the loops that have something to do.
IsFirst(i, S) == i \in S /\ \A k \in S : i <= k
FinishedIndices == {i \in DOMAIN jobs : jobs[i].run_time = 0}
ArrivingAgain == {i \in DOMAIN jobs : jobs[i].arrival_time = time}      \* mutant
ArrivingBefore ==      \* mutant: one unit early, so that time 0 is missed
  {i \in DOMAIN jobs : jobs[i].arrival_time = time + 1 /\ ~ jobs[i].arrived}
ArrivingIndices == {i \in DOMAIN jobs : jobs[i].arrival_time = time /\ ~ jobs[i].arrived}
OnCore(c) == {i \in DOMAIN jobs : jobs[i].core_id = c}
ExpiredCores == {c \in Cores : quantum_clock[c] = 0 /\ OnCore(c) # {}}

DeleteWithoutCopy(js, i) == SubSeq(js, 1, Len(js) - 1)      \* mutant
\* memcpy of the last element over element i, and active_jobs--.
Delete(js, i) ==
  LET last == Len(js) IN SubSeq([js EXCEPT ![i] = js[last]], 1, last - 1)

ResetNotOnArrival(c) ==      \* mutant: not when a job arrives
  IF the_scheme = "RR" /\ c # -1 /\ phase # "arrive" THEN [quantum_clock EXCEPT ![c] = quantum]
                                                     ELSE quantum_clock
ResetClock(c) ==
  IF the_scheme = "RR" /\ c # -1 THEN [quantum_clock EXCEPT ![c] = quantum]
                                 ELSE quantum_clock

\* set_active_job, and the `return 3' of main() when it finds no such job.
set_active_job(job_id, c, js) ==
  LET found == {i \in DOMAIN js : js[i].job_id = job_id /\ js[i].arrived}
  IN  \/ /\ job_id = -1
         /\ jobs' = js
         /\ UNCHANGED phase
      \/ /\ job_id # -1 /\ found = {}
         /\ jobs' = js
         /\ phase' = "return 3"
      \/ \E i \in found :
           /\ job_id # -1 /\ IsFirst(i, found)
           /\ jobs' = [js EXCEPT ![i].core_id = c]
           /\ UNCHANGED phase

\* 1. Check if any jobs finished in the last time unit.
JobFinishes == \E i \in FinishedIndices :
  LET c == jobs[i].core_id IN
  /\ phase = "finish" /\ IsFirst(i, FinishedIndices)
  /\ scheduler_job_finished(c, time)
  /\ quantum_clock' = ResetClock(c)
  /\ jobs_alive' = jobs_alive - 1
  /\ set_active_job(ret', c, Delete(jobs, i))
  /\ UNCHANGED << time, quantum, core_timing_diagram, input, freed >>

\* The loop ends; without active jobs main() leaves the time-unit loop.
AllFinishesSeen ==
  /\ phase = "finish" /\ FinishedIndices = {}
  /\ phase' = IF active_jobs = 0 THEN "averages" ELSE "quantum"
  /\ UNCHANGED << schedVars, jobs, jobs_alive, quantum, quantum_clock,
                  core_timing_diagram, input, freed >>

\* 2. Check if any quantums expired in the last time unit.
QuantumExpires == \E c \in ExpiredCores, i \in DOMAIN jobs :
  /\ phase = "quantum" /\ the_scheme = "RR"
  /\ IsFirst(c, ExpiredCores) /\ IsFirst(i, OnCore(c))
  /\ scheduler_quantum_expired(c, time)
  /\ quantum_clock' = ResetClock(c)
  /\ set_active_job(ret', c, [jobs EXCEPT ![i].core_id = -1])
  /\ UNCHANGED << time, jobs_alive, quantum, core_timing_diagram, input, freed >>

AllQuantumsSeen ==
  /\ phase = "quantum"
  /\ the_scheme # "RR" \/ ExpiredCores = {}
  /\ phase' = "arrive"
  /\ UNCHANGED << schedVars, jobs, jobs_alive, quantum, quantum_clock,
                  core_timing_diagram, input, freed >>

\* Whoever uses the core is thrown off and the new job is put there.
PutOnCore(i, c) ==
  [k \in DOMAIN jobs |->
     CASE k = i -> [jobs[i] EXCEPT !.arrived = TRUE, !.core_id = c]
       [] k # i /\ c # -1 /\ jobs[k].core_id = c -> [jobs[k] EXCEPT !.core_id = -1]
       [] OTHER -> jobs[k]]

\* 3. Check for any new jobs that arrive in this time unit.
JobArrives == \E i \in ArrivingIndices :
  /\ phase = "arrive" /\ IsFirst(i, ArrivingIndices)
  /\ scheduler_new_job(jobs[i].job_id, time, jobs[i].run_time, jobs[i].priority)
  /\ jobs_alive' = jobs_alive + 1
  /\ jobs' = PutOnCore(i, ret')
  /\ quantum_clock' = ResetClock(ret')
  /\ phase' = IF ret' \in Cores \cup {-1} THEN phase ELSE "return 3"
  /\ UNCHANGED << time, quantum, core_timing_diagram, input, freed >>

Extended(diagram) ==
  [c \in Cores |-> Append(diagram[c], IF OnCore(c) = {} THEN NoJob
                                      ELSE jobs[CHOOSE i \in OnCore(c) : TRUE].job_id)]

\* 4. Run the time unit, 6. the sanity check and 7. time++.  The assertion is
\* that no two jobs run on the same core.
RunTimeUnit ==
  LET running == {i \in DOMAIN jobs : jobs[i].core_id # -1} IN
  /\ phase = "arrive" /\ ArrivingIndices = {}
  /\ time < MaxTime
  /\ jobs' = [i \in DOMAIN jobs |-> IF i \in running THEN [jobs[i] EXCEPT !.run_time = @ - 1]
                                                   ELSE jobs[i]]
  /\ quantum_clock' = [c \in Cores |-> quantum_clock[c] - Cardinality(OnCore(c))]
  /\ core_timing_diagram' = Extended(core_timing_diagram)
  /\ time' = time + 1
  /\ phase' = CASE \E c \in Cores : Cardinality(OnCore(c)) > 1 -> "abort"
                [] jobs_alive > 0 /\ running = {} -> "return 3"
                [] OTHER -> "finish"
  /\ UNCHANGED << the_scheme, core_arr, job_queue, finished, job, job_count, ret,
                  arrived, jobs_alive, quantum, input, freed >>

\* The averages are printed and scheduler_clean_up frees the jobs.
CleanUp ==
  /\ phase = "averages"
  /\ freed' = scheduler_clean_up
  /\ phase' = "return 0"
  /\ UNCHANGED << schedVars, jobs, jobs_alive, quantum, quantum_clock,
                  core_timing_diagram, input >>

Next == \/ JobFinishes \/ AllFinishesSeen \/ QuantumExpires \/ AllQuantumsSeen
        \/ JobArrives \/ RunTimeUnit \/ CleanUp

\* main() is one sequential program: it goes on as long as it can.
Spec == Init /\ [][Next]_vars /\ WF_vars(Next)
-----------------------------------------------------------------------------
(* The simulator and the library agree on who runs where: a job's core_id  *)
(* is c exactly if the library has it on core c.  They keep this in two    *)
(* arrays that are only related by the values returned, while the          *)
(* simulator moves elements and throws jobs off their cores.  And they     *)
(* agree on how much is left of a job, which PSJF goes by: the library     *)
(* never sees the clock run, and derives from last_runtime what the        *)
(* simulator has counted (RR, which does not use it, excepted).            *)
ViewsAgree ==
  /\ \A c \in Cores : {jobs[i].job_id : i \in OnCore(c)} = {core_arr[c]} \ {NoJob}
  /\ {jobs[i].job_id : i \in {k \in DOMAIN jobs : jobs[k].arrived}} = CoreJobs \cup QueueJobs
  /\ jobs_alive = Cardinality(CoreJobs \cup QueueJobs)
  /\ the_scheme # "RR" =>
       \A i \in DOMAIN jobs :
         LET r == job[jobs[i].job_id] IN
         jobs[i].arrived =>
           r.remaining_time = jobs[i].run_time
             + IF jobs[i].core_id = -1 THEN 0 ELSE time - r.last_runtime

\* The time units, counted from 1, in which j was executed.
UnitsOf(j) == {u \in 1..time : \E c \in Cores : core_timing_diagram[c][u] = j}

(* The statistics of a finished job are those that the timing diagram      *)
(* shows (its response, too, is in the first unit in which it really ran:  *)
(* "You should not consider job as responded until it runs a CPU cycle"),  *)
(* and at the end the averages are over all the jobs of the file.          *)
StatisticsMatchDiagram ==
  /\ \A j \in FinishedJobs :
       LET line == input[j + 1]
           units == UnitsOf(j)
       IN  /\ Cardinality(units) = line.run_time
           /\ job[j].response_time = Min(units) - 1 - line.arrival_time
           /\ job[j].turnaround_time = Max(units) - line.arrival_time
           /\ job[j].waiting_time =
                Cardinality({u \in line.arrival_time + 1 .. Max(units) : u \notin units})
  /\ phase = "averages" =>
       /\ job_count = Len(finished) /\ job_count = Len(input)
       /\ 0 <= total_response /\ total_response <= total_waiting
       /\ total_turnaround = total_waiting + SumOf([n \in DOMAIN input |-> input[n].run_time])

(* In every time unit a job is executed on one core at most, and a core    *)
(* idles only if every job that has arrived and is not done is executed.   *)
DiagramIsSchedule ==
  \A u \in 1..time :
    /\ \A c, d \in Cores : core_timing_diagram[c][u] = core_timing_diagram[d][u]
                           /\ core_timing_diagram[c][u] # NoJob => c = d
    /\ (\E c \in Cores : core_timing_diagram[c][u] = NoJob) =>
         \A j \in arrived : input[j + 1].arrival_time < u =>
           u \in UnitsOf(j) \/ (j \in FinishedJobs /\ Max(UnitsOf(j)) < u)

\* The jobs are placed for this time unit and about to be executed.
AboutToRun == phase = "arrive" /\ ArrivingIndices = {}

(* PSJF and PPRI execute the best jobs: by the time that really remains,   *)
(* or by priority, and then by arrival no waiting job is before one that   *)
(* is executed.                                                            *)
RunsTheBest ==
  AboutToRun /\ Preemptive =>
    \A i, k \in DOMAIN jobs :
      LET key(n) == IF the_scheme = "PSJF" THEN jobs[n].run_time ELSE jobs[n].priority IN
      jobs[i].core_id # -1 /\ jobs[k].core_id = -1 /\ jobs[k].arrived =>
        \/ key(i) < key(k)
        \/ key(i) = key(k) /\ jobs[i].arrival_time <= jobs[k].arrival_time

(* RR: nobody waits through a whole quantum beside a core that executes    *)
(* one and the same job and is about to go on with it.  main() sees that a *)
(* quantum has expired only if the clock of the core is exactly zero.      *)
QuantumsExpire ==
  AboutToRun /\ the_scheme = "RR" =>
    \A i, k \in DOMAIN jobs :
      LET last == time - quantum + 1 .. time
          alone(u) == core_timing_diagram[jobs[i].core_id][u] = jobs[i].job_id
          waits(u) == jobs[k].arrival_time < u /\ u \notin UnitsOf(jobs[k].job_id)
      IN  jobs[i].core_id # -1 /\ jobs[k].core_id = -1 /\ jobs[k].arrived /\ quantum <= time =>
            \E u \in last : ~ (alone(u) /\ waits(u))

(* The simulator makes only the calls that the comments of libscheduler.c  *)
(* allow: each job is announced once, only a core with a job finishes or   *)
(* expires.  So what holds of the library with any legal caller holds here.*)
LibraryUsedLegally == SchedSpec

(* main() ends, and in the proper way: it never gives up on an answer of   *)
(* the library, every job of the file is finished and freed, and freed     *)
(* once.                                                                   *)
Terminates ==
  <>(phase = "return 0" /\ IsInjective(freed) /\ ToSet(freed) = 0..(Len(input) - 1))
=============================================================================
