----------------------------- MODULE Scheduler ------------------------------
(***************************************************************************)
(* libscheduler.c: the scheduler library that the simulator calls.  One    *)
(* action per library call; the clock `time' belongs to the caller, who    *)
(* may make the calls in any order that the comments of the library allow. *)
(*                                                                         *)
(* A job_t is named by its job_number: pointers to it become the number,   *)
(* and the NULL pointer and the answer -1 become NoJob.                    *)
(***************************************************************************)
EXTENDS PriQueue, FiniteSets, SequencesExt

CONSTANTS
  num_cores,      \* cores 0 .. num_cores-1
  JobNumbers,     \* the "globally unique" numbers jobs may have
  Schemes,        \* the schemes scheduler_start_up may be called with
  Kinds,          \* the running times and priorities that jobs may have
  MaxTime         \* bound on the clock

scheme_t == {"FCFS", "SJF", "PSJF", "PRI", "PPRI", "RR"}

ASSUME NumCoresAssumption == num_cores \in Nat \ {0}
ASSUME JobNumbersAssumption == -1 \notin JobNumbers
ASSUME SchemesAssumption == Schemes \subseteq scheme_t
ASSUME KindsAssumption == Kinds \subseteq [running_time : Nat \ {0}, priority : Int]
ASSUME MaxTimeAssumption == MaxTime \in Nat

VARIABLES
  the_scheme,
  core_arr,       \* the job on each core
  job_queue, finished,
  job,            \* the fields of each job_t
  job_count,
  ret,            \* what the last call returned
  arrived,        \* the jobs the caller has announced by scheduler_new_job
  time            \* the caller's clock

schedVars == << the_scheme, core_arr, job_queue, finished, job, job_count,
                ret, arrived, time >>

NoJob == -1
Cores == 0..(num_cores - 1)

job_t == [priority : Int, remaining_time : Int, running_time : Int,
          arrival_time : Int, first_runtime : Int, last_runtime : Int,
          waiting_time : Int, turnaround_time : Int, response_time : Int]

\* The job_t that scheduler_new_job fills; the statistics are set at the end.
NewJob(t, running_time, priority) ==
  [priority |-> priority, remaining_time |-> running_time,
   running_time |-> running_time, arrival_time |-> t,
   first_runtime |-> -1, last_runtime |-> -1,
   waiting_time |-> -1, turnaround_time |-> -1, response_time |-> -1]

-----------------------------------------------------------------------------
\* The comparison functions, on two job_t records.

comp_FCFS(a, b) == a.arrival_time - b.arrival_time

comp_RREqual(a, b) == 0      \* mutant: jobs compare equal
comp_RR(a, b) == 1

comp_SJF(a, b) ==
  IF a.remaining_time # b.remaining_time THEN a.remaining_time - b.remaining_time
                                         ELSE a.arrival_time - b.arrival_time

comp_PRI(a, b) ==
  IF a.priority # b.priority THEN a.priority - b.priority
                             ELSE a.arrival_time - b.arrival_time

\* The function that scheduler_start_up puts into job_queue.comp.
comp(a, b) ==
  CASE the_scheme = "FCFS"            -> comp_FCFS(a, b)
    [] the_scheme = "RR"              -> comp_RR(a, b)
    [] the_scheme \in {"SJF", "PSJF"} -> comp_SJF(a, b)
    [] OTHER                          -> comp_PRI(a, b)

Preemptive == the_scheme \in {"PSJF", "PPRI"}

OfferToReversed(q, j, jt) ==      \* mutant: comp(curr->data, ptr)
  priqueue_offer(q, j, {i \in DOMAIN q : comp(jt[q[i]], jt[j]) <= 0})
\* The queue after priqueue_offer(&job_queue, j), with the job records jt.
OfferTo(q, j, jt) == priqueue_offer(q, j, {i \in DOMAIN q : comp(jt[j], jt[q[i]]) <= 0})

CoreJobs == {core_arr[c] : c \in Cores} \ {NoJob}
IdleCores == {c \in Cores : core_arr[c] = NoJob}

-----------------------------------------------------------------------------
scheduler_start_up ==
  /\ the_scheme \in Schemes
  /\ core_arr = [c \in Cores |-> NoJob]
  /\ job_queue = << >> /\ finished = << >>
  /\ job = [j \in JobNumbers |-> NewJob(-1, 0, 0)]
  /\ job_count = 0
  /\ ret = NoJob
  /\ arrived = {}

SchedInit == scheduler_start_up /\ time = 0

-----------------------------------------------------------------------------
\* scheduler_new_job.

ChargedNothing(r, t) == [r EXCEPT !.last_runtime = t]      \* mutant
\* Every running job is charged the time since it was last looked at.
Charged(r, t) == [r EXCEPT !.remaining_time = @ - (t - r.last_runtime), !.last_runtime = t]

\* The job records with those charges and with the record `new' of job j.
WithNewJob(j, new, t) ==
  [k \in JobNumbers |-> CASE k = j          -> new
                          [] k \in CoreJobs -> Charged(job[k], t)
                          [] OTHER          -> job[k]]

Started(r, t) == [r EXCEPT !.first_runtime = t, !.last_runtime = t]

StillStarted(r, t) == [r EXCEPT !.last_runtime = -1]      \* mutant
\* A job preempted in the time unit it was put on the core has not run there.
Unstarted(r, t) ==
  [r EXCEPT !.first_runtime = IF @ = t THEN -1 ELSE @,
            !.last_runtime  = IF @ = t THEN -1 ELSE @]

\* The new job j takes the idle core with the lowest id.
TakeIdleCore(j, jt, t) == \E c \in IdleCores :
  /\ \A d \in IdleCores : c <= d
  /\ core_arr' = [core_arr EXCEPT ![c] = j]
  /\ job' = [jt EXCEPT ![j] = Started(jt[j], t)]
  /\ ret' = c
  /\ UNCHANGED job_queue

\* The cores whose job the new one precedes, and the worst of these: the scan
\* keeps the first core of those with the last job in the order of comp.
Beaten(j, jt) == {c \in Cores : comp(jt[j], jt[core_arr[c]]) < 0}
IsFirstBeaten(c, j, jt) ==      \* mutant: the scan stops at the first
  c \in Beaten(j, jt) /\ \A d \in Beaten(j, jt) : c <= d
IsWorst(c, j, jt) ==
  /\ c \in Beaten(j, jt)
  /\ \A d \in Beaten(j, jt) :
       /\ comp(jt[core_arr[c]], jt[core_arr[d]]) >= 0
       /\ comp(jt[core_arr[c]], jt[core_arr[d]]) = 0 => c <= d

PreemptAndForget(j, jt, t) == \E c \in Cores :      \* mutant: worst is not offered
  /\ IdleCores = {}
  /\ Preemptive
  /\ IsWorst(c, j, jt)
  /\ core_arr' = [core_arr EXCEPT ![c] = j]
  /\ job' = [jt EXCEPT ![j] = Started(jt[j], t)]
  /\ ret' = c
  /\ UNCHANGED job_queue

PreemptWorst(j, jt, t) == \E c \in Cores :
  /\ IdleCores = {}
  /\ Preemptive
  /\ IsWorst(c, j, jt)
  /\ LET worst == core_arr[c]
         jt2   == [jt EXCEPT ![worst] = Unstarted(jt[worst], t),
                               ![j] = Started(jt[j], t)]
     IN  /\ core_arr' = [core_arr EXCEPT ![c] = j]
         /\ job' = jt2
         /\ job_queue' = OfferTo(job_queue, worst, jt2)
         /\ ret' = c

Enqueue(j, jt) ==
  /\ IdleCores = {}
  /\ ~ Preemptive \/ Beaten(j, jt) = {}
  /\ job_queue' = OfferTo(job_queue, j, jt)
  /\ job' = jt
  /\ ret' = NoJob
  /\ UNCHANGED core_arr

scheduler_new_job(j, t, running_time, priority) ==
  LET jt == WithNewJob(j, NewJob(t, running_time, priority), t)
  IN  /\ TakeIdleCore(j, jt, t) \/ PreemptWorst(j, jt, t) \/ Enqueue(j, jt)
      /\ job_count' = job_count + 1
      /\ arrived' = arrived \cup {j}
      /\ UNCHANGED << the_scheme, finished >>

-----------------------------------------------------------------------------
\* A job's first_runtime is that of its first run.
Resumed(r, t) ==
  [r EXCEPT !.first_runtime = IF @ = -1 THEN t ELSE @, !.last_runtime = t]

\* Put what priqueue_poll(q) returns on core c, with the job records jt.
PollTo(c, q, jt, t) ==
  LET next == priqueue_peek(q, NoJob)
  IN  /\ core_arr' = [core_arr EXCEPT ![c] = next]
      /\ job_queue' = priqueue_poll(q)
      /\ ret' = next
      /\ job' = IF next = NoJob THEN jt
                ELSE [jt EXCEPT ![next] = Resumed(jt[next], t)]

WithStats(r, t) ==
  [r EXCEPT !.waiting_time = (t - r.arrival_time) - r.running_time,
            !.response_time = r.first_runtime - r.arrival_time,
            !.turnaround_time = t - r.arrival_time]

scheduler_job_finished_no_poll(c, t) ==      \* mutant: the core is left idle
  /\ finished' = priqueue_offer(finished, core_arr[c], {})
  /\ core_arr' = [core_arr EXCEPT ![c] = NoJob]
  /\ job' = [job EXCEPT ![core_arr[c]] = WithStats(job[core_arr[c]], t)]
  /\ ret' = NoJob
  /\ UNCHANGED << the_scheme, job_queue, job_count, arrived >>

\* comp_RR orders `finished': a finished job is appended.
scheduler_job_finished(c, t) ==
  LET j == core_arr[c]
  IN  /\ finished' = priqueue_offer(finished, j, {})
      /\ PollTo(c, job_queue, [job EXCEPT ![j] = WithStats(job[j], t)], t)
      /\ UNCHANGED << the_scheme, job_count, arrived >>

scheduler_quantum_expired_lost(c, t) ==      \* mutant: polls without offering
  /\ PollTo(c, job_queue, job, t)
  /\ UNCHANGED << the_scheme, finished, job_count, arrived >>

scheduler_quantum_expired(c, t) ==
  /\ PollTo(c, OfferTo(job_queue, core_arr[c], job), job, t)
  /\ UNCHANGED << the_scheme, finished, job_count, arrived >>

\* The totals that the three scheduler_average functions divide by job_count.
SumOf(numbers) == FoldLeft(LAMBDA sum, n : sum + n, 0, numbers)
TotalOf(stat) == SumOf([i \in DOMAIN finished |-> job[finished[i]][stat]])
total_waiting == TotalOf("waiting_time")
total_turnaround == TotalOf("turnaround_time")
total_response == TotalOf("response_time")

\* The pointers that scheduler_clean_up passes to free(), in its order.
scheduler_clean_up ==
  SelectSeq([i \in 1..num_cores |-> core_arr[i - 1]], LAMBDA j : j # NoJob)
    \o job_queue \o finished

-----------------------------------------------------------------------------
(***************************************************************************)
(* The callers' side: job numbers are unique, a finished or expired core   *)
(* has a job, quantums expire in RR only and the clock does not go back.   *)
(***************************************************************************)
NewJobCall == \E j \in JobNumbers \ arrived, k \in Kinds :
  scheduler_new_job(j, time, k.running_time, k.priority) /\ UNCHANGED time

JobFinishedCall == \E c \in Cores \ IdleCores :
  scheduler_job_finished(c, time) /\ UNCHANGED time

QuantumExpiredCall == \E c \in Cores \ IdleCores :
  /\ the_scheme = "RR"
  /\ scheduler_quantum_expired(c, time) /\ UNCHANGED time

Tick ==
  /\ time < MaxTime
  /\ time' = time + 1
  /\ UNCHANGED << the_scheme, core_arr, job_queue, finished, job, job_count,
                  ret, arrived >>

SchedNext == NewJobCall \/ JobFinishedCall \/ QuantumExpiredCall \/ Tick
SchedSpec == SchedInit /\ [][SchedNext]_schedVars
-----------------------------------------------------------------------------
TypeOK ==
  /\ the_scheme \in Schemes
  /\ core_arr \in [Cores -> JobNumbers \cup {NoJob}]
  /\ job_queue \in Seq(JobNumbers)
  /\ finished \in Seq(JobNumbers)
  /\ job \in [JobNumbers -> job_t]
  /\ job_count \in Nat
  /\ ret \in JobNumbers \cup Cores \cup {NoJob}
  /\ arrived \subseteq JobNumbers
  /\ time \in Nat

QueueJobs == ToSet(job_queue)
FinishedJobs == ToSet(finished)

(* A job_t pointer is never lost and never in two places: every announced  *)
(* job is on one core, or once in job_queue, or once in finished.  Else a  *)
(* job would not run, run on two cores at once (scheduler.html forbids it) *)
(* or be freed twice by scheduler_clean_up.                                *)
Conservation ==
  /\ CoreJobs \cup QueueJobs \cup FinishedJobs = arrived
  /\ CoreJobs \cap QueueJobs = {}
  /\ (CoreJobs \cup QueueJobs) \cap FinishedJobs = {}
  /\ \A c, d \in Cores : core_arr[c] = core_arr[d] /\ core_arr[c] # NoJob => c = d
  /\ IsInjective(job_queue) /\ IsInjective(finished)

(* No core idles while a job waits, whatever calls came in whatever order: *)
(* the simulator gives up when a job is left with all cores idle.          *)
WorkConserving == job_queue # << >> => IdleCores = {}

(* job_queue stays in the order of its comparison function although the    *)
(* keys of PSJF change: only those of jobs outside the queue may.          *)
QueueOrdered ==
  the_scheme # "RR" =>
    \A i, k \in DOMAIN job_queue :
      i < k => comp(job[job_queue[i]], job[job_queue[k]]) <= 0

(* In PSJF and PPRI no waiting job precedes a running one, with the time   *)
(* the running one was last charged: the preempted job was the worst.      *)
NoBetterJobWaits ==
  Preemptive =>
    \A k \in DOMAIN job_queue, c \in Cores \ IdleCores :
      comp(job[job_queue[k]], job[core_arr[c]]) >= 0

\* a is in front of b in q.
InFrontOf(a, b, q) == \E i, k \in DOMAIN q : i < k /\ q[i] = a /\ q[k] = b

(* The cycle of RR: a waiting job is never overtaken, neither by a job     *)
(* whose quantum expired nor by a new one, and the head is served first.   *)
RoundRobinCycle ==
  [][the_scheme = "RR" =>
       \A a \in QueueJobs \cap QueueJobs', b \in JobNumbers :
         a # b /\ ~ InFrontOf(b, a, job_queue) =>
           /\ ~ InFrontOf(b, a, job_queue')
           /\ b \in CoreJobs' => b \in CoreJobs]_schedVars

(* Seen through the sets of jobs on cores, waiting and finished, every     *)
(* scheme is a scheduler that serves all and idles no core: the order of   *)
(* the queue and the bookkeeping decide only who is served.                *)
Abstract == INSTANCE AbstractScheduler WITH
              Job <- JobNumbers, Core <- Cores, NoJob <- NoJob,
              on <- core_arr, waiting <- QueueJobs, done <- FinishedJobs
ImplementsAbstract == Abstract!AbsSpec
=============================================================================
